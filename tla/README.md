# A TLA+ verification of SynapseHub

SynapseHub is a team-messaging system: nine NestJS services that share one
PostgreSQL database through Prisma, a WebSocket gateway that fans events out
through Redis, and a Next.js web client. Nothing in it takes a lock, and very few
handlers open a transaction: the services are stateless, run in several copies
(two replicas each in `infrastructure/kubernetes/synapsehub.yaml`), and a handler is
a sequence of database round trips between which anything may happen. That is
where its hard behaviours are, and what these modules model: **one action is one
round trip** (or one transaction), all handlers of all replicas interleave, and a
handler may die, or lose an answer, between any two of them.

## Inventory

| part | state it keeps | operations | hard behaviours | what makes it correct |
|---|---|---|---|---|
| Scheduled messages (`messaging.service.ts` 38-56, 666-901) | `ScheduledMessage` rows; in each replica the in-flight flag, the fetched batch, the claimed row | schedule, cancel, list; the poller: fetch, claim, deliver, settle | several pollers on the same rows, cancellation racing with delivery, a crash between claim and settlement, failures after the message exists | at most one message per schedule, never early, the row tells the truth, every due row is settled |
| Posting (`messaging.service.ts` 58-108, 360-408, 903-1003, 1162-1277; `bots.service.ts` 82-136, 203-244) | `Message` rows with their channel sequence; attached files, notifications, bot events | sendMessage, replyInThread, bot message, slash command | two services allocate the same number; bounded retries; effects stored after the message; channels archived meanwhile | the channel is an append-only log without holes, answers are true, nobody gives up without contention |
| Sessions and credentials (`auth.service.ts`) | `User.passwordHash`, `RefreshToken`, `PasswordResetToken`, `EmailVerificationToken` | register, login, refresh, logout, forgot, reset, verify, resend | check-then-act on tokens, JWTs that collide within a second, a reset racing with refreshes | rotation, sign-out everywhere, one-time tokens |
| Workspaces and invites (`workspaces.service.ts`) | `WorkspaceMember`, `WorkspaceInviteLink`, `WorkspaceInviteAcceptance` | create, invite, create/revoke/accept link, set role | limited links accepted concurrently, retries of an acceptance, stale authority of the actor | use count = acceptances, limit respected, acceptance is idempotent, revocation is final |
| Channels (`channels.service.ts`) | `Channel`, `ChannelMember` | create, direct channel, join, leave, archive, list | find-or-create of a direct channel, names shared with ordinary channels, members who left | one direct channel per pair, closed channels stay closed |
| Threads and message life cycle (`messaging.service.ts` 140-358, 410-664) | `Thread`, edited/deleted messages, reactions, pins, bookmarks, drafts | edit, delete, react, pin, thread, bookmark, draft | upserts of several callers, an edit racing with a deletion | one flat thread per conversation, a deleted message stays deleted |
| Realtime (`realtime.gateway.ts`, `redis-pubsub.service.ts`) | socket rooms, Redis subscription | connect, join, leave, send, edit, delete, typing | fan-out across gateways, events out of order or after a leave | a socket is in the room of the channel its page shows, and what it hears last is the row |
| Web client (`apps/web/app/messages/page.tsx`, providers) | timeline, selected channel, composer, query cache, the session in `localStorage` | event handlers, switch, autosave, send, toggle, sign in and out | events of another channel, answers that arrive after a switch, saves that overtake each other, tabs that share a session | the timeline shows its channel, drafts stay in theirs, a session is lost in known ways only |
| Files (`files.service.ts`, `messaging.service.ts` 963-1003) | `File` rows | upload (the row only), get, remove; attach to a message | an attachment updates rows by id that were read before | a file is where its message is, a removed one stays removed |
| Notifications (`notifications.service.ts`) | `Notification` rows | emit, list, mark read | PENDING to SENT in two round trips | nothing is lost or sent twice |
| Users, search, integrations, bot administration | `User` profile, `Integration`, `Bot` | profile updates, queries, webhook | little: single-row writes and reads | authorisation of the caller |
| Paged lists of all services, shared package | none | one page after a cursor | rows that change between two pages, boundaries of a page | a walk misses and repeats nothing |

How they interact: the gateway and the web client call the services over HTTP; the
services do not call one another and meet only in the database. `messaging-service`
and `workspace-service` (bots) write the same `Message` table; `channel-service` sets
the `isArchived` flag that both read before they post; the poller posts through
the same sequence allocation as a request; a password reset revokes the tokens that
refresh and logout use. Two writers store the columns of a `File` row, `file-service` and the
sending of a message. A page of the web client hears of other people's messages from the gateway only,
while its own writes go to the services over REST, which publish nothing.

`PROJECT.json` lists every component with its status, and under `hazards` each
behaviour that a unit test would hardly reach, at its line, with the properties
that would catch it going wrong. Where the code itself lets the accident happen, the
hazard's note says so: no property can forbid it, and the property concerned states that
it is the only way in which its rule is broken.

## Modules

| module | role |
|---|---|
| `ScheduleContract` | abstract: a schedule is armed, and then fires once or is dropped |
| `ScheduledMessages` | the rows, the users, the pollers of all replicas, failures and crashes |
| `ScheduledMessagesProofs` | theorems about it |
| `ChannelLog` | abstract: a channel is a log that grows at its end, a request appends at most once |
| `Posting` | the four posting handlers of the two services, archiving, failures |
| `PostingProofs` | theorems about it |
| `AuthTokens` | login, refresh, logout, forgotPassword, resetPassword of one account |
| `AuthTokensProofs` | theorems about it |
| `WorkspaceInvites` | invitations, invite links, acceptances and roles of one workspace |
| `WorkspaceInvitesProofs` | theorems about it |
| `Messages` | edits, deletions, threads and replies after posting |
| `MessagesProofs` | theorems about it |
| `Channels` | the channels of one workspace, their members, direct channels |
| `ChannelsProofs` | theorems about it |
| `Realtime` | the gateway's handlers, the fan-out through Redis, sockets and rooms |
| `Timeline` | what the messages page shows of a channel, and its four writers |
| `Drafts` | the composer, its autosave, and the `MessageDraft` rows |
| `Paging` | a walk over any of the paged lists while their rows change |
| `ClientSession` | the session of a browser in `localStorage`, its tabs and their requests |
| `EmailVerification` | register, resendVerification and verifyEmail of one account |
| `Attachments` | `File` rows: upload, removal, and sending with files |
| `Marks` | pins and bookmarks, and the two queries of the page |
| `Live` | `Realtime` and `Timeline` side by side |
| `LiveProofs` | theorems about both and their composition |
| `Records` | `Drafts`, `Paging`, `ClientSession`, `EmailVerification`, `Attachments`, `Marks` side by side |
| `RecordsProofs` | theorems about the six and their composition |
| `MC*` | instances for TLC |

Each specification has a section "Plausible mistakes": variants of its actions that are
never part of `Next`. Put in the place of the action they alter, each breaks one
property; they document what a property is able to notice.

### ScheduledMessages

State. `status`, `sendAt`, `linked`, `canceledAt` are the columns of a `ScheduledMessage`
row; `posted` counts the messages a row has put in its channel; `archived` are the rows
whose channel is archived. A replica has `pc` ("idle" is `schedulerTickInFlight =
false`), `batch` (`dueMessages`) and `current` (the row of the loop body).

Actions. `Schedule` is `scheduleMessage`. `CancelRead` and `CancelWrite` are the
two round trips of `cancelScheduledMessage`, whose update names the row by id only.
`Poll` is the `findMany` of `processDueScheduledMessages`; `Claim` and `SkipTaken`
are the guarded `updateMany` with count 1 and 0; `CheckAccess`, `CreateMessage`,
`Notify`, `MarkSent` are the body of the `try`; `StepFails` and `MarkFailed` are its
`catch`; `EndTick` is the `finally`. `Crash` kills a replica anywhere in a tick (a
`catch` block that throws ends the process too); nothing in the code recovers a row
that is PROCESSING. The refusal of an author who lost access is one of the failures
of `StepFails`; archiving is modelled on its own because it is final.

Abstraction. The allocation of the sequence number inside `CreateMessage` is the
subject of `Posting`. `ScheduleContract` has three actions: arm, fire, drop;
`ScheduledMessages` implements it with `armed` = pending, or claimed and not yet past the
creation of the message.

### Posting

State. `timeline[c]` is the function from sequence number to message of channel `c`: a
function because of the unique index on `(channelId, sequence)`. `effects` are what a
handler stores after its message: attached files, mention, reply and activity
notifications, the bot event. A request has `pc`, what it carries (`payload`), the
number it is about to insert, and the attempts it lost.

Actions. `CheckPasses`/`CheckRejects` are `ensureChannelAccess` (and the thread check) or
`authenticateBot` with `ensureChannelInWorkspace`; `ReadLatest`, `Insert`, `Conflict` are
one attempt of `createMessageWithSequence` (six attempts) or `createBotMessageWithRetry`
(five); `StoreEffect` and `Answer` finish the handler; `Fail` is an error or death between
any two of them, and `Insert` may also store its row and lose the answer. `Archive` is
`ChannelsService.archive`.

`ChannelLog` is a family of logs that only grow at their end, by a request that is not in
one yet; `timeline` itself is the refinement mapping.

### AuthTokens

One account. A refresh token is a JWT over the user and the second of its issue, so
`session` is indexed by seconds and a second login in the same second meets the
unique index (`IssueCollides`). A reset token is named by the `forgotPassword` call that
made it. `RefreshCheck`, `RefreshRevoke`, `IssueTokens` are the three round trips of
`refresh`; `LoginCheck` leads to `IssueTokens` as well; `ForgotDelete` and `ForgotCreate`
are `createPasswordResetToken`; `ResetCheck` reads the token and `ResetApply` is the
transaction of `resetPassword`, which is rolled back if the row has gone. Two tokens are valid
at once if two `forgotPassword` both deleted before either created. `parent`,
`bornAt`, `applied`, `swept` are history variables. A call that is refused at its first
read changes nothing and is no action.

### WorkspaceInvites

`member` holds the role of each `WorkspaceMember` row, `made`, `terms`, `expires`, `uses`,
`revoked` are the `WorkspaceInviteLink` rows (the addresses a link admits by
`invitedEmail` and `allowedDomain` are one set, `recipients`), `accepted` the
`WorkspaceInviteAcceptance` rows. Every managing operation is a check of the actor and,
in a later action, a write: `LinkCheck`/`MakeLink`, `InviteCheck`/`InviteFindUser`/
(`InviteAdd` or `InviteMail`), `RevokeCheck`/`RevokeLink`, `RoleCheck`/`SetRole`.
`acceptInviteLink` is `AcceptRead` (or `AcceptRefused`), `AcceptLookup`, and `Rejoin`, or
the transaction `Reserve` (or `ReserveRefused`: rolled back). The clock that `Reserve`
compares with `expiresAt` is read before the transaction begins, so the call carries
it in `clock`. Consecutive reads of one check (actor, then target or link) are one action.

### Messages

`messages` and `threads` are the `Message` and `Thread` rows, `latest` the highest sequence
number of a channel: how a number is allocated is the subject of `Posting`, so `Send` and
`Reply` take theirs in the step that stores the message. `EditRead`/`EditWrite` and
`DeleteRead`/`DeleteWrite` are the check and the update of `editMessage` and
`deleteMessage`; the update names the message by id only. `createThread` is `ThreadOfReply`
(the message has a thread), or `ThreadRead` and then the upsert: `ThreadFound` or
`ThreadCreate`. `source` and `answer` remember what a call asked and got. No operation
removes a message or a thread, so reads of a message's place are never stale.

### Channels

`channels`, `members` and `people` are the `Channel`, `ChannelMember` and `WorkspaceMember`
rows of one workspace. The name of a direct channel is the unordered pair of its users,
because `directChannelName` sorts them; ordinary channels may be created under any name,
such a pair included. `Create`, `Join`, `Leave`, `Archive` are one step each, because
what they read before they write never changes or never ends; `createDirectChannel`
is `DirectFound`, or `DirectMissing` and then `DirectInsert`, or `DirectConflict` and then
`DirectFoundAgain` or `DirectFail`. An answer may be lost after the row is stored.

### Realtime

One page is a socket (`link`, the gateway it hangs on, its `rooms`) and the hook and effect that keep it:
`Select` is a switch of the channel, `Render` the first render that has the socket. Commands travel in
order (`outbox`), and socket.io buffers those of a socket that is down. `ServeJoin` takes a
`channel:join`, whose access check is a call of the messaging service, so `Grant` or `Refuse` come later;
`ServeLeave` is served at once. A writing handler is `Store` (the service has written), `Reread` (its answer
is the row of a later round trip) and `Publish`; `Signal` stands for the events that carry no row the page
shows; `HttpStore` is the same write over REST, which publishes nothing. `Broadcast` is the subscriber of one
gateway. `Forget` is what a broken connection or a restarted gateway loses: the rooms, the checks, what was on
its way. Redis keeps nothing for a subscriber that is away (`LoseRedis`).

### Timeline

`row` is the database, `cache`, `fetch` and `stale` the messages query of each channel, `list` the React state
that is on the screen. `FetchAnswered` copies an answer if its value is new and its channel is open; `Upsert` is
`upsertMessage`, for an event (`HandleCreated` looks at the channel, `HandleChanged` does not) and for the
answer to a post or reply, whichever channel is open by then. A message is a number, its place in its channel.
The answer to a post invalidates the query. React Query (version 5) cancels and repeats a fetch that is on its way only if
the query holds data already: the first one goes on (`FirstFetch`), and its answer clears the invalidation though it may
have been read before the post (`Outrun`). The same holds of the queries of `Drafts` and `Marks`.

### Drafts

`draft` are the `MessageDraft` rows, `saves` the PUTs on their way, `cache`, `fetch`, `stale` the drafts query,
`text`, `hydrated`, `armed` the composer, `draftHydratedChannelId` and the 500 ms timer. `Fire` is the timer;
`StoreSave(c, i)` serves any of the saves on their way, so that one can overtake another. `Select` drops the timer
(the effect's clean-up) and hydrates at once from cached data; `FetchAnswered` hydrates a composer
that waits; `SubmitAnswered` empties the composer that is open when the answer comes.
`intent` and `lost` are history: what the user left in a channel, and where a named accident parted it
from the row.

### Paging

All lists are one Prisma query of one form, so one module serves eleven of them: `Lists` says of each where a new row
goes and what may happen to a row between two pages (a bookmark is touched or deleted; a message leaves a
search when it is edited; a channel leaves its list when it is archived). A row is a number; `place` is its rank in the order
of the list and `matches` the rows that pass the filter, so a page is the set of its rows. `From` and `Rest` are Prisma's
`cursor: {id}, skip: 1`, which is external code and modelled as the services use it. An order that has a column
with its own unique index is compared in the query: the page starts at the place of the cursor row, whether or not that
row still passes the filter, and skips one row that does (`from |-> "place"`). An order by dates, or by a
number that is unique within its channel only, is not: Prisma reads the
rows that match and drops those up to the cursor row itself, and a cursor row that left the filter leaves nothing
(`from |-> "row"`: messages, notifications and three of the four searches). Rows of one millisecond are taken to keep their order from
query to query. `NextCursor` is the shared `nextCursor`, `Bounded` the clamping of the limit.

### ClientSession

`stored` is the record in `localStorage`, `held` the React state of each tab, `cache` the account whose data its
query client holds. A request carries the token that is stored when it is sent. `Unauthorized` is the response
interceptor: it removes the record, whosever it is by then, and loads the login page unless the tab shows it.
`Saved` is `updateUser` after a saved profile, `SignedOut` is `signOut`, `SignedIn` the answer to login or
register. Nothing in the client exchanges the refresh token, so `Expire` ends a session.

### EmailVerification

`link` are the `EmailVerificationToken` rows by the call that makes them. `Sweep` is the `deleteMany` of a resend;
`Create` and `Mail` are `sendVerificationEmail`, which nobody awaits and which may fail anywhere
(`DispatchFails`). `VerifyRead` is the lookup of `verifyEmail` and `VerifyApply` its transaction, which is rolled back
when the row is gone.

### Attachments

`UploadCheck`/`UploadCreate` and `RemoveCheck`/`RemoveApply` are the reads and the write of `upload` and `remove`;
`Send` stores the message, `Find` reads the sender's files among those it names, `Attach` is the `updateMany`
by id. Channel and workspace access hold for all users of the instance: they are read before anything
is written and change nothing.

### Marks

`pins` and `bookmarks` are the rows, `shown` what the page's queries hold. `TogglePin` and `ToggleBookmark` decide by `shown`
which call to make, `Serve` is the service, `Answered` invalidates the query, `Elsewhere` is another page. `loaded` are the
queries that hold data: `Refetch` leaves the first fetch alone. `unheard` is history: the queries whose last read went
before a change the page was not told of, or was told of in vain.

## Runs

| run | instance | question |
|---|---|---|
| `schedule` | 2 rows, 2 replicas, batches of 1, 1 cancellation, 1 crash, clock 0..2, fair | at most one message, true rows, the contract; is every due row settled, or lost with the replica that held it? |
| `posting` | 3 calls in 5 mixes of 7 kinds, 2 channels, 2 and 1 attempts, fair | the log, true answers, archiving, what a lost attempt means; is every request answered? |
| `auth_safety` | 5 calls of any kind, 2 seconds, tokens that live 1 second | rotation, reset, reset tokens |
| `reset_token_reuse` | 3 calls | violated: see Findings |
| `invites_safety` | 3 calls, 3 users, 2 links: one use for members, no limit for an owner; links expire | who gets in, who changes roles, counts, limit, closing |
| `invite_retry` | 3 calls, 1 link | violated: see Findings |
| `threads_and_edits` | 3 messages, 2 channels, 2 threads, 3 calls | threads, agreement on them, finality of deletions |
| `edit_after_delete` | 1 message, 2 calls | violated: see Findings |
| `channel_circles` | 3 users (one enters later), 2 channels, 1 direct call | who is in a channel |
| `direct_channel_race` | 2 users, 2 channels, 3 direct calls | agreement on the direct channel, conflicts of names |
| `live_page` | 2 gateways, 1 page, 2 channels, 2 writing calls, 2 faults, 2 switches; a timeline of 2 messages and pages of 1 | rooms, events, the timeline |
| `own_records` | six parts, below | drafts, walks, session, links, files, marks |

A part of a state space is of little use next to another with which it shares no state, so `live_page` and `own_records` are
sums and no products (`Live` and `Records`): the variable `part` is chosen once, and a behaviour takes the steps of that part only. The
properties name the part they are about; the sum of the parts' states is what TLC visits. That nothing is lost by it is proved:
a behaviour of the sum is a behaviour of each part (`LiveIsItsParts`, `RecordsAreTheirParts`), and the theorems about a part
are about its own specification, for all values of its constants.

Why the bounds are enough to be interesting. Two replicas and batches of one row are what
it takes for a stale batch, for two pollers on one row, and for a row that
waits behind another; one cancellation can fall between any two of their steps. Three
posting calls give a writer that loses against two others in different services, and a bot with one
attempt runs out of it. In `auth_safety` five calls suffice for login, two refreshes,
forgotPassword and resetPassword on one account; within two seconds tokens both collide and
expire. In `invites_safety` one call makes a link and two race to accept or revoke it. Three
messages are a root with two replies, or two conversations, and three calls can open a thread from
two of them while an edit or a deletion is under way. Two channels are an ordinary and a
direct one that compete for a name, or two ordinary ones; the third user of `channel_circles` is
the one who must not get in.

In `live_page` two gateways let a page reconnect to another one than before and miss what the first has sent;
two faults are a broken connection and a lost subscription, two switches leave a channel and come back
while its join is still being checked; two writing calls publish in the order opposite to their writes. Two messages and
pages of one make a page that does not hold the newest message. In `own_records`: two channels with one text
of each, two changes, two switches or reloads, and two saves of a channel on their way (one overtakes the
other); four rows, one more inserted, pages of one or two rows and three changes, so that a walk has three pages or
more with a change after each; two tabs, two accounts, two sessions and two requests, so that an answer of one session meets
the other; two resends, two verifications and a link that lives one tick; three calls on one file by
its uploader, an administrator and two channels; two messages, two clicks and pages of one bookmark.

Symmetry is used where calls, rows or gateways are interchangeable, and never in `schedule` and `posting`, which
check liveness, nor in `own_records`. All runs say `CHECK_DEADLOCK FALSE`: the calls, the
clock, the faults and the clicks are finite in number, and when they are used up the system rests.

Every bound: `MaxTime` stops the clock, `MaxCrashes` and `MaxFaults` count crashes and faults, `Requests`,
`CancelRequests`, `Resends`, `Verifies` and the `Calls` of `Realtime` are the calls of a behaviour (each is made once),
`MaxCalls` and `MaxSaves` those on their way at a time, `MaxTypes`, `MaxSelects`, `MaxClicks`, `MaxLoads` what the
user does, `MaxChanges`, `MaxOthers` what other people do, `MaxRows`, `Schedules`, `Links`, `MessageIds`, `ThreadIds`, `ChannelIds`,
`Sessions` and `Files` the rows that may be created. The theorems hold for all values.

### What the checks show

The properties of the first six modules are listed with their proofs below. Of the client and what lies between:

- `RoomsFollowThePage`: a connected page whose commands are served is in the room of its channel, unless it was
  refused or its connection broke after it had asked: the effect joins when the channel or the socket object changes,
  and the object survives a reconnection. A socket in a foreign room owes it to a leave served during the check of a join.
- `LatestIsShown`: at rest, a page that heard of a message in its room shows the row as it is, unless a write was not published
  (REST, a failure), the gateway missed an envelope, or two publications changed places.
- `TimelineIsTrue`: a post that was answered stays on the screen as long as the channel has no more messages than a page,
  unless the first page of the channel was on its way, read without it, when the answer came; rows and threads of another
  channel come only from changes and answers that a switch overtook, never from new messages; a current page is shown.
- `DraftsAreKept`: a text is never seen or stored in another channel; a composer at rest shows the stored row; and
  a draft differs from what the user left only after one of the named accidents, which the comment of `LossesAreKnown` lists.
- `WalksAreComplete`: a walk sees every row that stayed, once and in order, less one row for each cursor row
  that had left the filter (Prisma skips another row in its place). Where the order is one of dates alone the walk ends at such
  a cursor row, and what lies after it is missed; up to what was seen no more is missed than before. A cursor row that
  is gone or moved ends or restarts the walk.
- `AccountIsTrue`: a good session is the stored one unless it was left or a late answer or a refused login of another tab
  took it; the stored user and token are of one account unless a profile was being saved; a tab that
  shows another account's data has seen two accounts. And: an address is verified exactly if a link that was
  received was used, and a resend leaves no other valid link than one already on its way.
- `MarksAndFilesAreTrue`: at rest the page shows the marks that are stored unless it was not told of a change, or was told
  while its first fetch, read before, was on its way; a message has one bookmark of a user; a file's channel is its message's, a
  removed file stays removed, a send takes its sender's files only, and they leave its message only for a later one of the
  same user that names them.

The exceptions are part of the statements and are recorded by history variables that only the named steps set: each
is a real behaviour of the code, and the property says that there is no other.

## Fairness

Only `schedule` and `posting`, which check liveness, assume any. Scheduler: `setInterval` keeps firing in a
live process and a handler goes on as long as the database answers, so `Poll`, `Loop`
and `Work` of each replica are weakly fair, and so is the clock; `StepFails`, `Crash`,
cancellations and archiving owe nothing. Posting: `Serve`, the round trips of
a request that was submitted, is weakly fair; failures and archiving are not. No strong
fairness is used: each lost race of a claim or an insertion makes the loser
move on, so nothing depends on who wins. The client modules have no liveness property: a page may lose its connection
for good after eight attempts, its queries do not retry, and nothing in the code polls.

## What is proved

TLAPS checks the theorems of eight modules for all values of the constants: every invariant and every action property that
a passing run checks, and both refinements. They are proved from the assumptions named in the modules
(`ConstantsAssumption`, `PostingAssumption`, `AuthAssumption`, `InviteAssumption`, `MessagesAssumption`,
`ChannelsAssumption`, `RealtimeAssumption`, `DraftsAssumption`, `TimelineAssumption` and those that `RecordsConstants` joins:
types of the constants, and that "no row" or "no token" is none). One theorem needs more, the types of `Realtime`: its
bounds count the calls, so `FiniteCalls` says that they are finitely many. Each follows from an inductive invariant: `IInv` or
`Inv` of its module, and in the modules of several parts one of each part.

- `ScheduledMessagesProofs`. That a row posts at most once is not inductive:
  `ClaimIsExclusive` says that a claimed row has one holder and has left PENDING,
  `PostedByProgress` ties `posted` to where the holder is, and `OnlyDueRows` that only rows
  that exist and are due are in a batch. From these follow at most one message,
  truthful rows, finality, silence after archiving, and that every step is
  a step or a stutter of `ScheduleContract`.
- `PostingProofs`. A hole could come from a number that was read and never inserted, or
  inserted late. `Dense` says each channel is a sequence, `Reachable` that a number read earlier is at
  most one beyond its end; so an insertion that the unique index lets through is an append. `Grown`
  carries the price of each lost attempt, `NotYetPosted` that a request posts once.
  From these follow `GapFree`, the contention bound, that a rejected request left nothing, the
  refinement of `ChannelLog` and that archived channels are sealed.
- `AuthTokensProofs`. `SpentBeforeIssue` (a refresh that issues has revoked its token) and
  `OnlyIssuedHaveParents` carry rotation; `NoRowYet`, `SweptExisted` and `UsedExisted` carry the
  life of reset tokens: a token that was swept is used or deleted, and neither is
  undone. That one which had replaced nothing when it was swept never will needs `UsedMeansApplied`: it is
  deleted, and the transaction of a reset that has it in hand is rolled back.
- `WorkspaceInvitesProofs`. `CallsOK` says what a call that passed its reads knows for good (its link
  exists and admits its user, who has an account), and `Unmade` that links that do not
  exist have no uses. The count is proved with the cardinality theorems: a reservation adds one user
  who was not there.

- `MessagesProofs`. `RootsAreKnown` says that a call of `createThread` is on its way to the root of
  the message it was given, or was answered with the thread of that root, and
  `OneThreadPerRoot` that a root has one thread; agreement follows. That replies come after their root needs
  `LatestIsLast`. `SealedStep` shows for each action that it leaves a deleted message alone once no edit is about it.
- `ChannelsProofs`. `CallsKnow` says what a call has learned: after a conflict, that the name is
  taken; with an answer, that it is the direct channel of the pair. With `NamesAreUnique` and
  `DirectsArePairs`, two direct channels of one pair are the same, and a conflict with a
  direct channel is resolved by the second look.

- `RecordsProofs`, drafts. `AllAtHome` says that no text is anywhere on its way to a channel it was not typed in:
  in a row, a save, an answer or the composer. What a composer at rest shows need not be stored yet, so
  `SeenIsSent` and `Kept` speak of the save that will be the last to change the row (`Pending`, `LastSave`): if no
  later one was overtaken by it, it carries what is shown, and what the user left.
- `LiveProofs`, rooms. A room is decided by commands that are still on their way. `WillJoin` and `WillLeave` say what
  the last command about a channel does; `Wanted` (the join of the open channel is to be served, being checked, granted
  or refused, and no leave comes after it) and `Unwanted` (another channel is left, or a leave will be
  served, or one overtook a check) are kept by every step of a page that stays connected. The lemmas `CommandAdded`,
  `CommandServed` and `SwitchAdded` say how they change when commands are sent and served.
- `LiveProofs`, events. `Told`: the last change of a row is published, or a call is about to, or it was never
  said. `Follows`: the last envelope about a message that reached a page in its room is still in the inbox with none about
  that message after it, or was the last one handled and is shown. `SameReach` is what a gateway that subscribes
  anew keeps: the envelopes it emitted are the ones it had emitted. At rest the two meet in `LatestIsShown`.

- `LiveProofs`, types. That a row changes and the log grows at most as often as there are calls is a count: `Counted` bounds
  the changes of each row by the calls that have begun, and the log by those that have ended (`CallStarts`, `CallEndsWell`).
- `LiveProofs`, timeline (`TimelineInv`). What a query answers depends on how many rows its page has room for.
  `RowsInOrder` says that the messages of a channel are posted one after the other, which makes the page a lower set;
  `PagesAreRead` and `NothingIsAhead`, that no page, list or event is newer than its row; `CallsKnow`, that a call that was stored
  knows its message. `PostsAreHeld` is the point: a post that was answered is not only in the list, but also in any answer that is still on its
  way, because the answer to the post cancelled the fetches that did not know of it; for the first fetch, which it does not
  cancel, the answer must know of the post already. `ListFollows` says that outside `late` the list is at least
  as new as the cached page; with `NothingIsAhead` a page that equals the rows is shown as they are.
- `RecordsProofs`, walks (`PagesInv`). Of the rows `Behind` the cursor as many are missing as pages have dropped one in
  place of a cursor row that no longer matched, and every row that was seen and not moved lies before the cursor or is it;
  so a walk that is cut at a cursor row has missed up to there what any other walk misses (`Missed`, `Passed`). The step of a page needs that a
  finite set of rows has a first one and that the rows up to a place are counted by it; the prover has no induction
  here, so both come from a minimal element of a well-founded order (`LeastRow` and what follows it).
- `RecordsProofs`, session (`SessionInv`). `TokensAreIssued` and `SavesAreOwn` carry the two exceptions of the code: a profile saved
  under a session that was replaced meanwhile, and an answer that removes a session that is not its own. `AccountsHaveLived` says that whatever account a
  tab may still come to show is among those it has seen.
- `RecordsProofs`, links (`LinksInv`). `ResendSupersedes` speaks of valid links; `OnePending` also of those about to be made
  (`MayBeValid`), since a sweep does not see a link whose row is not there yet. `LinksInOrder` ties a link to its call.
- `RecordsProofs`, files (`FilesInv`). `CallsKnow` is what a call read and nobody can take back: the uploader of a file,
  the channel of a message. Channel, message and the removed flag are written after other reads, so `FilesFollow` and `SentFilesStay` are
  stated for the rows as they are.
- `RecordsProofs`, marks (`MarksInv`). `InStep`: once the page has no served call left that it has not heard of, its query holds the
  rows, or an answer with the rows is on its way, or it is being asked, unless it is in `unheard`; `Once`, that a message has one bookmark, is kept by the
  two cases of the upsert.

Only model-checked: the liveness properties `DueRowsAreSettled` and `EveryRequestAnswered` (liveness under fairness
is beyond the prover). The three statements that runs find violated are of course not theorems.

## Findings

- `reset_token_reuse`: `resetPassword` reads `usedAt` outside the transaction and the transaction
  updates the token by id, so two calls that overlap both replace the password with one
  token. `docs/database-schema-and-tech-stack.md:25` calls the tokens one-time.
- `invite_retry`: `acceptInviteLink` refuses a full, revoked or expired link before it looks up whether
  the caller has accepted it, so the user whose acceptance filled the link is refused when the
  call is repeated. Line 29 of the same document calls the acceptance an
  "idempotency record".

- `edit_after_delete`: `editMessage` refuses deleted messages ("Cannot edit deleted message",
  `messaging.service.ts:147`) but writes by id in a later round trip, so an edit that overlaps a
  deletion puts its text over `[deleted]`. `SealedIsFinal` states what does hold: an edit that starts
  after the deletion never gets through.

## What is not modelled

Texts, mail bodies, audit rows and formatting are left out: no property is about them. A message's content is its request,
and drafts are compared as the user typed them (the composer trims what it sends). Milliseconds
are ticks. Signing a refresh token and storing it are one step (`IssueTokens`). A workspace is created with its owner in
the initial state; there is no operation that removes a member or deletes a link. `Paging` takes a list as one
query and leaves out who may read it. Not modelled at all:

- `deleteDraft`, which no client calls, and reactions beyond their event: `reactToMessage` upserts one row and the
  page shows none of them.
- Notifications beyond their list: `emit` creates a row as PENDING and sets it to SENT in a second round trip (a failure
  between the two leaves PENDING and is reported as an error), but nothing reads that column.
- The untyped search, which returns the merged first pages of all four and a cursor it does not look at in the next call.
- The choice of a workspace: `workspace-provider.tsx:45` clears it on every load before the workspaces are
  fetched, and the first one is chosen again.
- Bot administration, integrations, profile updates, health and metrics endpoints, deployment files: single-row
  writes and reads without a protocol; the pages of the client that only render answers.

## Plan

Done: everything in the table of modules. What is left, in order of its worth:

1. A composition of `ScheduledMessages` and `Posting` in which a delivery allocates its
   number against live writers, implementing both `ScheduleContract` and `ChannelLog`.
2. A refinement of the timeline, restricted to the rows no accident touched, to the log of `ChannelLog`.
3. An abstract specification of a room (what a socket is told while it is in it) that `Realtime` implements between two faults.
