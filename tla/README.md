# Verification of ribbitto

ribbitto is a self-hosted team chat: one Go process (`cmd/ribbitto`), PostgreSQL, and htmx pages
that follow one server-sent event stream per page. This directory holds TLA+ models of its core,
TLC configurations that check them, and TLAPS proofs. Module and action names follow the code's.

## The system

| Component | State it keeps | Operations | Talks to | What makes it correct |
|---|---|---|---|---|
| Event log (`internal/org/internal/postgres`, `internal/realtime/internal/postgres`, migration 00007) | `organization.event_seq`, `event_log_boundary_seq`, `event_log` rows | take a sequence, append an envelope, expire old rows, read after a cursor | every writing transaction; streams | rows are exactly the sequences above the boundary; nothing appears behind a cursor; a reader never jumps an event |
| Hub (`internal/realtime/hub*.go`) | one level and one channel per organisation and interest; registered connections | `Raise`, `waitFor`, `Register`, `Cancel*` | writers raise after commit, streams wait | no lost wake-up; no double close; caps; no stream outlives its session |
| Watermark (`watermark.go`) | none | compares committed sequences with the hub | log, hub | repairs raises that never came |
| Stream (`stream.go`, `web/stream.go`, `web/stream_sender.go`) | cursor, covered level, last id written | read, deliver, check membership, wait, heartbeat | cache, hub, authorizer, browser | the browser misses nothing, sees nothing twice, and gets at most one frame after it lost access |
| Batch cache (`cache.go`, `cached_events.go`) | shared loads and full batches | `Get` | streams; log | a batch is never older than the call that gets it |
| Stream authorization (`org/stream_authorizer.go`, migration 00010) | memberships cached by access epoch | `MayReceive` | streams | a revocation committed before a check starts denies it |
| Sessions (`identity/session.go`) | session rows | replace, delete, resolve | hub | streams end with their session |
| Read state (`internal/unread`) | `channel_read`, `read_range`, `topic_read_floor` | read a feed or topic, whole or up to what was shown; own posts | conversation's transactions, counts | what was shown is read, what was not stays counted, gaps stay useful |
| Recounts (`unread/changes.go`, `unread/reading.go`, `realtime/sidebar.go`, `recount_limit.go`, `web/src/unread-counts.ts`) | change generations per member, watches, slots; each tab's remembered events | publish, recount, add up, resync | streams, tabs | a change is never taken for seen by a recount that read before it; a tab that missed something asks |
| Presence (`internal/presence`) | open streams per member, journal of changes, timers | `Open`, `Read`, `After` | hub, streams | only the current timer takes a member offline; a token never skips a change |
| Typing (`internal/typing`) | typing members per topic, composer generations, timers | `Signal`, `Posted`, `Open` | hub, streams | no typing state after a post; every state expires |
| Conversation (`internal/conversation`) | channels, topics, messages, pins, resolutions, send keys | post, branch, pin, resolve, page | log, read state, hub | one message per send key; sequences in commit order |
| Organisation and identity | organisations, members, accounts | setup, sign up, sign in | database | database constraints |
| Web, views, middleware | rate limit buckets | HTTP | everything | both limits or neither |
| Browser scripts (`web/src`) | cursors, drafts, composer queue, counters | apply frames, send, retry, restore, report reads | stream, handlers | no message lost, posted or shown twice; no lost draft |
| Lifecycle (`cmd/ribbitto`) | none | start, graceful stop | hub, pools | streams end before the server waits for them |

What is hard here: sequences are taken inside transactions and become visible at commit; the
raise that follows a commit may be late, reordered or lost with the process; a stream shares its
reads with others and its authorization with others; a browser reconnects with whatever id it
received last; reading transactions run at READ COMMITTED, for a page that may have been overtaken by moves; timers race refreshes.
`PROJECT.json` lists these hazards at their lines, with the properties that watch them.

## Modules

| Module | Models | State and actions |
|---|---|---|
| `CommittedLog` | what the log promises a reader, abstractly | a window `boundary+1 .. eventSeq`; `Commit`, `Expire`, `Load`, `Deliver` |
| `EventLog` | the same in PostgreSQL | a writer's transaction (`Begin`, `NextEventSeq`, `AppendEvent`, `Commit`, `Rollback`) holding the organisation row's lock; a retention run (`ExpireEvents`, `LockForRetention`, `ExpireBatch`, `EndRun`); replay reads (`EventSeq`, `EventsAfter`) |
| `Hub` | `orgSequence.raise` and `Hub.waitFor` | a raiser's load, compare-and-swap and close are separate steps; a waiter's loads, comparison and select too |
| `Stream` | `Stream.Run` with its sender, the hub level, the watermark, membership and the browser | one action per stage of the loop; `Connect`, `Receive`, `Fail`, `Restart` around it; after a reset the page's `StakeChanges`, `Decide`, `TimerFires`, `FollowLink` |
| `CachedEvents` | `Cache` with `CachedEvents`' loader, for one key | callers `Hit`, `Start`, `Join`, `Return`, `GiveUp`, `Leave`; a load's `Acquire`, `ReadEvents`, `LoadReturns`, `Decide`, `Close`, `Publish` |
| `StreamAuthorization` | `streamMembership` with its two queries and its cache, the triggers of migration 00010 | every change of the rows (`Create`, `Rename`, `Delete`, `Join`, `Leave`, `ChangeRole`, `Move`); a check's `Begin`, `ReadEpoch`, `Hit`, `SecondLook`, `ReadMember`, `Store`, `Return` |
| `Presence` | `presence.State`, `presenceOwner.Read`, `Stream.ephemeral` for presence, a page listing members | the state's `Open`, `Close`; its timers' `Fire`, `Superseded`, `GoOffline`, `Discard`; the page's `Load`, `Connect`, `Read`, `Send`, `Receive`, `ReceiveReset`, `Break`; `Restart` |
| `Typing` | `typing.State`, its expiry timers and closures, its summaries, a page's reads of a topic or the feed | `Handle` and `Signal` of a request; `Posted`, `PostedWithout`; streams' `Open`, `Close`; a timer's `Fire` and its callback `Expire`; a closure's `RetentionEnds` and its callback `Reopen`; the page's `Connect`, `Update`; `Tick` |
| `ComposerQueue` | `composer-queue.ts` | operators only: which item may be sent, what an answer does to it, what becomes of its key |
| `Posting` | the composer with its queue and its draft on the device, requests, `Posting.Send` and `repeat`, the page's stream and list | the member's `Type`, `Admit`, `Retry`, `Edit`, `TakeBack`, `HoldExpires`, `Reload`; answers `AnswerOk`, `AnswerConflict`, `AnswerError`, `LoseAnswer`; a request's `LookFirst`, `Insert`, `KeyTaken`, `Repeat`, `Refuse`, `Break`; another member's `Branch`; the stream's `Deliver` |
| `UnreadCounts` | `unread-counts.ts` | operators only: what a tab remembers, what a recount covers, when it asks for another |
| `LiveCounts` | a reading's end, `unread.Changes`, the live sidebar of each stream, each tab's counter and its resync | `Post`, `Read`, `Land`, `Publish`; a stream's `Connect`, `Deliver`, `Recount`, `Defer`, `CountUnread`, `SendSidebar`, `Drop`; the tab's `ReceiveUnread`, `LoseUnread`, `ReceiveSidebar`, `LoseSidebar`, `Resume`, `Dispatch`, `RequestResync`, `Succeed`, `Fail`; `Restart` |
| `ReadRanges` | the range arithmetic of `Writer.mergeCovered` and `TopicWrite.Add` | operators only |
| `Registry` | `Hub.Register` and `Cancel*`, `openStream`, `identity.Sessions` | a stream's `Resolve`, `Register`, `LookAgain`, `OpenStream`, `Unregister`; an ending request's `Begin`, `ResolvePrevious`, `Mutate`, `CancelSession`; expiry; `CancelAll` |
| `ReadState` | one member's read state in one channel | a reading's statements one by one, own posts and branches, other members' writes |

How they fit: `EventLog` implements `CommittedLog` (property `ImplementsCommittedLog`, theorem
`LogImplementsWindow`). `Stream` reads the window `CommittedLog` describes, through the cache
whose promise is `CachedEvents`' `FreshForItsCall`; it waits on the level whose wake-ups `Hub`
promises. So `Stream`'s action `Read` may use the log as it is at the call, and its `Wake` needs
no channel. Its membership check allows whoever is a member when it looks and skips the event
otherwise; `StreamAuthorization` shows what the real check gives for that: an allow rests on a
membership that existed during the check (`AllowedWasMember`), a denial on a moment of the check
without one (`DeniedWasNot`). `Presence` and `Typing` raise their generations in the hub, and their
pages read as soon as the generation is above what the stream has seen, which is again `Hub`'s
promise; their frames carry no event id and do not move the cursor.

`Posting` writes its log in one step per transaction, which `EventLog` justifies (a transaction
holds the organisation's row from its sequence to its commit), and its page receives every event once
and in order, which is `Stream`'s `NothingMissed` and `OnceInOrder`. `LiveCounts` takes both for
granted as well, and `Hub`'s promise for the generation of unread changes; what a reading marks is
`ReadState`'s matter, and here a set of messages.

### How the models abstract

* Events, messages and topics are sequences and model values; a batch in `CachedEvents` is its
  length (the batch of a key is determined by how many events lie above the cursor).
* Rows written by a transaction stay in its own record until commit; other sessions see committed
  state only. Each statement of a READ COMMITTED transaction sees what is committed when it runs.
* Row locks are variables holding their owner. Lock waits are guards.
* A transaction whose outcome the caller does not learn has both outcomes (`Registry`'s `Mutate`).
* A transaction's failure at any point is one action, since nothing it wrote is visible.
* Time is a flag (`due`), a bounded clock, or in `Typing` what is left of a timer and the age of a
  signal, since a late signal is refused by comparing two durations of the code.
* A timer that fired and waits for the lock is a state of its own: stopping it does nothing.
* A text is a model value; of a draft only the text and its key are kept.
* What holds a page's reload in `Stream` is one flag, which counts once the page was reset; `Posting` has the
  sends themselves.
* The cap of 100 on counts and ranges shown, wording, rendering and logging are left out.
* `asked` in `ReadState`, `since` in `CachedEvents`, `asked`, `conflicts` and `typed` in `Posting` and `late`
  in `LiveCounts` are history, read by properties and by the bounds on what a member asks for.
* `LiveCounts` spaces recounts nondeterministically (`Defer`), and counts one channel that no tab shows.
  A reading whose COMMIT was given up on and lands after the change was published is told to no
  stream: the properties except the tabs in `late`, until a recount tells them.

## Runs

| Run | Question | Instance | Distinct states |
|---|---|---|---|
| `event_log` | Is the log a gapless window for every reader, and an implementation of `CommittedLog`? | two current writers, one of an older build, two retention workers, one reader, sequences to 4, two clock ticks | 961 k |
| `hub` | Are wake-ups lost or channels closed twice, and is every raise seen? | two raisers, one stream, two levels, values to 2 | 156 k |
| `stream` | What does the browser miss, repeat, or get too late; does every event arrive though raises are lost and a reload may be held, and does a revoked stream end? | two events, a skipped one before a message or a message before one for another member; a batch of 2, pipe of 1, one failure or restart | 222 k |
| `cached_events` | Is a shared batch fresh, do abandoned loads hurt others, does every `Get` return? | two callers, two loads, one slot, one event that fills a batch | 441 k |
| `read_state` | Do ranges, floors and counts agree with what was read? | one reading and one writing request, two topics, four sequences | 361 k |
| `registry` | Does a stream outlive its session, its limit or the shutdown? | two streams, two ending requests, two sessions of one account that may have one stream | 250 k |
| `stream_authorization` | Does a cached membership outlive its row, or deny a member? | two streams of one account, two member rows, two organisations, two slugs, room for one allow, four epochs | 2.4 M |
| `presence` | Does a stopped timer still act, does everybody leave in the end, does the page show who is online? | two members, two streams, three timers, one page, changes of one entry, generations to 4, one restart | 484 k |
| `typing` | Does a post end typing for good, does a refresh hold, does a page show who types? | two members, two topics, three composers, two timers, two closures, one signal under way, one name per page, generations to 3 | 1.2 M |
| `posting` | Is what the composer says of a send true, in order, free of ghosts, and posted once? | one page, two texts, one of them with a handle, three keys, two items, two requests, one branch or reload, each text asked for once | 1.2 M |
| `posting_reload` | Can a reload after a conflict post twice? (violated, see Findings) | as `posting`, one item and one request | found |
| `live_counts` | Is an unread count exact when nothing is on its way, and exact again in the end? | one tab, one slot, one remembered event, two messages, one reading, one fault, a pipe of 1 | 482 k |

Why the bounds are enough to be interesting. `event_log`: a branch takes up to three of the
four sequences, so that a multi-event commit, a rollback after taking one, a legacy gap, and
two competing cleaners all occur. `hub`: two raisers suffice for every race of one swap, and a third
level or value adds no new order of load, swap and close. `stream`: a skip precedes a
message or a denied event follows it, both can be one full batch or two, the pipe holds a frame
while the next write waits, and retention can pass the cursor before a reconnect.
`cached_events`: a load can be abandoned by the one who started it, by one who joined, or by both, and
the second load is the one a caller gets that may not join the first. `read_state`: four sequences
leave room for two ranges with a gap, a move across it and a post during it. `registry`: two endings
can end the same session, one of them unseen by the other, while a stream is anywhere between its
two looks. `stream_authorization`: a second row lets the account leave and join again, a second
organisation lets a slug pass on, and the fourth epoch lets a membership end after two
organisations exist and one of them was renamed. `presence`: a member's two streams can close,
reopen and close again while an earlier timer waits for the lock, and with changes of one entry a
page can be reset by too many changes, by a discard and by a restart. `typing`: one member types in
both topics and the other in one, a fired timer waits while a refresh arms the second, and a composer
is closed again while the first closure's callback waits. `posting`: the second item waits for the
first, a request runs on while its retry is under way, and the third key is the one a conflict asks
for. `live_counts`: with one remembered event the second overflows, a recount can be counted
before and sent after a reading, and one fault loses a frame, a request, the connection or the
process.

The bounds stand in guards of the actions that would exceed them and nowhere else: `MaxSeq`,
`MaxTime`, `MaxFailures`, `MaxEvents`, `MaxEpoch`, `MaxGeneration`, `MaxProcess`, `MaxStreams`,
`MaxDisturbances`, `MaxAsked`, `MaxRequests`, `MaxReads`, `MaxFaults`, `MaxPipe`, and the finite sets
`Calls`, `Timers`, `Closures` and `Keys`. `Limit`, `MaxLoads`, `MaxItems` (ten in the code) and `Slots`
are limits of the code, made small. Deadlock is checked except in `stream`, `cached_events`, `stream_authorization` and
`live_counts`: a bounded log with a revoked member, a cache that was shut down, rows whose epochs
are used up, and tabs that know everything of a bounded log do stop.

Every module has one `TypeOK` (`RegistryTypeOK` in `Registry`, `AuthorizationTypeOK` in
`StreamAuthorization`, `CacheTypeOK` in `CachedEvents`). It is checked as an invariant in
`registry`, where it includes the limits on streams, and it is a theorem in every module.

Every property has a mutant in `PROJECT.json`: an operator beside the original that a plausible
mistake would produce, under which TLC finds the property violated.

### Fairness

`Hub` and `CachedEvents` assume that a goroutine with a step to take takes it (weak fairness per
process), never that a loader returns, a caller gives up or anyone raises. `Stream` assumes the
same of the loop, the network, the browser's reconnects and the watermark's ticker; `Raise` has
none, so the liveness results hold with every raise lost. `Wake` and `Beat` are strongly fair:
other wake-ups may end the wait again and again, but each wait starts by comparing the level and
with a heartbeat deadline counted from the last write, so neither can be put off forever.
A reset only closes the page's source; whether its reload is held is decided, and the timer fires, with
weak fairness. Nothing says that a request, a failed send or a pending item that holds the reload ever
ends (`StakeChanges`), or that the member follows the link (`FollowLink`): `EveryEventReaches` promises
the events only if from some time on nothing is at stake on a page that was reset.
`LiveCounts` assumes weak fairness of a reading's publication and, for each tab, of its reconnects,
its stream's next step, the arrival of its frames, its timer and its request. Faults, further posts
and readings, and a COMMIT that lands late have none; `Defer` may come before a recount any
number of times but cannot keep `Run` disabled. `EventLog`, `ReadState`, `Registry`,
`StreamAuthorization`, `Presence`, `Typing` and `Posting` state safety only.

## Proofs

TLAPS proves the following for all values of the constants, from the modules' named assumptions
only (`EventLogAssumption`, `HubAssumption`, `StreamAuthorizationAssumption`,
`PresenceAssumption`, `TypingAssumption`, `RegistryAssumption`, `StreamAssumption`,
`CacheAssumption`, `ReadStateAssumption`, `LiveCountsAssumption`, `PostingAssumption`). They ask that
timers, streams and callers are finite sets where something counts them, that the keys of sends are the
numbers from 1 to their count (a new key is the next one, as unlike every other as a random one), and
relate constants as the code does.

`EventLog_proofs` covers the log and the cache it is read through, the modules `EventLog` and
`CachedEvents` (which is why the latter's specification is called `CacheSpec`). Of the log:
`TypeCorrect`, `LogIsContiguous`, `ReadersMissNothing`, `CommitsAreOrdered`,
`RetentionKeepsLiveEvents`, `LogImplementsWindow`. Contiguity is not inductive alone: a commit
preserves it only if the sequence the transaction took is still the next one. The strengthening is
`LockDiscipline` (who has taken a sequence holds the row, and `event_seq` is what it read) with
`CursorBounds` (a cursor lies between its page and the newest commit). `LowestOfWindow` is the
one fact about data: the *n* lowest sequences of a gapless window are its first *n*.

Of the cache: `BatchesAreFresh`, `WaitersKeepTheirLoad`, `ShutdownIsFinal`. `CallsCounted` says that
`waiters` and `joiners` are the numbers of callers in a call, until both its results are out.
`Shape` says which results a call has in which phase and that it is cancelled only when those it still
runs for are gone; `JoinableLives` that the load a `Get` may join has not been decided on, is
waited for and is not cancelled. `Serves` and `ServesJoined` say that what a call holds, or has read and not
yet returned, is fresh enough for the one who started it and for those who joined: they differ,
because a joiner of a load that was already reading waits for the second one.
`CacheTypeCorrect` adds the limit on loads: a slot is taken before a loader starts and given back
when the loader returns, not when nobody waits for it any more (`SlotsHold`).

`Hub_proofs` covers both halves of `realtime.Hub`, the modules `Hub` and `Registry` (which is why
`Registry`'s specification is called `RegistrySpec`). Of the levels: `TypeCorrect`,
`WakeupsAreNotLost`, `ChannelsCloseOnce`, `LevelsOnlyRise`. The
invariant adds `ChannelsOwned` (a replaced channel is closed or owned by the raiser that replaced
it) and `CapturedTogether` (what a waiter captured was published together, and it was not above
what the waiter had seen). A waiter that has seen less than the level therefore holds a replaced channel.

Of the registry: `RegistryTypeCorrect` (with the limits on registered streams), `StreamsEndWithSessions`,
`ShutdownIsComplete`. What makes the second inductive is `Fenced`: a stream that has looked again at its
session after it registered is covered, that is, its session is still stored, or it has expired, or an ending
request that deleted it has yet to cancel the connections of that session and finds this one among them.
An ending request that did not find its session at its first look has nothing but an expired
or deleted row left to delete, so it owes no stream a cancellation. The limits rest on a counting lemma
about adding one stream to those of an account.

`Stream_proofs` covers the stream and the check of membership it makes, the modules `Stream` and
`StreamAuthorization` (which is why the latter's specification is called `AuthorizationSpec`). Of the
stream: `TypeCorrect`, `NothingIsMissed`, `EachOnceInOrder`, `RevokedGetsOne`, `ResetsAreDue`, for every
history of the log, batch and pipe size and any number of failures. `Order` says that what is on its way
was sent by the stream that runs now, in rising order between the browser's last id and
the sender's, and that a reset is the last thing a stream sends. `Given` extends `NothingMissed` from the
browser's id to every id on its way and to the loop's cursor: each comes after every message
below it that the page does not have. `FrameDue` ties the frame that is checked or written to the
cursor, so that a written id is the next message or a cursor no earlier frame named. `Lateness` says that
after the one late frame no further frame has passed its check. `Quiet` says that a page that was reset has no
stream and no frame on its way, so that its reload, however late, leaves nothing of the old one behind.

Of the membership check: `AuthorizationTypeCorrect`, `NoStaleAllow`, `NoWrongDeny`. The argument is that an
epoch fences what was read before it. `KnownBelievable` says of every membership anyone holds, in
the cache or in a check, that if its epoch is still its organisation's, its row still stands; that
needs `RowsOK` (epochs come from one sequence and every change that ends access takes a new one).
A check that read an epoch after it began therefore accepts only memberships that stood at some time
after it began (`Witnessed`, `EpochFences`), and what it reads itself stood when it read it
(`ReadCovers`).

`Presence_proofs`: `TypeCorrect`, `OnlineIsKept`, `DepartureStaysDue`, `PageStaysCurrent`. The strengthening is that a
member's count is the number of its accepted streams (`Counted`), that a member with streams names no
timer and one that is not kept has neither (`Settled`), and that a named timer was armed for the
member that names it (`NamedTimer`): so the callback of any other timer finds that it is not the one
that is named. For the page, `Journal` says that the journal of changes is in the order of generations and
holds everybody who is kept, once, so that what lies after a generation is one end of it. A page is
`Fine` up to a generation if it shows the truth of every member but those with a later change. It is
fine up to its token at any time, whatever frames a lost connection takes with it (`TokenHolds`), up
to what its stream has seen once the frame on the wire has arrived (`WaitHolds`), and up
to the frame being sent once that has arrived too (`SendHolds`).

`Typing_proofs`: `TypeCorrect`, `LateSignalsShowNothing`, `RefreshesHold`, `PageStaysCurrent`. `TimersInv` says that
a timer that has fired has no time left, so that one with time left is not the one whose callback
runs. `ClosuresInv` says that a signal
older than the latest post of its composer is too old or finds the composer closed, and that what is
left of the closure and the signal's age make up the whole retention (`LateIsClosed`): a closure
cannot end while such a signal is young enough, because `SignalDeadline < ClosedRetention`, the
relation of the two durations in `typing/composer.go`.
For the page, `TimersCounted` ties each summary's counts to the timers that run (a topic counts one per
member, the feed as many as the member has topics), `SummariesListed` says that the list of a
summary holds exactly its active members, each once, and `ReadIsTrue` that the names read off such a list
are those the property asks for: the candidates are one more than the names, so a viewer among them
takes no place. `SummaryMoves` is what every action may do to a summary that some page
has acknowledged: nothing that reads differently without a new generation.

`ReadState_proofs`: `ReadStateInvariant`, and from it `GapsStayUnread`, `CountsStayExact`,
`OnlyWhatWasAsked`, `TellsExactly`, `TypeCorrect`. The first part is arithmetic of ranges, with no state: what a merge of
ranges that touch covers (`MergedIs`), what coalescing and adding to a stored set cover and that
the result is again a set of ranges apart from each other (`CoalescedIs`, `AddedIs`).
`StoredSound` and `FloorsTrue` then say what the committed rows are: ranges below the next sequence
that start right after a message and cover what the member was given on joining, and floors that hide
no unread message. `Knows` says for each step of a transaction what it relies on: that its working
set covers what was read and what it was asked to mark, and nothing else of the messages; that what its
candidate query found is what is to be added; that `changed` is the truth. A request holds the
channel's row from the end of its merge on, and a post holds the organisation's. `KnowsStays` is the heart:
another request's step leaves all of this true, since it changes only messages after those a reader
knows of, or only rows that this transaction does not hold. Messages that are moved between a topic's
candidate query and its commit get a movement sequence above the page's cursor, and so above any
floor that the transaction can set.

`LiveCounts_proofs`: `LiveCountsInvariant`, and from it `TabsAddUp`, `QuietIsExact`, `TypeCorrect`, for any tabs,
slots, remembered events, messages, readings, faults and pipe size. `Ordered` says of a tab's pipe that its
unread frames rise to the stream's position without a gap, that a recount is no older than anything before
it, and that every event newer than the recount comes after it. A
tab is `Trusted` unless it is recovering with no answer that covers its last loss; a trusted tab has every
event above its snapshot that was sent and is no longer on its way (`Complete`), each of them once
(`Keeps`), and what it shows is the count at its snapshot with the applicable events it has added (`Shows`).
Because everything it lost or had no room for makes it untrusted, and a request counts only
what was lost before it was sent, trust comes back with a recount that is newer than all of that. `Told` ties this to
reading in other tabs: a stream that owes no recount for the newest generation has sent one that counts
without what was read (`LastCorrect`), or it is still in the pipe. `ShowsExactly` adds up: what is unread to
the snapshot and what was applied above it are together what is unread up to the newest event.
`Counts` carries, for the types, that every recount and every shown count is some reading's, so no
tab ever shows more than there are messages (`ShownFits`), and `Confined` the rest: a tab has a request
under way exactly while it waits for one, and no more streams count than there are slots.

`Posting_proofs`: `OutcomesAreTrue`, `OrderIsKept`, `NoCopyTooMany`, `NoItemIsLeftBehind`, `TypeCorrect`,
for any keys, texts, items, requests and disturbances. The invariant has five parts, and each proof that
a step keeps one of them follows the actions. `QueueInv` is about the queue and what it has sent: a key
belongs to one item, one hold or the restored text (`Owned`), and is either still to be handed out or
was (`Numbered`). So what is stored under an item's key, and what a request under that key may still
store, is that item's doing; where the page says that nothing was stored, nothing is and no
such request is left (`Clean`, as part of `ItemOK`), and an answer that is coming tells what the log
holds (`Tells`). An item leaves only when those before it have settled (`Order`, `Sending`). The log
itself is `LogGood`: a message is posted once, and branched only later. `ComposerInv` says the same of the
text that is being written: the draft on the device names a key that was handed out.
`AskedInv` is why retries post once: the keys under which a text is stored or may yet come to be (by a
request, an item, a hold, the restored text or the draft on the device; `Claims`) are no more than the
times it was asked for. Every step but an admission anew takes claims away or leaves them, and that
admission adds one. A draft counts only until the first conflict, for then it may name a
key that is another message's, and what happens when the page is loaded after that is the finding below.
`ViewInv` is about the list: it is right about every message the stream has no more to say of
(`ListTrue`), an item waits only for a frame that is still to come (`Comes`), and an answer that
names this topic is true until a frame says otherwise (`Fresh`). `BoundsInv` has the counters.

Only model-checked: all liveness (`RaisesAreSeen`, `EveryEventReaches`, `RevokedStreamEnds`,
`EveryGetReturns`, `ExactAgain`; the prover has no rules for fairness here). Every invariant and every
action property that a passing run checks is a theorem.

## Findings

`posting_reload`: `docs/domain/message-posting.md:45` promises "Retries cannot post twice." When the
server answers a send with 409, because its key already belongs to another message, the queue
gives the item a new key (`composer-queue.ts:124`), but its draft on the device keeps the old one.
In TLC's trace a member edits a send of unknown outcome that was in fact stored and sends the new
text, which is refused with 409. Sent again under the new key it is stored, but the answer is lost and
the page loaded again. The draft comes back with the old key, gets 409 once more, then a third key,
and the retry stores the text a second time. Without the conflict, or without the reload after it,
no text is stored twice (`RetriesPostOnceHere`).

## Plan

Done: 1 `EventLog`/`CommittedLog`, 2 `Hub`, 3 `Stream`, 4 `CachedEvents`, 5 `ReadState`, 6 `Registry`, 7
`StreamAuthorization`, 8 `Presence`, 9 `Typing`, 10 `UnreadCounts` and `LiveCounts`, 11 `ComposerQueue`
and `Posting`, 12 the proofs of their safety. Next, in this order:

13. The channel's pins and resolutions with the streams' `refreshChannel`, and the browser's pin sync
    and read markers.
14. The rate limiter.

## Not modelled, and why

Rendering, templates, localisation and text handling are presentation. Setup, sign-up and sign-in
are single transactions under constraints. The rate limiter (`web/middleware/ratelimit.go`) is
sequential code under one lock, which takes a token of both limits or of neither and is tested as
such. Quotes, replies and mentions add fields to a message, not steps to sending it. Developer
tools, load tests, seeds, lint fixtures and generated code are not part of the running system.
PostgreSQL itself is assumed: row locks, READ COMMITTED statements, REPEATABLE READ snapshots and
atomic commits as its documentation says.
