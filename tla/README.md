# A verification of model2api

model2api offers OpenAI and Anthropic compatible endpoints in front of a pool of
ChatGPT accounts.  These TLA+ modules model the parts of the server whose
correctness depends on the order of events, on failures and on limits.  TLC
checks them on small instances; TLAPS proves the safety properties the passing
runs check, and that the pool's slots implement a semaphore, for every instance.
Paths are relative to the repository; line numbers are in `PROJECT.json`.

## The system

| Component | State | Operations | Hard behaviour | Module |
|---|---|---|---|---|
| Account pool, `services/account_service.rs` | accounts, slot counters, rotated-token aliases behind one mutex; a refresh lock | choose a token, take and give back image slots, refresh, delete, remove, record results | awaits between critical sections; a token changes its name while others hold it | AccountPool, PoolClients, SlotSemaphore |
| Image flow, `services/protocol/conversation.rs`, `openai_backend_api/` | per image: token, retry budgets, the decoder's view, ids found by polling | one attempt, retries, fan-out over n images | errors of many calls, deadlines, partial results, parallel images | ImageAttempt, ImageEnds, ImageRequest |
| Text flow, `conversation.rs`, `protocol/*.rs` | decoded text, what was sent, open blocks | decode, sanitize, cut into frames | sanitizing takes back what was sent; tool markup cut anywhere | TextReply |
| Image tasks, `services/image_task_service.rs` | task map and its file | submit, list, run, prune, recover | repeated submissions, failed saves, restarts, clock text | ImageTasks |
| Registration run, `services/register_service.rs` | config with `enabled`, the `running` guard, a run task | start, stop, update, run | start and stop racing a run; futures pushed but not begun | RegisterRun |
| One registration, `services/register/` | provider index, alias file, a shared inbox | open a mailbox, wait for a code, create an account | registrations side by side | Registration |
| Auth keys and storage, `auth_service.rs`, `storage/` | keys in memory and in a JSON file or a database | create, update, delete, authenticate | reload before change, failed and torn saves, failed loads | AuthKeys |
| Remote imports, `cpa_service.rs`, `sub2api_service.rs` | remotes, one import job each; cached bearers | edit, import, progress; log in, page | read and write back under two locks; overlapping imports and edits | RemoteImports, ServerBearers |
| Backups, `backup_service.rs` | `running`, a state file, the bucket | run, rotate, delete | single flight, broken connections | Backups |
| Image storage, `image_storage_service.rs`, `image_service.rs` | files, an index, WebDAV copies, thumbnails | save, delete, list, sync, clean | an index read before awaits and written after | Gallery |
| OAuth sessions, `oauth_login_service.rs` | sessions with a limit and a lifetime | start, finish | two finishes of one session | OAuthSessions |
| Settings, `config.rs` | settings in memory and in a file | update | insert before validation; saved without the lock | SettingsStore |
| Scheduler, `scheduler.rs` | none | account watcher, image cleanup, backups | runs beside every request | PoolClients, Gallery, Backups |

Requests, the watcher and the admin's routes call the pool directly; the image
task service spawns one task per submission, which runs the image flow, which
takes its tokens from the pool and saves its images in the image storage.  The
registration run adds the accounts it registers to the pool, as do imports and
logins.  Everything shares one settings object and one storage.

What makes each component correct: a *pool* never uses an account beyond its
limit, never loses a slot, and never confuses two accounts when tokens rotate;
a *request* ends unless upstream hands out new tokens for ever,
tells its client exactly once how, and neither drops nor
repeats an image because of its siblings; a *task* runs once, ends, and keeps
its outcome; a *registration run* is alone and begins little after it was told
to stop; *keys, settings, indexes, jobs and sessions* are not lost to overlapping
edits, nor do they come back after they were removed.  The hard parts are listed
one by one as `hazards` in `PROJECT.json`, each with the properties that are
about it.

## The modules

**AccountPool** holds the maps behind the pool's mutex.  One operator is one
critical section of the method it is named after.  Status and remaining quota
are all that is kept of an account; plan and source filters belong to a request
and appear as the choice `matches`.  `Resolve` is `resolve_locked`: the walk
along the aliases, written as the end of a closure so that proofs need no
recursion.  A slot counter the code keeps no key for is 0.  `issued` is a
history variable: the tokens imported by the admin or issued by upstream, which
never issues one twice.

**PoolClients** adds the processes and the awaits.  A process has a program
counter at each await of `generate_single_image`, `get_available_access_token`,
`refresh_access_token`, `fetch_remote_info` and `stream_text_deltas`; a step
between two awaits is one action, with the critical section it runs.
`RefreshNotNeeded` and `RequestAccessTokenRefresh` wait for the refresh lock,
which `RefreshSucceeds` and `RefreshFails` give back.  `mark_image_result` is two
actions because it is two critical sections.  The admin adds, deletes and edits
at any time; `Restart` keeps the accounts, which every change saves, and
forgets the rest.  Whether an account may be removed when it is rate limited is
a setting that can change at any time, so it is a choice.

**SlotSemaphore** is what the slots promise: a counting semaphore per account,
renamed by a rotation, vacated by a removal.  `PoolClients!Slots` maps each
request to the account whose slot it holds, through `Resolve`.

**ImageAttempt** is one attempt at one image with one account: the chain of calls
that prepares a picture conversation, the event stream with the decoder's view
`conv`, the decision after the stream, the polling loop with its deadline `left`,
its back-off and its settling look, the urls, the download, and the repeated
resolve for replies without an image.  An attempt with a codex model is one
call.  The upstream's document only grows.  **ImageEnds** is the interface: the
ways an attempt can end, as `generate_single_image` tells them apart.
`AttemptEndExpected` shows that ImageAttempt ends in no other way, and
**ImageRequest** starts from there: the content filter, n images side by side or
one after the other, each with its token, its attempts and its three retry
budgets, the emitting task with its channel, and the translators, buffered,
image stream or response stream, until the client has its end or leaves.

**TextReply** follows text from the patches of the upstream through
`sanitize_output_text`, the decoder's deltas, the account that is changed as long
as nothing was sent, and the translators.  Text is a sequence of symbols, one
per kind of text the code tells apart: a word, a blank, spaced punctuation, and
the beginning, name and end of tool markup, which patches may cut anywhere.

**Gallery** has the files, the index, the WebDAV copies and the thumbnails of a few
images.  `Reconciled` is the clean-up `list_items` does, `WithoutExpired` the one
every reload of the index does.  A save, a deletion and a synchronisation each have
the steps between which they wait for WebDAV, where the client may also leave; any
number of synchronisations and deletions overlap, as nothing in the code keeps
them apart.  `promised` and `dropped` are history.  `promised` says for which copy of
a picture the index and every synchronisation at work vouch: one that was recorded
on WebDAV while a synchronisation held an older index is not vouched for, since that
index will be saved over the record.  `dropped` are the pictures whose deletion was
confirmed, except those that a save or a synchronisation can still record again.

**ImageTasks** has the task map, the file, the spawned runs and a clock.
`SaveTasks` may fail, as the code ignores the error; `behind` remembers it.
`RestartUnread` is a start that cannot read or parse the file and takes it for an
empty one; the file stays until the next save overwrites it.
`updated_at` is the local wall-clock text, so the times in `Ambiguous` are those
whose text names two instants and is parsed as 0.  `Restart` is a crash at any
point followed by `ImageTaskService::new`; the file is renamed into place, so a
save is whole or absent.

**RegisterRun** has the config fields the run reads, the guard, and the run
task.  Each read of the config is a step of its own, because the code takes the
mutex for each; `target_reached` is a choice in the pool modes, where other
requests use the accounts, and exact in total mode.  `reset`, the statistics
and the log change nothing a run reads.  The run polls its registrations itself:
one that was pushed begins at `futs.next()` (`RegistrationBegins`).  `allowance` is
history: what the last stop found pushed, and one more, less what began since.

**Registration** is what one registration does, with what registrations share.
Each step of the platform is one outcome.  `Matches` is the comparison of a mail's
recipient with the alias a registration asked for.  An alias is looked up and
recorded in one action (`TakeAlias`): no await lies between the two, and the one
task of a run polls all its registrations.  `loose` is history: aliases that were
found unused although they were not, after a read that failed, or that the file
did not keep.

**AuthKeys** has the copy in memory and the stored list.  A failed load is an
empty list, as in the code; `blind` remembers it, `dropAsked` and `revoked` what
an administrator was told.  `Saved` is a whole save, a failed one, or, for the
JSON file, one that leaves it unreadable.

**RemoteImports** has the remotes with their jobs in memory and on file, and the
import tasks.  `update_job` reads under one lock (`ReadBase`) and writes the whole
remote under another (`WriteJob`).  **ServerBearers** has the cache of login tokens
of sub2api servers: settings and bearers are numbered by the edit they come from.

**Backups** has the flag, the runs with their program counters, the bucket and
`backupDue`, all that is kept of the state file.  A connection that breaks drops
the handler's future at an await.  **OAuthSessions** has the set of open sessions,
numbered as they were opened, the browser that leads to codes, and the calls to
`finish`.
**SettingsStore** has the live map, the file, and the copy each update is writing.

**MCPoolClients** adds the symmetry set for TLC and, for `pool_liveness`, `Forget`: a
token that nothing mentions any more but a request's attempted set cannot be told
from a new one, and becomes new, so that tokens never run out.  **MCRequests** and
**MCServices** put small instances of independent modules into one run each: `focus`
chooses the module that moves.  **MCReply** is TextReply alone.  **PoolProofs**,
**SlotProofs**, **ImageTasksProofs**, **RegisterProofs**, **RequestProofs**,
**ServicesProofs**, **ImportsProofs** and **GalleryProofs** hold the theorems.

An operator marked *Mutant* is a plausible wrong form of the definition after
it; replacing the definition by it must break the property `PROJECT.json` names,
which shows that the property depends on that code.

## The runs

| Run | Instance | Shows |
|---|---|---|
| `pool_slots` | 2 image requests, 2 tokens, 1 slot, quota up to 1, 2 attempts | slots are counted exactly, never exceeded, and refine `SlotSemaphore` |
| `pool_rotation` | 1 image request, 1 refresh job, 3 tokens, quota 0 or unknown, 1 attempt | old names follow an account through two rotations; a rotation stays with the account that asked |
| `pool_liveness` | 1 image request, 1 text request, 2 tokens that can be issued again without end, quota 0 or unknown, 1 attempt | slots are given back; a text request ends unless new tokens keep coming |
| `pool_reimport` | 2 requests, 1 token, re-import allowed | violation, see below |
| `tasks` | 2 tasks, 2 runs, retention 1, clock up to 3 | one run per task, current file, stable outcomes but for unreadable or unsaved files, every task ends |
| `tasks_dst` | the same with an ambiguous time | violation |
| `register` | threads 2, total 3, room for 2 runs | one run at a time; a stop lets begin what was pushed and one more, and ends the run |
| `register_start` | threads 1, total 1 | violation |
| `requests` | 2 images of the upstream and 1 attached, timeouts of 2 and 3; 2 images per request; texts of 4 symbols, 2 accounts; 1 picture | attempts end as expected, siblings keep their results, streams are well formed, no text is lost, polls, requests and orphaned thumbnails end |
| `services` | 2 keys, 2 imports of 1 remote, 2 calls to 1 server, 3 backups, 1 picture with 2 synchronisations and 2 deletions, 4 logins with a limit of 2 and 2 that finish, 2 editors, 2 registrations with 3 providers | see the properties below |
| `gallery_records` | 1 picture, 1 synchronisation, 1 deletion | violation |
| `reply_blocks` | texts of 5 symbols | violation |

What `services` shows, by component.  *Keys*: a key reported deleted, disabled or
replaced opens nothing again (`RevokedKeysFail`); a stored key vanishes only by
request or by a failure of the storage (`StoreLosesNoKey`).  *Imports*: a job shown
as running has a task (`RunningHasTask`), reports never undo edits (`EditsPrevail`),
and the only import of a remote counts each account once (`ImportAccounted`).
*Backups*: the flag is up exactly while one backup is at work
(`BackupLockAccounted`), and rotation spares the newest (`RotationSpares`).
*Pictures*: what the index and the synchronisations at work vouch for is served until
it is deleted or expires (`SavedImagesServed`), and what was deleted is not, unless a
save or a synchronisation of it was at work (`DeletedImagesGone`).  *Logins*: a login
begun can be finished (`OpenSessionsStay`).  *Settings*: a refused storage section never reaches
the file (`StoredSettingsValid`).  *Registrations*: a code is taken by the one it
was sent for, unless its mail names no recipient or the alias file failed
(`OwnCode`).

Bounds.  A slot limit of 1 with two requests makes every second user a conflict.
Two tokens allow a second account or a rotation, and a quota of 1 lets two successes
race for the last image.  The three tokens of
`pool_rotation` allow two rotations in a row, so chains of aliases meet deletions
and new accounts; its accounts have no quota left or an unknown one, which
`pool_slots` covers.  `MaxAttempts` is 2 (20 in the code) in `pool_slots`: enough
for a failed check followed by another account and for giving up.  The clock runs
three units with a retention of one, so a task can expire and its id be used
again.  Two `Run` elements are room for the second run that must not exist.
`Token` bounds how often upstream can rotate in the pool runs, except in
`pool_liveness`, where tokens return; the theorems have no such bound.  Fresh tokens
and requests are interchangeable, so `pool_slots` and `pool_rotation`, which have no
liveness property, use symmetry; their storage is empty at first, and the admin adds
every account, so that all their tokens are fresh.  In `pool_rotation` a refresh job
competes with the request for the refresh lock, as the watcher and the admin do.

In `requests` a deadline of 2 allows a look, a settling look and a timeout, and
the longer one of 3 the repeated resolve; two generated ids let the document
grow between two looks.  Each budget is one retry (three or four in the code),
the TLS budget none, so that being over budget and within it meet in two parallel
images; `MaxRefused` bounds the retry of refused tokens, which the code does not
(see below).  Four symbols are a word, a blank and punctuation followed by one
more, the shortest text sanitizing takes back.  `requests` and
`services` move one picture, `services` under two synchronisations and two deletions
at once; that every operation writes the index as a whole, and so meets other pictures
in it, is in the theorems, which have any number of pictures.  Two keys and three secrets
allow the reuse of a name, a secret and the administrator's; one remote and two
imports of two and one accounts make the shared job; three objects and a number
to keep of 0 to 2 allow a rotation of one, two and none.  Four logins with a limit
of two exceed it twice.  Two aliases and three providers, two of them DDG, let
registrations share an alias or an inbox, and run out of turns.  `MaxEdits`,
`MaxEntries`, `MaxPages` and `MaxStarts` bound what clients do.

Deadlock is checked in the pool, task and registration runs; `requests`, `services`,
`gallery_records` and `reply_blocks` switch it off, since a finished request and an
exhausted bound stop.

Fairness.  The runs with liveness assume that a started task is scheduled and
that its network waits end; every upstream call in the code has a timeout.  The
refresh lock is a tokio mutex, a fair queue, so waiting for it is strongly fair.
Nothing is assumed of clients, the admin or the watcher.  `SlotEventuallyReleased`
says that each holding ends, not that a request succeeds.  `EveryTaskEnds`
assumes that the image flow of a task ends; `RequestEnds` shows it, for refused
tokens up to `MaxRefused`.  `StopEndsRun` assumes that a registration and a sleep
end.  `PollEnds` assumes only that a turn of the loop ends: upstream may be busy at
every look.  `ThumbnailsGo` assumes that the cleanup worker, which wakes up every
half hour, goes on doing so.

## What disagrees with the code's own words

* `pool_reimport`: `delete_accounts` forgets the slots of an account in use; if it
  is imported again, requests start from a count of 0, and more than
  `image_account_concurrency` images are generated with it.
* `tasks_dst`: a task that finishes in the local hour that repeats at the end of
  daylight saving time is pruned at once, since `parse_timestamp` returns 0 for
  an ambiguous time; a repeated submission generates it again.
* `register_start`: a start that arrives after a stopped run left its loop, and
  before its last critical section, is answered with `enabled` and then lost.
* `gallery_records`: `sync_all` saves the copy of the index it took before its
  uploads, over a picture recorded meanwhile; the header of the file says every
  stored image is recorded.  A picture that is on WebDAV alone is then not served.
  In the same way a deleted picture can come back.
* `reply_blocks`: when a model writes text before and after a tool call,
  `messages_stream` stops text block 0 and then sends the rest as one more delta
  of block 0; the header of the file describes deltas before the stop.

Also met while modelling, without a run of their own (the models do what the code
does, and the properties say what holds in spite of it):

* Refused tokens.  The retry in `generate_single_image` and the one in
  `stream_text_deltas` have no bound while each refresh gives a new token that is
  refused again.
* Images and polling.  Ids found so close to the
  deadline that the settling look does not fit are reported as a timeout.  A
  timeout is retried with another account only if the attempt pushed no output at
  all, so seldom (`CHANGELOG.md:11` promises up to four); the retry of text
  replies cannot be reached, because a message is itself an output.
* Text.  A chunk that ends in a blank and is followed by punctuation makes the
  decoder send the whole text again.  A tool tag cut between chunks sends its
  first half as text.
* Accounts.  `get_user_info` overwrites a status the admin set while it was awaited.
* Settings.  A refused patch stays in the live map, un-normalized: its values take
  effect, and every later update is refused too until the section is repaired or
  the program restarts.  Two overlapping updates may leave the older copy in the
  file.
* Servers.  A call or an import that took its server before an edit and logs in after
  it caches a bearer of the old settings, although `sub2api_service.rs:6` says that an
  edit invalidates the cache; later calls send it to the new address until it expires.
* Backups.  The comment at `backup_service.rs:834` counts the interval from the last
  successful run, the code from the last finish of any kind.  The state is read
  before the flag is taken and written after it is given back, so a later backup's
  record may be overwritten by an earlier one's.  A client that disconnects from a
  manual backup leaves the flag up until the restart.
* Imports.  An edit of a remote marks its running job failed, and the import then
  reports it completed.  Two imports share one job and overwrite each other's
  counts.
* Image tasks.  A task file that cannot be read is taken for an empty one, and the
  next save overwrites it.
* Pictures.  A save reports success with a URL also when neither
  copy was stored.
* Registrations.  Concurrent ones advance the shared provider index, so one may try
  a provider twice and another never.  An alias file that cannot be read is taken for
  an empty one, and the next record overwrites it.  A mail whose `To` is a bare
  bracketed address, or missing, is accepted by any registration, one written
  `Name <address>` by none.
* Git storage (not modelled): a push that fails keeps the commit in the clone; a
  later save of equal content reports success without a push.

## The theorems

Every theorem holds for every value of the constants within their named
assumptions.  Those are that sets of ids do not contain the value that stands for
no id, that limits are positive where the code has them positive, and that an
address of the mailbox itself is no alias (`AliasesAssumption`).  Each proof
follows one pattern: an inductive invariant, one lemma per action of the module,
and the properties as consequences.

**PoolProofs.**  `TypeCorrect` carries more than types: every token that the pool, a
slot counter, an alias or a process mentions has been issued, and its invariant
says for each process what its program counter means for its token, for the slot it
holds and for the lock.
`SlotLimitHolds` rests on `SlotInv`: every counter is at most the limit, counters of
tokens never issued are 0, an alias leads away from a dead token, and the
process at the token endpoint owns the lock and asked for a token that is still
its own name.  The last part is why a rotation adds the old counter to a new
key that is 0: without the lock two rotations could meet in one key.

**SlotProofs.**  A slot is charged to a token that may be renamed twice before it is
given back, so counting needs the whole chain of aliases.  `AccountingInv` says
that chains end (`Orderly`), where a request holds a slot (`HeldWhere`), that the
token it keeps resolves to the account it generates with or checks
(`HeldToken`), that finitely many requests hold one, and that each counter is
their number (`SlotAccounting`).  Every step of the system is one of five `Kinds`:
it leaves the slots alone, renames an account, takes a slot, gives one back, or
restarts.  Each kind keeps the invariant, and the same classification proves the
refinement `SlotsAreSemaphore`, step by step.  `ConcurrencyHolds` is the promise that
`pool_reimport` refutes, under the assumption that run drops: all theorems
of SlotProofs, `SlotLimitHolds` and `RotationLocked` assume `~Reimport`, for an
account imported again under an old name breaks them in the code as well.

**ImageTasksProofs.**  `OneRunPerTask` with `FileIsCurrent` and the types is inductive:
pruning leaves unfinished tasks alone, and recovery leaves none.  `OutcomeKept`
follows for unambiguous times: a restart that reads the file after a good save reads
the map back; the two other restarts are the exceptions the property names.

**RegisterProofs.**  `StopAdmitsPushedHolds` rests on `AllowanceInv`: while the run
is not enabled, its allowance covers what it has pushed, and one more while it has
read `is_enabled` as true and not pushed yet.  It needs `OneRun`, since the end of
another run would withdraw `enabled` without an allowance.

**RequestProofs.**  `AttemptEndsHold` adds to the property only that an attempt which
waits for codex has emitted nothing.  `SiblingsHold` is about what is never lost:
in a parallel request with a buffered answer the images in that answer, in the
channel and in the emitting task's queue together are, until the channel closes,
exactly those the tasks taken so far have generated (`Siblings`), and the error that
replaces an empty answer is sent only when every image has ended without a result.
`StreamGrammarHolds` needs `OpenStream`: an open stream has no end in it.
`RepliesHold` rests on `ReplyInv`: the text that was sent ends with the text the
decoder has.  Of `Sanitize` it needs only that it returns a text, so it holds
whatever sanitizing takes back; the delta is either what was appended or the
whole text again.  `Keep`, by which sanitizing drops symbols, is written by the
rank of a position instead of by recursion, so that what it returns follows from a
bijection between ranks and positions (`Ranks`).

**ServicesProofs.**  `BackupLockHolds`: among those who may hold the flag at most one
does (`LockInv`).  `RotationSparesHolds`: what a run is about to delete has as many
later uploads as it has to keep (`RotationInv`), which the uploads of other runs
only increase.  `RevokedKeysHold` and `StoreLosesNoKeyHolds`: as long as the copy in
memory has a key that opened something, the store has no key beyond it but those
asked to go (`CopyInv`); a generated secret is never one used before, and one that
an administrator enters again is no longer revoked.
`OpenSessionsHold`: a granted login's code is used, and the eviction at the limit
takes the oldest.  `StoredSettingsHold`: no copy an update is about to write has a
refused section, although the live map may.  `OwnCodeHolds`: two registrations have
one alias only if it is loose, an alias in use is in the file or loose, and a mail in
the inbox went to the address of the registration it was meant for (`SharedInv`,
`RecordedInv`, `AddressInv`, `InboxInv`).

**ImportsProofs.**  `ImportsInv` says for each task what it has read and where its
remote is in memory (`Stage`, `Placed`), that `RunningHasTask` and `EditsPrevail` hold
between any two critical sections, and that an import which shares its remote
with no other has reported exactly what it fetched (`AloneInv`).  The last part
gives `ImportAccountedHolds`.

**GalleryProofs.**  A promise is made of a file, or of a mark in the index together
with every index a synchronisation is going to save (`Promises`); only a deletion takes
the copy, and it voids the promise first (`Copies`); nothing at work could bring back what a
confirmed deletion removed (`GoneForGood`).

`ServicesHold` and `RequestsHold` state the invariants once more for the
specifications the runs `services` and `requests` use: the modules that stand still
do not disturb the one that moves.

Checked by TLC only:

* liveness, which needs fairness and ENABLED, both outside the prover's reach:
  `SlotEventuallyReleased`, `TextEventuallyEnds`, `EveryTaskEnds`, `StopEndsRun`,
  `PollEnds`, `RequestEnds`, `ThumbnailsGo`;
* the five violations, as counterexamples.

The modules have no recursive operator, and no property of a passing run needs an
induction over data.

## Not modelled, and the plan

Left out of the modelled parts: failed saves of the pool and of the register
config (the next change saves again), progress records, statistics, export,
which accounts own a refresh token, the notification that wakes a waiter for a
slot (its one second poll is what the model keeps), the round-robin order of the
selection (any candidate may be chosen), tags and downloads of pictures, and
panics.

Left out as a whole: the git storage, whose behaviour is that of git after a
failed push; the chat completion cache, which no handler calls; logs, which
nothing reads to decide; the stub for editable files; the pure encodings and hash
computations under `utils/`; the web interface.  The parsing of the mail providers
and of the upstream's documents appears only as what the code makes of it.

What is left to prove: that `ImageAttempt` implements the attempt `ImageRequest`
takes for granted, stated as a refinement between the two modules rather than by
the shared `ImageEnds`; the grammar of text streams, of which `reply_blocks` shows
the one exception, for the other styles; and, should the code come to check
whether an imported account is in use, the pool's theorems without `~Reimport`.

Run a check with `tlc -config pool_slots.cfg MCPoolClients`, a proof with
`tlapm PoolProofs.tla`.
