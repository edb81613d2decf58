# Cosine in TLA+

TLA+ models of the parts of Cosine (a PHP framework for ERP and CRM applications) where
something can go wrong over several steps: nested saves in one counted transaction,
overlapping requests that write back rows they read before, work that is spread over a
database and a mailbox, a file store or a schema, processes that die in between, and pages
whose scripts send requests without waiting for them.
TLC checks small instances; TLAPS proves the main results for all values of the constants.

Every operator that models code is named after the code where a name exists; `PROJECT.json`
(`map`) gives its lines. Paths below are relative to `src/system`.

## 1. The system

A request enters through `web.php` (`Web`), which starts the session, checks CSRF token, login
and role, and calls one action function of a module. Actions work through services and
`DbObject` records on one MySQL connection (`DbPDO`). After every save `Web::callHook` calls
the listeners of other modules. Scheduled work (reading channels, migrations) enters the same
way, or by `cmfive.php`. Several PHP processes serve requests at once. They share the
database, the file stores and the mailboxes. The code takes no lock; the only one there is
is PHP's, on the file of a session from `session_start` (`web.php:641`) to the end of the
request, so two requests of one browser never run at once, and those of two browsers do.

Some pages go on after they are loaded: their scripts send further requests (`fetch`) and change
what they show when the answers come, if they come, and in whatever order.

| component | state | operations | interacts with | what is hard | what makes it correct |
|---|---|---|---|---|---|
| Active record and transaction (`classes/DbObject`, `DbPDO`, aspects) | counter of levels, connection's transaction, object ids, rows | insert, update, delete, units of several saves | listeners (callbacks) save other objects inside | nesting; one rollback ends all levels; swallowed exceptions; `\Error`s no catch block stops | counter agrees with connection; nest is atomic; "true" means stored |
| Channels (`modules/channels`, `TicketEmailProcessor`) | mailbox flags, message rows, statuses, processed flags, comments | read, process, the processors, mark as processed | mail server; task module | overlapping runs; crash between row, attachments and seen flag; processors that see each other's messages | no mail is lost or commented twice; every answer arrives |
| Migrations (`MigrationService`) | schema, table `migration`, transaction | run, fresh install, rollback, rollback of a batch | modules' migration files; MySQL's implicit commit | failure after an implicit commit; order of undoing; ids of rows and timestamps of files disagree after a fresh install | rows say what is applied; no gaps but those of the fresh install; exact rollbacks |
| Accounts (`modules/auth`) | row of `user`: hash, salt, attempts, lock, token | login, counting, unlock, rehash, password change and reset | session; mail | read and write of the row in different transactions; hash and salt in two columns | lock after the limit; the chosen password fits; a token works once |
| Attachments (`modules/file`) | files per store, rows | upload of a file or of a posted value, save, move, delete, restore, erase | S3 or disk | store and row written one after the other; shared paths | an attachment keeps its content |
| Multipart upload (`multipart.ts`, `MultipartUploaderComponent.vue`, `FileMultipartUploadService`) | parts in the page, uploads and objects at S3, rows of uploads and attachments | begin, cut, send and retry parts, complete, abort | S3, attachments | parts under way at once; an abort noticed in several places; the handler dying between S3 and the rows; one content, two tabs | what counts as uploaded is whole and attached; what failed is cleaned up; it ends |
| Second factor (`UserSecurityComponent.vue`, `ajax_*mfa*`) | flag and secret in the row of the user, the page, the user's phone | enable, confirm, disable | other saves of the user | a secret that is replaced; rows written back; answers out of order | the user can pass the second factor; the page says whether there is one |
| Passkeys (`WebAuthnService`, `webauthn/*`) | credentials, authenticator, the session's options and user | register, log in, name, remove | login, sessions | one place for the options of all tabs and both ceremonies | a key belongs to the user it was made for; removed keys stay away |
| Tags (`Autocomplete.ts`, `Tags.ts`, `ajax*Tag*`) | tags, assignments, modal, container | add, create, remove, show | sessions | a request per change, none waited for; texts taken for ids, and looked up without their markup | modal and container show what is stored |
| Favourites (`favourites.ts`, `ajaxEditFavorites`) | row, star | turn | | neither side says which way | when the star is wrong, exactly |
| Timer (`timelogwidget`, `ajaxStart`, `ajaxStop`, `edit`, `delete`) | timelogs without an end, widget | start, stop, form, delete | sessions | two starts at once; rows written back; Stop with several running | one running timelog per session; the widget is right |
| Virus scan queue | queue, rows | poll | SQS, attachments | | |
| Tasks, task groups | tasks, subscribers, members | save, hooks, notifications, cascades | channels, timelogs | double subscription | one subscriber row per user |
| Dispatch, CSRF, sessions | token history, session, redirect | guards of a request | every module | double submission; order of guards | no action without its guards |
| Roles and groups | group membership, roles | inGroup, hasRole, allowed | dispatch | cycles of groups | termination; inherited roles |
| Configuration, module loading | registry, dependencies | load in order | all | order by dependency | a module loads after what it needs |
| API tokens, forms, reports, insights, search, printers, comments, audit, mail, Html | single rows, or none | single saves, rendering | DbObject | nothing over several steps of their own | |

`PROJECT.json` lists all of them with their status, and every hazard of the code with its line.

## 2. Modules

Done:

1. `DbTransaction` - the active record; `AtomicSave` - what a caller of it relies on;
   `DbTransactionProofs` - theorems.
2. `ChannelPipeline`, `ChannelPipelineProofs`; `MCChannelPipeline` gives the instances.
3. `Migration`, `MCMigration`, `MigrationProofs`.
4. `Account`, `MCAccount`, `AccountProofs`.
5. `FileStore`, `MCFileStore`, `FileStoreProofs`.
6. The pages: `Multipart`; and on `Requests`, what they have in common, `SecurityPage`,
   `TagEditor`, `Favourite`, `TimelogWidget` and `Passkeys`. `Browser` puts them together;
   `MCBrowser` gives the instance; `BrowserProofs` (uploads and the second factor),
   `PasskeyProofs` and `PageProofs` (favourites, timer and tags) - theorems.

The first five do not share variables with one another. What they take from one another is a contract:
`ChannelPipeline`, `Account` and `FileStore` treat one save as one atomic step, which is what
`DbTransaction` implementing `AtomicSave` shows. It does for saves none of whose listeners
fails (checked by `DbTransactionAtomic`, proved in `DbTransactionProofs`); `DbTransactionTrue` shows what happens otherwise. The
other modules leave failing listeners to it.

### DbTransaction

One PHP process. `frame[1..depth]` is its call stack of saves, each with the phase it is in:
validate, before-listeners, SQL, aspects, after-listeners, for an update the listeners of the
index (`DbObject.php:834`), commit, or the catch block. `token`
is `DbPDO::$trx_token`, `inTrx` the connection's transaction, `work` what the connection reads
and `durable` what survives it. A row is the number of the save that wrote it last, so "whose
version is stored" can be told. `Call` is a request's save, `HookCall` one made by a listener,
`AspectCall` one of a bookkeeping row, `BodyCall` one inside an override such as `Task::insert`
that opens a level of its own ("unit"). `SqlFails`, `Catch`, `PhpError`, `RawQuery` and
`EndProcess` are the faults: an exception goes to the catch block of each level, which rolls
the whole transaction back, but is swallowed at a listener (`Web::callHook`). An `\Error` skips
the catch blocks. A `PDOStatement` left in the query slot makes the rollback itself raise.
`insert` lets objects through that break their rules (`DbObject.php:658` asks `isset`), and
`update` does not; `Validate` has both branches as coded.

### ChannelPipeline

Several runs (`run[w]`) of the actions that read or process a channel. A run reads the unseen
mails, and for each one inserts the row, stores the attachments, sets the seen flag
(`InsertMessage`, `SaveAttachments`, `MarkAsSeen`), each durable by itself. Then each processor
lists messages (`StartProcessor`) and handles them one by one, and at the end the run marks
*every* row of the channel (`markMessagesAsProcessed`). The class of a
mail decides what `TicketEmailProcessor` does: a reply to a task becomes a comment and then a
status; a mail is passed over, for ever, if the *name* of its sender is not an address
("named", `TicketEmailProcessor.php:70`); two classes raise an
`\Error` that ends the run, mails that would make a task ("fresh": `createTask` is called with
null for a string, `:174`) and replies of senders without a user ("orphan": a
method that does not exist, `:249`). The listings are those
of the code: the ticket processor's has no channel (`ChannelService.php:200`). External: the
mail server, processors of other modules (modelled from the methods `ChannelProcessor` offers
them), and the death of a process.

### Migration

One call of the service at a time. `RunMigrations` on an empty table begins with the fresh install
(`installInitialMigration`): two migrations of the module admin, each `Install` and `Register`, in
no transaction and with batch 1. The second of them has a later timestamp than others of its
module, so its id is smaller than theirs. `applied` is what `up` and `down` did to the schema, `rows`
the table. A migration in `Ddl` changes tables, so MySQL commits the transaction it runs in;
`Up` and `Down` clear `inTrx` then, and what follows is autocommitted. `Throws` and `Dies` undo
to `saved` if the transaction is still there, and otherwise may leave the migration half done.
`cut` remembers that something failed outside a transaction: after that the table need not
match the schema, which MySQL makes unavoidable, or that the table itself went: rolling back `AdminInitialMigration` drops it, and
deleting the row fails then (`TableGone`). The texts to confirm before a migration and the
request that goes on after one are there, with the flags the code passes along.

### Account

One row of `user` and several requests. Every operation is a read of the row into an object and
one or more later writes of the object; `update` leaves out null attributes, `updateNulls`
(`$force_null_values`) does not. A login reads the row three times and writes it up to three
times (rehash, last login, reset of the count). The limit of attempts ranges over `Limits`,
since a limit of one takes a path of its own in the code. A password is `[of, scheme]`: the
salted scheme depends on the column `password_salt`, the other does not.

### FileStore

Attachments as rows, and files per adapter and path. `Ways` are the ways to make one. Uploads
write the file first; a value posted in a field of the form is written too, but below a second
`/uploads` in the directory of the attachment (`FileService.php:590`), where `getContent` does not
look, so `uploadPosted` stores nothing that an attachment leads to (history `posted`). Saved
content inserts the row first; a move reads, writes the other store, and writes the whole row
as it was read; erasing removes the file and then the row. `Path` is the value of the code's
function of parent, day and name, so two attachments may have the same one.

### Multipart

A tab has the files that are still to be counted, where `upload()` is with the first of them, how
much of its stream has been read, the parts handed to `doPartWithRetry` with their attempts, and
the abort signal. `ReadChunk` is one round of the loop over the stream: the test of the buffer
comes *before* the chunk is added to it, so parts are cut one round late. `ReadAborted` leaves the loop,
for an abort or because the stream cannot be read on. `UploadPart` and
`PartFails` go on while the loop does; a failed call may have reached S3 all the same.
`CompleteMultipart` to `CompleteAnswered` are the steps of `ajax_done_POST`; `CompleteFails` is the
death of the handler between any two of them, or a lost answer. `troubled` is history: files for
which one of the calls around the parts (begin, complete, abort) failed.

### Requests, and the pages on it

A request is `[id, page, op, arg, at, seen]`: `sent`, `loaded` when its handler has read (what it
read is in `seen`), `done` or `failed` when an answer is under way. `MayStart` is the session lock.
Between `Load` and the write of the same request, requests of other sessions may write; `Lose`
takes a request away at any point, so it may or may not have had its effect. A page is loaded again
when it has nothing under way. Each page module has the page's functions, then the handlers, then
what the answers do to the page.

- `SecurityPage`: the row's flag and secret, secrets the phone holds. The code a user types is
  that of a secret on the phone. `WriteUser` writes the whole row as it was read, `SaveRow` without
  its nulls.
- `TagEditor`: `items` holds ids for the options that were loaded and texts for those the user
  made; `IdOf` is what `Request::int` makes of either, and `Finds` gives the names a text is looked
  up as (`strip_tags`), while the text itself is what is stored. A new option sends two requests.
  The modal opens in the page, beside whatever requests are under way; that it is
  one step, not a request of its own, is the only simplification. `bound` are the pages
  with the listener of their load: their first closing fetches the container twice.
- `Favourite`: the star turns after any answer, the row after any request.
- `TimelogWidget`: only timelogs without an end, for an end is never taken back (`update` leaves
  out nulls). Forms leave the page, so they are sent when it is quiet.
- `Passkeys`: `options[s]` is the session's one place for the options of either ceremony.
  External: the authenticator, and the library, which checks that a response answers the challenge
  kept and that the counter grows.

Some of their histories (`overlapped`, `hasty`, `strayed`, `astray`, `raced`, `disturbed`,
`missed`, `odd`, `renewed`, `unaware`) name the causes for which a page may be wrong. The properties say that
nothing else can make it so.

## 3. Runs

Twelve runs. Sizes are of complete searches; `Browser` takes about two minutes, each of the
others less than a minute.

| run | question | instance | states |
|---|---|---|---|
| `DbTransaction` | Do counter and connection agree, is a nest atomic, is what is reported kept, under all faults? | 2 objects, 3 deep, 5 saves, every operation and fault | 1,050,168 |
| `DbTransactionAtomic` | Do insert, update, delete implement `AtomicSave`, and close what they open? | 3 objects, 3 deep, 5 saves, SQL failures outside listeners | 139,947 |
| `DbTransactionTrue` (violated) | Does "true" mean stored? | 2 objects, 2 deep, 3 saves, failing listeners | 12 steps |
| `ChannelOverlap` | Two runs of one channel at once, one may die | 1 mail, 3 rows, ticket and external processor | 1,176,535 |
| `ChannelMixed` | One run at a time over two channels, crash, mails that end runs; do answers arrive? | 3 mails, 1 page, 5 rows | 936,520 |
| `ChannelNew` (violated) | Is a message nobody handled new? | 2 runs, 2 mails | 8 steps |
| `Migration` | Are schema and rows one, and rollbacks exact, with failures in and after transactions? | 2 modules, 5 migrations, 2 of them those of a fresh install, 5 calls, 2 faults | 1,520,612 |
| `Account` | Locks, passwords, tokens under overlap and a crash | 2 processes, limits 1 and 3, 2 changes, 1 crash | 648,247 |
| `AccountRehash` (violated) | Does some password fit the stored hash? | 2 processes, limit 2, 1 change | 7 steps |
| `FileStore` | Does an attachment keep its content? | 2 attachments, made in any of 3 ways, 2 processes, 3 operations, 1 crash | 1,346,440 |
| `FileSameName` (violated) | ... when names coincide? | 2 attachments, nothing else | 4 steps |
| `Browser` | Do the pages tell the truth, and do looks before writes keep their promises, with overlapping, reordered and lost requests? | 6 kinds of pages, each with 2 pages of one or of two sessions, 3 or 4 requests; uploads in 2 tabs, up to 4 parts, 2 attempts | 1,439,153 |

### What they show

- **Saves.** The counter agrees with the connection whatever fails, because the two ways it
  falls out of step with the stack (a rollback far below, an `\Error`) set or leave both
  together (`TokenOwnsTransaction`). Nothing of a nest is durable before its outermost save
  returns, until a level was rolled back (`DurableOnlyAtTheEnd`), and a save that says true, none of whose levels was
  rolled back, is stored for good - or, where an `\Error` has left a level of the counter open, is in the
  transaction still open, where it waits for a commit that may not come (`ReportedSaveIsKept`). Without failing listeners and
  `\Error`s this is the atomic save of `AtomicSave` (`ImplementsAtomicSave`). With a failing
  listener it is not: *finding 1*, `DbObject.php:704`. The listener's save rolls the whole
  transaction back, its exception is swallowed, and the outer save goes on and returns true
  with no row.
- **Channels.** A mail flagged as seen has its row and raw text, a status is never ahead of its
  comment, and a mail is commented twice only for one of the three causes `OneComment` names (a
  run cut off at it, two runs holding it, another processor failing on it). Every answer
  to a task becomes a comment if no mail arrives that ends a run. *Finding 2*,
  `ChannelService.php:250`: a message stored by another run after the listing is marked as
  processed without having been handled.
- **Migrations.** What fails inside a transaction leaves no trace (`RowsMatchSchema`); what fails
  outside one leaves one migration at most in doubt, however many a call was about
  to take (`OneOffPerFailure`). Modules have no gaps but those the fresh install
  makes (`NoGap`), and both rollbacks take back exactly what they say if the migrations of the fresh
  install, which have the lowest ids, are counted as the first (`RollbackIsExact`), although they
  compare row ids where the caller names a file, and although `batchRollback` walks a stale list.
- **Accounts.** No lock comes before the limit and no open account is at it, whatever overlaps; without overlap the lock,
  the chosen password and the single use of a token survive a process dying at any write.
  Overlapping requests lose counts and undo locks, but not for ever (`LockedInTheEnd`).
  *Finding 3*, `User.php:485`: the rehash of an old password overlapping a password change
  leaves the salt of one scheme with the hash of the other, and no password fits.
- **Attachments.** An attachment whose path nobody else was stored at keeps its content under
  overlapping moves, deletions and restorations; one that was cut off has its content or none, and one
  that was posted in a field has none (`OwnContent`).
  *Finding 4*, `FileService.php:566`: two files of one name for one parent on one day share a
  path, and the second replaces the first.

- **Uploads.** Whatever attempts fail and however the stream is cut, a file that counts as
  uploaded is complete and in order at S3 (`CountedIsWhole`) and attached (`CountedIsAttached`);
  one that failed leaves neither an upload nor a row behind, unless a call around the parts
  failed, too (`FailureCleansUp`); every submission ends (`SubmissionEnds`). The exception is a
  file with more parts than one answer of ListParts has (1000, or five gigabytes): it is put together
  without its end and counts as uploaded (`FileMultipartUploadService.php:90`). Tabs that complete
  one content at once attach it once each at most (`OneAttachmentPerTab`). An attachment found by
  its path will do even if it belongs to another object (`:106`).
- **Second factor.** While it is on, the stored secret is one the phone holds, unless a page that did
  not know asked for another (`StoredSecretIsOnPhone`). The page that decided last is right unless
  the row was written back by a handler that had read it before, or its user pressed two buttons
  before the first answer (`MfaIsAsTold`).
- **Tags.** The modal shows what is stored once requests are through (`ModalIsStored`), as far as no
  other page touched the tag and the user did not change it twice at once. Its exceptions come from
  texts. Read as numbers (`ajaxAddTag.php:13`, `ajaxRemoveTag.php:11`), the one of a tag just made
  does not remove it again, and one that begins with a number changes the tag with
  that id. And a text is looked up without its markup (`ajaxCreateTag.php:24`) but stored with it
  (`:28`), so one with markup assigns the tag named without it, unseen, or makes a new tag each time it
  is created. The container shows what is stored unless others dealt with the tag since, or
  requests its fetch did not wait for (`ContainerIsStored`): closing the modal fetches it while changes
  may be under way (`Tags.ts:45`). Only requests of different sessions can assign a tag twice, or make
  two of one name, if that name is found by itself (`OneTagPerSession`).
- **Favourites.** `StarIsWrongWhenOdd` says exactly when the star is wrong: after an odd number of
  turns that passed the page by. A wrong star stays wrong with each click.
- **Timer.** The timer runs once per session at most (`RunningPerSession`), and the page that made the last
  change shows whether it runs, unless two ran at once or a row was written back (`WidgetTruth`).
- **Passkeys.** A key belongs to the user for whom it was made, whichever tabs, administrators and
  logins meet in the session (`KeyIsForItsUser`). A removed key comes back, or a counter falls, only
  by a handler of another session that had read the row before (`KeysGoForward`).

More disagreements need no run, since one call or two in a row show them:
- the validation `insert` ignores (above);
- an `\Error` inside a save leaves its level open, and the saves that follow in the process say true and
  are not committed (`DbObject.php:730`; `ReportedSaveIsKept` names the case);
- `rollback` takes the *oldest* of its migrations down first, because the sort is ascending
  (`MigrationService.php:478`) where its comment says "largest to smallest" (`:475`); with
  `AdminInitialMigration` among them, the table of rows goes first;
- a reinstallation by `cmfive.php:434` calls the fresh install whether there are rows or not;
- the reset form refuses a token after 30 minutes where the handler takes it for 24 hours
  (`modules/auth/actions/resetpassword.php:82`);
- a mail that makes a task ends the run (`TicketEmailProcessor.php:174`), as does a reply without a user
  (`:249`), and an ordinary sender's name has a mail passed over (`:70`);
- an attachment posted in a field has no content (`FileService.php:590`);
- ListParts is asked once (`FileMultipartUploadService.php:90`), and an attachment found by its path may be
  another object's (`:106`);
- the names of tags with markup (`ajaxCreateTag.php:24`, above).

### Bounds

Every bound is a constant named `Max...`; it limits how often something begins, never how it
goes on. (`MaxRead` and `MaxRetries` of `Multipart` are no bounds but numbers of the code.)

- `DbTransaction`: three levels are the fewest with a save between the outermost and the
  failing one, and a soft delete needs two for itself; five saves let a call follow a failed
  nest. Two objects give a save and one a listener saves; the run without `\Error`s has three.
  The proofs have no bounds.
- `ChannelPipeline`: two runs are the fewest that overlap. Each may store one mail once, and a
  crash adds a third row. `MaxComments` = 3 stops the counting, not the comments;
  `OneComment` needs two. A run blocks at `MaxRows` (5 rows for 3 mails and a page; the fifth
  is the one after a crash), where the instance, not the code, is at its end.
- `Migration`: four migrations of one module, of which the first and the third by timestamp are
  those of the fresh install: one lies between them, so the order of ids is not that of
  timestamps, and one comes after both, so a rollback can leave one, take one and have one in between.
  The second module tells "of the module" from "of all". Five calls give two batches, a rollback and a
  run again.
- `Account`: limits of 1 and 3 are the special path and the smallest general one whose count
  passes through a value that is neither first nor last. Logins are unbounded; two other
  operations give a change inside a change.
- `FileStore`: two rows, paths and contents are what a mix-up needs; three operations give a
  move back, or an erasure in the middle of a move and a restoration, and the three ways to make an
  attachment meet on one path. The two processes, the
  two paths and the two contents are interchangeable (`Symmetry`); the adapters are not, one of
  them is active. No liveness property is checked under symmetry.

- `Browser`: two pages are the fewest that overlap; of one session they show the lock, of two
  the races it does not stop (three sessions would only add a third of the same). Three requests
  give a change by one page between the read and the write of another and a further request after
  it. There are four where a fourth is needed: on the security page, a secret replaced after a
  confirmation; for favourites, a turn more on each side; for the tags of one page, two creations, or
  one and a closing, whose two fetches meet the modal opened again. Two logins
  with one key after its registration would need four of the passkeys, which is too many for
  a run of minutes; that no counter falls then is proved (`KeysOnlyGoForward`). Uploads: four units in chunks of one give parts
  that are under way while others are cut, the wait after `Parallel`, and more parts than a page
  of ListParts; three files of one content, two in one tab, give an attachment found and one made
  at once. The code has 3 parts before it waits, 5 attempts and 1000 parts a page; nothing in the
  model depends on which number they are, only on each being reached.

`CHECK_DEADLOCK FALSE` stands in the runs of `Migration`, `FileStore` and `Browser`, where all calls
have been made, or all files counted, at the end and nothing goes on by itself. In the others there
always is a next step.

### Fairness

- `ChannelMixed`: weak fairness of the steps of a run (a PHP process goes on until it ends or
  dies), strong fairness of starting to read each channel (the scheduler outside calls the
  action again and again; strong, because a worker is not idle all the time). Nothing is assumed
  of mails, crashes or the action `process`.
- `Account`: weak fairness of the steps of a process that has begun a request. Nothing makes a
  request begin: `LockedInTheEnd` is about behaviours in which answers keep being counted.

- `Browser`: weak fairness of what an uploading tab does by itself once its form is submitted
  (`UploadStep`): promises are resolved, calls are answered or fail, the stream goes on. It does not
  choose between success and failure. Leaving the page and the requests of the other pages have
  no fairness.

All other properties are safety and need none.

## 4. Proofs

`tlapm` checks 8 modules. Assumed are only the named assumptions on the constants, which TLC
evaluates in each run; there are no bounds on objects, depth, runs, mails, files, pages, sessions or
requests other than "a natural number" or "finitely many".

**`DbTransactionProofs`** (`TypeCorrect`, `TokenAgrees`, `ClosedAtRest`, `AtomicNest`,
`ReportedIsKept`, `SavesAreAtomic`).
`TokenOwnsTransaction` alone is not inductive with the others: that the outermost commit is the
one that commits needs a level per active save. The inductive invariant `IInv` adds
- `Covered`: until a rollback, the counter is at least the depth. Then only the save at depth 1
  can bring it from one to zero, which gives `AtomicNest`.
- `NoLeak`: without `\Error`s the counter is at most the depth, so at rest it is zero
  (`ClosedAtRest`). `SlotClean` (only raw SQL fills the query slot) ties the `\Error` a
  rollback can raise to the fault behind it.
- `InSync`: outside a transaction the connection reads what is durable.

For `ReportedIsKept`: relative to `IInv`, `RInv` follows the outermost
save's row: once written it stays as the save wrote it until a rollback (`Kept`), because no save
below touches the same object (`Apart`, from `Related`: listeners save other objects). The
exception is a soft delete, whose update does and is given a later number (`SoftPending`,
`Numbered`). At the outermost commit with a counter of one this becomes durable; with a higher one, after an
`\Error`, it is what the transaction still open holds, and there is one (`TokenOwnsTransaction`).

For `SavesAreAtomic`, the refinement: if there are no units and nothing fails but
statements outside listeners or the process (`SqlOnly`), every step of the nested saves is a step of
`AtomicSave` or none. `StackInv`: a failure goes up the whole stack before anything else
happens, so a rollback and a save that goes on never meet. `DataInv`: numbers of saves are
fresh, and the row of the outermost save is as it was until its own statement. With `RInv` the
outermost commit is `Succeed`, the catch block at depth one `Fail`, and the rest stutters.

**`ChannelPipelineProofs`** (`TypeCorrect`, `NoMailLost`, `StatusIsTrue`, `OneCommentEach`), for any number of
overlapping runs and crashes. `SeenIsStored` needs to know that the row a run is about to flag
has its attachments, and `StatusMeansComment` that the row it is about to give a status has its
comment: `HoldsStored(w)` says so of what each run holds in memory. `Grows` collects what no step
takes back, which keeps `HoldsStored` of all the *other* runs; `StatusInv` adds that statuses
belong to stored rows.

For `OneCommentEach`: relative to `IInv`, `OInv` says of each mail nothing has disturbed that one worker
at most holds it (`Unshared`), that it has one row, whose mail is flagged as seen or will be by the worker
that inserted it (`OneRow`), and that a row whose mail has its comment has the status that says so, or the
worker that will write it (`Reported`). Then no mail is copied twice (`Memory`), and the ticket
processor, which lists rows without any status or with a failed one, does not list that row again.

**`MigrationProofs`** (`TypeCorrect`, `RowsAreTrue`, `RowsHaveNoGap`, `RollbacksAreExact`), for any modules,
timestamps, calls and failures, the last three until one of them hits outside a transaction or the table itself goes (`cut`). Rollback compares row
ids where it should compare timestamps: `Sorted` says that within a module the order of ids is the one of
`Before` (the rows of the fresh install, which batch 1 marks, and then by timestamp),
and that batches grow with ids. A new row keeps it because every earlier migration of its module has a row
already (`RunInv`, from the order `Earliest` gives and from `Throws` dropping the rest of the module;
`InstallInv` says what the fresh install has put there before, and that it leaves out no other). `Gapless` is
about the rows that stay (`Staying`). In the middle
of a rollback the table is what it should become and what is left to take down
(`BackInv`), and for a batch `BatchInv` adds that a module's later migrations all belong to the newest
batch, so rolling them back with the one at hand takes nothing else. `SavedInv` says what an open transaction goes
back to. `TypeCorrect` holds after `cut` as well and has an invariant of its own, `TInv`: a migration
has one row at most, in the table and in what a transaction goes back to, and the ids given
out, with those for the migrations a run still has before it, are no more than calls times
migrations (`IdsInv`); batches are one more than calls, for the fresh install takes the first. It assumes that there are finitely many migrations.

**`AccountProofs`** (`TypeCorrect`, `LocksAtTheLimit`, `PasswordFits`, `TokensAreUsedOnce`), for any number of
processes and crashes. `CountInv` says of the row *and of every copy a process holds* that it is
`Counted`: its attempts are covered by wrong answers or those have reached the limit, it is locked only then, and as
long as it is open its attempts are below the limit. A process can write back an old copy, but none that says more than happened.
A *locked* row
has no bound on its attempts, so `TypeOK` asks for a number only: a login that is past its first look counts on
from a locked row, and with three processes an old copy can open the row between two such counts for
long enough to let the next login past that look. Without overlap (`alone`),
`AloneInv`: at most one process is at work, and its copy is the row as it was left; at each of its steps
`RowIsRight` says what the row lacks still, the lock or the end of a change of password.

**`FileStoreProofs`** (`TypeCorrect`, `ContentKept`), for any stores, processes and crashes. The
invariant reads the property forward: `SettledInv` says of every row an operation may yet write, not
only of the stored one, that it leads to the attachment's own content. That this survives the
operations of others needs that a path no other attachment was stored at is only ever written by
this one (`PathInv`, `LoneInv`, `PlacedInv`), that such a write carries the own content (`ContentInv`), and
that whoever makes an attachment is alone with it (`MakingInv`). What is posted in a field writes nothing and
leads nowhere, so `SettledInv` is about the others (`Kept`), and the path is counted as given all the same.

**`BrowserProofs`**
- `FailedIsCleanedUp`. `UploadInv`: no file is chosen twice, and a counted one is never taken up
  again, so only the tab whose first file it is touches an upload (`OpenFor`); at each step of that
  tab this says what may be open.
- `CountedIsAlwaysAttached`. `AttachedInv`: no step takes an attachment away, and one is found or made
  before the row of the upload is deleted.
- `AttachmentsAreFew`. `AttachmentsInv` counts a tab that is about to insert like the attachment.
- `CountedFilesAreWhole`. `WholeInv`: at each step of the tab that has the file, the parts it cut follow one
  another from the first unit to as far as the stream was read, those S3 has are such parts, and
  those that ended are among them (`CutInv`); nothing is at S3 of a file not yet begun
  (`Untouched`). That completing the upload then gives the whole file is a claim about the listing in
  pages and about the concatenation of any number of parts, a fold. It is proved without induction
  over the fold, from its recursive definition: the least position where it went wrong
  (`Least`) has no predecessor that is wrong, and so is not wrong itself. `PartsByNumber` counts
  the parts before one.
- `SecretIsOnPhone`. `SecurityInv`: the rows handlers hold are as usable as the stored one, and a
  confirmation carries what the phone says.

**`PasskeyProofs`** (`KeysOfTheirUsers`, `KeysOnlyGoForward`) builds three invariants on one another:
requests are told apart by their numbers (`RequestsInv`), challenges by the requests that made them,
and the key in a registration was made for the user its challenge names (`ChallengeInv`); stored
keys are told apart, and a row a handler holds is not deleted and not ahead of the stored
counter (`KeysInv`).

**`PageProofs`**, on the two before it. `FlowInv` says of all pages that a session has one handler at a time (`MayStart`).
- `StarsFollowParity`. `FavouriteInv`: the star agrees with the row exactly if the turns that passed
  the page by and the answers still on their way to it are odd together, or even together.
- `OneTimerPerSession`. Running timelogs of the timer and handlers that may still start one or write
  one back are together no more than the sessions.
- `OneTagForEachSession`. The same count for the rows of a tag, and for the tags of a name that is found by
  itself, with the handlers that looked and found none (`Fit`). A name with markup has no such
  bound, and the property leaves it out. It needs `FirstTagsDiffer`: two tags that share a name from
  the start stay two.
- `ShownTimerIsTrue`. `WidgetInv`: of the page that made the last change, `Shows` says what it will show:
  an answer under way says what is stored, and without one the page does. A page that waits has one
  request under way, and a Stop in a handler is about a timelog that is there.
- `ShownFactorIsTrue`. The same for the page that decided last about MFA (`Told`).
- `ContainerShowsStored`. `ContainerInv`: what a `get` has fetched, and what the container shows when none
  is under way, is what is stored but for the names in `missed`; and while the container is not about to be
  fetched anew, every name a request still deals with is in `missed`. This holds however many gets of earlier
  closings are under way. `TagData` collects what it needs of rows, pages and requests: numbers and names are of
  tags that exist (`TagTable`, `RowsInv`, `PagesInv`), and whoever changes a name has made it one that
  the other pages count as dealt with (`DealtInv`).
- `ModalShowsStored`. `ModalInv`, on top of that, for each name that only this modal deals with and no text is
  taken for (neither `disturbed` nor `Misread`: not `Strange`): what is under way about it comes from the list
  (`SentInv`); a tag listed from the first has at most one change under way, whose handler found what the list
  does not say yet (`ListedInv`); one made in the modal is assigned, or its creation is under way
  (`MadeInv`). The proof found a case the history left out: a text of another page that will be read
  as the id of a tag just created (`Misdirected`) has that page deal with the new tag. It assumes that
  texts are not ids (`TextIsNoId`).
- `TypeCorrect`, the types of all of `Browser`, follows from the invariants of the kinds (`KindsInv`) and the bounds
  beside them: ids of tags' rows, with those that requests may still bring, stay within what the requests allow
  (`RowsLeft`), and so for timelogs, secrets and the counters of keys (`TimelogTypes`, `SecurityTypes`,
  `PasskeyTypes`).

The invariants `IInv` of each module, `RInv`, `StackInv`, `DataInv`, `StatusInv` and `OInv` were first
checked by TLC on the corresponding instances; of the pages, TLC checks the properties they imply
(`Browser`).

**Only model-checked:** the liveness properties `AnswersArrive`, `LockedInTheEnd` and `SubmissionEnds`,
which are out of the prover's reach. Every other property of a passing run is a theorem. The
runs that expect a violation check what the code does *not* do, so nothing is to be proved there.

## 5. Plan

To be proved next: nothing is left of the invariants and action properties. What the liveness properties rest on
can be stated as safety and proved: that a tab at work always has a step to take (which uses no `ENABLED` if
written out per phase), and that the measure its steps lower is bounded.

To be modelled, if a run is made room for: subscribers and cascades of tasks (look up, then insert,
as tags are assigned); `Migration` with a second process that reads before the first one's
commit (`MigrationService.php:250`); and roles through nested groups as a recursive function against
a definition by reachability.

## 6. Not modelled, and why

- Contents: query building, the row cache, parsing of mails, hashing itself, file paths as
  strings, templates. No property depends on them beyond what the data above distinguishes.
- MySQL's isolation between overlapping transactions: the models of overlapping requests take each
  statement or save as one step on the latest row, which is what autocommitted single-row
  updates do.
- A fresh install on a table that has rows (`cmfive.php:434`), which records its two migrations
  again; the page that runs migrations never does.
- A signature counter of a passkey that stays zero, which the library accepts: `KeysGoForward` has
  nothing to say of it.
- `saveFileContent` refusing a type when a mail's attachments are stored (`FileService.php:735`): the channels
  pass no list of types, so it refuses none.
- The failure of a request after its write, other than as an answer that is lost (`ajaxStart.php:37`), which
  is what the page sees of it.
- The age of reset tokens, `\Error`s in listeners other than as an exception at the listener,
  edits of channels, processors and task groups, and `updateAttachment`: single steps, or
  without an effect on the properties.
- Pages of different kinds at once: they share no rows but that of the user, whose other saves
  `SecurityPage` has as one operation, and a session's options, which only passkeys use.
- The MFA step of a password login, progress bars, toasts and lists; the modules' own endpoints
  that start uploads, beyond giving them an object.
- `inGroup` (`User.php:185`) walks nested groups without marking where it has been, so it does not
  end on a cycle of groups; one call shows it.
- Scripts under `templates/js` and `templates/vue-components` are other projects' libraries.
- Components of the last rows of section 1: see the notes in `PROJECT.json`.
