# Verification of the NotebookLM client

This directory holds TLA+ models of the parts of `notebooklm_tools` whose state
several processes, threads or services change, the TLC configurations that check them
on small instances, and TLAPS proofs for all values of their constants. Paths below
are relative to `src/notebooklm_tools/` of the repository.

## Components of the system

| component | state | operations | hard behaviour | modelled by |
|---|---|---|---|---|
| credential storage (`core/auth_migration.py`, `core/credential_store.py`, save path of `core/auth.py`, `services/auth_storage.py`) | `cookies.json`, `auth.json`, root `auth.json`, `metadata.json`, `storage-mode.json`, `credentials.enc`, the keystore entry, `operations/<profile>.json`, quarantine directories | switch mode both ways, save, recover, resolve a conflict, clear the marker, clean up residue | crashes between file operations, failed rollback, decisions made before the lock, keystore timeouts | `StorageMigration` over `CredentialDisk`, in part |
| installation identity and keystore worker (`core/credential_store.py`, `core/credential_backend_worker.py`) | `installation.json`; one helper process per call | create, relocate; get, ensure, delete key | a helper killed at its deadline after doing its work | worker as a call that answers, refuses or times out |
| automatic recovery budget (`core/auth_recovery_budget.py`) | failures and last attempt per profile, attempt in flight | run, reserve, finish | threads sharing one attempt, waiters giving up, budget reset by a new revision | `RecoveryBudget` |
| RPC retry and layered recovery (`core/base.py`, `core/retry.py`) | retry counters, recovery layer, shared client | call, retry, refresh, reload, headless login | counters reset by recursion, requests that may have been executed, one client shared by threads | `RpcRecovery`, in part |
| decrypted-credential cache, shared client (`core/credential_store.py`, `core/auth.py`, `mcp/tools/_utils.py`) | cache by revision, loads in flight, installed client | read, load, `get_client`, `reset_client` | a revision read before the lock, owners that fail, waiters that time out | `CredentialReads`, `AtomicReads` |
| asynchronous queries and conversations (`services/chat.py`, `core/conversation.py`) | table of pending queries, worker threads, LRU of conversations and turns | start, poll, ask, evict, move to the service's id, delete | limit and retention against workers that overrun, cache changed under a query | `ChatQueries`, `ConversationCache` |
| profile life cycle (`services/auth_storage.py`, `services/auth.py`, `services/profiles.py`, `cli/main.py`) | login directory, browser directory, default in `config.toml` | login, refresh, check, rename, delete, switch, config set | three places without a common lock, roll-back of a rename | `ProfileNames`, in part |
| browser logins (`utils/cdp.py`, `core/cdp_transport.py`, `cli/main.py`) | browsers, ports, `chrome-port-map.json`, recovery lock | login, headless refresh, page transport, sweep of stale browsers | ports looked up and used at different times, a map without a lock | `BrowserLogins`, in part |
| connecting AI tools (`cli/commands/setup.py`, `cli/commands/setup_wizard.py`, `cli/setup_safety.py`) | the tool's configuration file, backups | add, repair, rename, remove, one tool or all | the tool writes its file too; its command line times out; Ctrl-C | `ClientSetup`, in part |
| sources (`core/sources.py`, `services/sources.py`) | sources of a notebook, request format found to work | add one or many, upload, wait, delete | ambiguous answers, two formats, reconciliation by polling | `SourceAdding`, in part |
| research (`core/research.py`, `services/research.py`) | tasks of the service | start, poll, import | ids that change, guesses, imports that time out | `Research`, in part |
| studio artifacts (`core/studio.py`, `services/studio.py`) | artifacts and mind maps | create, revise, delete | lost creations, deletion in two ways | `StudioArtifacts`, in part |
| interactive report elements (`services/interactive_reports.py`) | status and options of elements, a lock of each | generate one or many, reconcile | a kickoff whose answer is lost and which is executed late | `ReportElements` |
| pipelines (`services/pipeline.py`) and the worker threads of the MCP server | the step of a run | run step by step | source and artifact of one run, beside other calls | `NotebookWork`, which composes the four above |
| downloads (`services/downloads.py`, `core/download.py`) | directory, temporary files | download one, all | crashes, full disks, equal titles, 404s of fresh URLs | `Downloads`, in part |

Components interact through the file system (several processes: command line, MCP
servers, setup), through the profile's inter-process lock where it is taken, through the
remote service, and inside one process through module-level tables guarded by thread
locks. Every load of a profile first reconciles the operation that an earlier process
left unfinished, then reads.

What makes each part correct: the storage never loses or resurrects a login, in either
mode, whatever crashes; an interrupted operation ends; a client never overwrites a newer
login with its own refresh; reads through caches return what was stored while they ran;
one call makes a bounded number of requests and of browser launches; a query, an
element, a source is started once; what a call reports is so; a profile's login, its
browser and its name stay together; the user's settings in another tool's file survive.

## Modules

`CredentialDisk` is the data of one profile on disk and the pure reads of it.
A login is its version number (cookies of version `c`, tokens of version `t`), so
"canonically equal" is equality of two small records and "newer" is an order. A
ciphertext is a login plus one bit: was it sealed under the key that the keystore
holds now. The quarantine directory of each migration is kept apart by a number.

`StorageMigration` is the state machine. `disk` is what survives a crash; `pc` and
`job` are the program counter and the locals of the process holding the profile lock;
`pending` is what `set_storage_mode` decided without the lock. Each action is one file
operation or one keystore call of the code, in the order of the code:

| actions | code |
|---|---|
| `WriteMark` .. `WriteClear`, `DeleteMark` .. `DeleteClear` | `CredentialStore.write_credentials`, `delete_credentials` |
| `DecideSwitch`, `DecideTidy`, `TidyUnlink`, `TidyKey`, `GiveUp` | `set_storage_mode`, before and without the lock |
| `StartProtect`, `ProtectNothing`, `Protect*`, `DiscardAside`, `DropCreatedEnc`, `Restore`, `Clear` | `migrate_profile_to_protected` and its `except` branch |
| `StartUnprotect`, `Unprotect*` | `migrate_profile_to_file` |
| `StartRecover`, `Finish*`, `Adopt*`, `RevertMode` (and `Restore`, `DiscardAside`, `DropCreatedEnc`) | `reconcile_pending_operations` |
| `StartSave`, `Save*`, `Saved` | `save_profile` ("login"), `save_tokens_to_cache` ("save") |
| `ResolveProtected`, `ResolveFile`, `DiscardInaccessible`, `ClearMarker`, `Resolve*` | `resolve_storage_conflict` |
| `KeystoreRefuses`, `KeystoreTimesOut`, `DiskFault`, `Crash` | exceptions, `suppress` blocks, a process killed |

The migrations call `write_credentials` and `delete_credentials`; so do their steps
here: `Then` and `AfterWrite`/`AfterDelete` are the return addresses, `Raised` is where
an exception is caught. The one file `operations/<profile>.json` is shared by the
migrations and by the store, as in the code; this sharing is behind one of the findings.

`acked` and `spent` are ghosts: the login a user may rely on (the last one whose save
returned, or the one chosen in a conflict), and how much of each bound is used up.

`MCStorageMigration` instantiates it for TLC. `StorageMigrationProofs` holds the proofs.
The operators named `Mutant...` are not part of the specification: each is a plausible
bug in the definition that follows it, kept to test that a property can fail.

Abstractions. One profile is modelled: different profiles share only the root mirror of
the default profile (`IsDefault`) and the installation's identity. Every save has new
cookies, so the shortcut of `save_profile` for unchanged secrets does not arise. A file
replaced atomically (`os.replace`) is one step. A corrupt file, a symlink, a
`NLM_AUTH_STORAGE` override and a failed installation check end a command before it
changes anything and are left out. Plain reads take the lock only for a moment and are
the function `Loaded`. The metadata that is not secret is left out.

`RecoveryBudget` is `core/auth_recovery_budget.py`: threads of one process that call
`run_automatic_recovery` for one profile. `budget` and `inflight` are the profile's
entries of the two dictionaries, `attempts` the `_Attempt` objects ever made (with their
revision and time as ghosts). Each critical section is one action: `Join`, `Declined` and
`Own` are the first one, `Attempted` is `recover()` returning or raising, `Finish` the
`finally` block, `Woken` and `WaitTimesOut` the two ends of a wait. `asked` and `got` are
ghosts that relate the tokens a call returns to the time it began.

`RpcRecovery` is `_call_rpc` over HTTP. The function calls itself from its retries and
from its recovery layers; all these calls but one are in tail position, so the call of a
thread is one record: the arguments of the present frame (`retry`, `deep`, `tries`,
`replay`), and `guarded`, whether an outer frame stands in the `try` of layer 1 and will
catch what the inner one raises.

| operators | code |
|---|---|
| `Post`, `AfterAnswer`, `Retried`, `Limit` | the POST and the `except` clauses with their retries |
| `Raise`, `Unreachable` | the `except` clause of layer 1 and `_is_unreachable_failure` |
| `Fetch`, `Extract` | `_refresh_auth_tokens`, up to and from `_state_lock` |
| `WriteBack`, `MaySave`, `Stale` | `_update_cached_tokens`, `save_tokens_to_cache` |
| `Load`, `Refused`, `Launch`, `Browser*` | layers 2 and 3: `_try_reload_or_headless_auth`, `run_headless_auth` |
| `Reported` | `start_artifact_generation`, which forbids replays |
| `OtherLogin`, `OtherRefresh` | another process with the same profile |
| `CookiesExpire`, `TokensExpire` | the remote service |

The client object is shared by the threads and has no lock around a recovery: `cookies`,
page token, the cookies in the open `httpx.Client` and `_auth_revision` change at
different steps. Logins are numbers in the order they were made. Contents of requests,
backoff delays and logging are left out; so are the CDP transport, authentication from
the environment, and the sharing of one browser by threads, which is `RecoveryBudget`.

`CredentialReads` is `get_client`, `load_profile` and `read_credentials` in the threads
of one process, on one protected profile, beside operations (of any process) that write
and delete it under the profile's lock. A version is a state of the store, and an
envelope's revision is the version of its write. A read goes through `Look` (fast path),
`ReadRevision`, `LookUp`, then `Own` or `Join`, `Decrypt`/`DecryptFails`/
`CompleteDeletion` under the lock, `Store`, `Finish`; a waiter leaves by `Woken` or
`WaitTimesOut` and then decrypts on its own. `Install` and `ResetClient` are the shared
client. `AtomicReads` is the promise: a read is two moments, and returns a version that
was current between them, or nothing.

`ChatQueries` is `query_start`, `query_status`, their workers and synchronous queries over
`ConversationCache`. A slot is a query id (used again when nothing of it is left); time is
what is left of each interval, and `Tick` makes it pass. `Start`, `StartFails`,
`StartWorker`, `Poll` sweep the table first, as every call does (`Swept`); `Answer`,
`Elsewhere`, `Move`, `Remember`, `Report` are a worker between the answer of the service
and its entry; `MoveRaises` is the `KeyError` of `conversation.py:561`. A turn is the
conversation in which the service said it answered.

`Downloads` is a directory, the service's listing and commands that download: `StartAll`
and `StartOne`, per artifact `Skip`/`Choose`, `Select*`, `Receive*`/`NotFound`/`Replace`
for what is streamed and `SelectText`/`WriteText`/`WriteFails` for what is written in
place, and `Crash`. A file is whose it is and whether it is whole.

`SourceAdding`, `Research`, `StudioArtifacts` and `ReportElements` are one notebook as the
service keeps it, and what the threads of one process ask of it. The record of a thread
(`adding`, `research`, `making`, `batch`) is where its call stands. A request has three
outcomes throughout: answered, refused, or lost, and a lost one may have been executed
(a kickoff or a request for an element's options even later: `flying`, `setting`). The answer
of a mind map's deletion says nothing, because the code does not look at it: `Unmap` and
`Untime` go on whether or not the service has done what was asked.

| module | actions | code |
|---|---|---|
| `SourceAdding` | `Add`, `Choose`, `PostAnswered`, `PostAmbiguous`, `PostLost` | `add_url_source`, `add_url_sources`, `add_text_source`, `add_drive_source`: formats, `INVALID_ARGUMENT`, lost answers |
| | `PostReplayed` (`ResearchReplayed`, `MakeReplayed` in the others) | `_call_rpc` sending a request again after a 429 or 5xx, although it may have been executed (`core/base.py:1080`) |
| | `Match`, `NoMatch`, `PollFails`, `Record` | `_reconcile_source` and `_source_rpc_version` |
| | `Upload`, `UploadFails`; `Ready`, `ProcessingFailed`, `WaitTimesOut`; `StartDeletion`, `Delete`, `DeletionFails` | `add_file`; `wait_for_source_ready`; `delete_source(s)` |
| `Research` | `Start`, `Check`, `Started`, `StartFails`; `Poll`, `PollFails` with `Polled` | `start_research`; `poll_research` with its choice by id, by query, or of what there is |
| | `Look`, `Snapshot`, `ImportAnswered`, `ImportFails`, `ImportPending`, `Appeared` | `import_research`: poll, listing before, request, listing after a timeout |
| `StudioArtifacts` | `Create`, `Resolve*`, `Created`, `CreateRejected`, `CreateLost`, `Generate`, `Save`, `StartRevise`, `Revise` | `create_artifact` with `_get_all_source_ids`; mind maps in two requests; `revise_artifact` |
| | `StartDelete`, `Delete`, `DeleteFails`, `ListMaps`, `Unmap`, `Untime`, `MapDeletionFails` | `delete_studio_artifact`, `delete_mind_map` |
| `ReportElements` | `Generate`; `PassOver`, `Lock`, `LockBusy`, `Check`, `SetFields`, `FieldsLost`, `Kickoff*`, `Fails`, `Reconcile*`, `Finish` | `prepare_element_plan`; `execute_element_plan` with `_element_lock`, `start_artifact_generation`, `_reconcile` |
| | `Arrives`, `Vanishes`, `FieldsArrive` | the service: a kickoff, or a request for options, that is executed late |

`NotebookWork` composes the four: a worker thread of the server runs one call at a time,
on a shared client and notebook, or a pipeline (`StartsPipeline`, `StartsMultiFormat`,
`NextStep`, `PipelineEnds`) whose steps are such calls.

`ClientSetup` is one tool's configuration file as a set of settings and of entries of
ours, under the current name or an old one, with or without settings of the user's own.
`tool` is one of five kinds: files that we edit, the desktop application (which saves what
it read when it started), Claude Code (its own command line), Codex (a TOML file and a
command line), OpenCode (a file with `experimental.mcp_timeout`, one setting that both the
user and we write: `Custom` or `Default`, never both; `WithTimeout` adds ours where there is
none, `Removed` takes either along with the last server). `Offer`, `RunAll`, `RunAdd`, `RunRemove`, `RunSkips` are the flows over
many tools (`setup add all`, `remove all`, the wizard's lists), seen from the tool that is
modelled; `Read*`, `Backup`, `Replace`, `WriteFails` an edit of the file; `Ask`, `AddIt`,
`AddFails`, `RemoveIt`, `RemoveTimesOut`, `Verify` the command line; `Interrupt` is Ctrl-C.

`BrowserLogins` is browsers (started, listening, deaf because their port was taken, gone),
the map file, and commands: `Clear`, `Sweep`, `Probe`, `Kill`, `Lock`, `Find`,
`LaunchBrowser`, `Answered`, `SignedIn`, `Save`, `Mismatch`, `Close`. `Writes` is a
read-modify-write of the map without a lock: what others wrote in between may be lost. The
sweep reads the map once (`Sweep`), then asks each port (`Probe`) and kills the process it
had read (`Kill`), other commands and browsers going on in between. A browser that listens
may still fail to answer in time (`Slow`), in the sweep and in every lookup. When the
conventional ports are taken, a login or refresh gets another one from the system, a
transport none (`NewPorts`).

`ProfileNames` is every command on the names of profiles: `MoveBrowser`, `MoveAuth`,
`FollowDefault` and their roll-back `UndoAuth`, `UndoBrowser` are `rename_profile`;
`Browse`, `Mismatch`, `SaveLogin`, `SaveFails` a login; `Extract`, `SaveRefresh` the
headless refresh; `CheckSaves` and `HttpSaves` what a check and an HTTP refresh write
back. An account stands for everything that a login of it contains. `snap` says that the
installed browser is a snap package: its directories lie where a rename neither looks
(`Seen`) nor moves anything; each name has one browser directory in either place.

## Runs

| run | instance | shows |
|---|---|---|
| `storage_safety` | 2 logins, 1 migration with 2 crashes or 2 with 1, 1 refused file operation, all commands | with one kind of failure (any crashes, or one refused file operation) a login the user relies on is always still readable somewhere (`SurvivesOneKind`) and a quarantine is removed only when its login is kept elsewhere (`DiscardsOnlyCopies`); a committed migration's ciphertext holds what its marker says (`CommittedMeansSealed`); a refused operation brings no superseded login back (`NeverServesStale`); all as long as no switch acts on an outdated check. Key and ciphertext always match (`KeyOpensCiphertext`); without crash and refusal a load returns exactly the newest login (`ServesNewestLogin`) and protected mode has no plaintext (`NoPlaintextWhenProtected`), although any command may run between a decision and the switch it decided |
| `storage_recovery` | 2 logins, 1 migration, 1 crash, 1 refusal, all commands, fairness | an unfinished operation ends (`UnfinishedIsResolved`) |
| `login_lost_in_rollback` | 1 migration, 1 crash, 1 refusal | the first of the findings below, as a counterexample |
| `recovery_budget` | 3 threads, 2 revisions, cooldown 2, limit 2, clock to 5, 3 launches, fairness | one browser at a time (`OneBrowser`), none after the limit (`FailuresCapped`), nobody gets the result of an attempt that was over when he asked (`TokensAreNew`), the slot is always freed (`SlotIsFreed`) |
| `rpc_recovery` | 1 thread, limits 3 and 1, 3 logins, protected mode | one call sends at most 4 rounds of requests and starts at most 2 browsers (`BoundedWork`), repeats nothing that may have been executed (`AmbiguousNeverResent`), and its write-back replaces no newer login (`NewerLoginKept`) |
| `credential_reads` | 2 threads, 3 versions, fairness | `CredentialReads` implements `AtomicReads` (`ReadsAreAtomic`); every load in flight ends (`LoadsEnd`) |
| `chat_queries` | 2 slots, limit 1, retention 1, timeouts 1 and 2, a cache of 2 conversations with 1 turn, one id that the service may choose, fairness | queries within their time never exceed the limit (`RunningBounded`), an outcome can be polled for the whole retention time (`OutcomeKept`), a cached turn was said in the conversation it is filed under (`TurnsBelong`), a hung worker does not keep its place (`PlaceIsFreed`) |
| `downloads` | 2 artifacts of one title (both streamed or both not), 2 processes, 1 retry, 1 poll, fairness | `StreamsAreWhole`; what a command reports as saved is there under the name it reports (`SavedIsOnDisk`); a command ends, although a 404 may never cease (`CommandsEnd`) |
| `notebook_work` | 2 threads, 2 calls or pipelines, one URL, 2 sources (3 where requests are sent again), 1 retry of a request, another client, 2 artifacts, 2 elements, 2 polls or reads | an import is of the task asked for (`ImportsAsked`); a pipeline's artifact is made of the source its first step added (`PipelineUsesSource`); a URL is in the notebook more than once for one call only by a retry of the RPC layer, or in the second format when no poll could show the first copy (`TwiceOnlyUnseen`); elements are generated once, with one call's options, unless a call left them in doubt or a request for those options unanswered (`StartsOnce`, `OwnOptions`) |
| `client_setup` | all five kinds of tools, 2 settings, 2 old names, any file to begin with | what our commands take out of the file is in a backup (`DiscardsOnlyCopies`), settings of others stay (`OthersKept`), a connected tool is not disconnected by adding or repairing (`StaysConnected`) |
| `browser_logins` | 2 commands at a time, 2 profiles, 2 conventional ports and one more, 2 browsers, 3 calls, 1 killed command | another profile's browser is used (`StrangersByRace`) or stopped (`StopsByRace`) only through a port that both were started for, or stopped when it did not answer in time; no headless browser is left by a command that was not killed (`NoHeadlessLeft`) |
| `profile_names` | 2 commands at a time, 2 names, 2 accounts, a snap browser or not, 3 calls, 1 refusal, 1 crash | a name's browser keeps the account of its login, unless a rename found a snap browser there (`MixedByRace`), no profile is moved into another's directory (`BuriedByRace`), the default follows a rename (`DefaultFollows`) |

Bounds that are not named here are named in the modules (`MaxLogins`, `MaxCrashes`, ...)
with a comment. They are enough because:

* Storage: two crashes are a crash and a crash of its recovery; the properties speak of one
  refusal; two logins are the migrated one and one saved after it; two migrations let a
  forgotten quarantine meet a new one. Two crashes and two migrations at once are left out
  (the constraint `FewDisturbances`). The liveness run has one crash, of any holder at any
  step, and whatever it leaves. Keystore failures are never bounded. `IsDefault` is TRUE: it
  only adds a file and the steps that maintain it.
* Budget: two failures and the launch that must not follow are three attempts, four units
  of time let all be made at the cooldown's distance, three threads are an owner, a waiter
  and a newcomer. Calls: the default limits are used as they are; three logins are the
  client's, a newer one, and one that arrives while that is loaded.
* Reads: three versions are the one cached, the one in flight and the one that overtakes
  both. Chat: one place and two slots make the second query wait for the first; the cache
  holds fewer conversations than there are, so that one is evicted.
* `notebook_work` is explored in parts (the constraint `InParts`), because the product of all
  is too large. `ElementsOnly`: elements share no state with the rest; one unanswered request
  for options is what can reach another batch's element late. `ResearchOnly`: research shares
  only the list of sources, to which others add. `SourcesAndArtifacts`: any two calls on
  sources and artifacts, and each pipeline: one that adds a source runs beside what others add
  and a deletion by the other thread. `UrlsOnly`: URLs added one at a time with requests sent
  again; one retry makes a second copy in either format, and three sources are these and
  somebody else's. The parts leave out source retries beside artifacts, and pipelines beside
  another's additions or studio calls; the proofs have no such limits.
* `client_setup` needs no bound but its constants: a command may follow another for ever.
* `profile_names` begins in every state in which logins and browsers agree, which is what
  earlier commands may have left; three calls are two that race and one that meets what
  they left. The same properties held with four calls (6.5 million states).
* `browser_logins`: the refresh has one conventional port of its own to try, so that ports
  run out; the third port is one from the system; two browsers are the one that has a port
  and the one that wants it.

Deadlock is checked wherever the system can always go on. It is switched off in
the runs of `RecoveryBudget`, `NotebookWork`, `BrowserLogins` and `ProfileNames`, whose calls
(and clock) are bounded: the models stop when these are used up. Symmetry is used in the
runs of the last three, none of which has a liveness property, over threads, names or
commands that the model never tells apart.

Fairness is stated where the code has a deadline, never for users, crashes or faults:
storage, for the lock holder (keystore calls have deadlines, file operations return) and,
strongly, for loads of the profile, in some of which the keystore answers; the owner of a
recovery attempt (the headless browser has a deadline, the rest is a `finally` block); the
owner of a credential load (lock and keystore have deadlines), but not the waiters; the
steps of a download (requests have timeouts); the clock and somebody who polls in
`ChatQueries`, but not the workers, which may hang.

Some properties carry an exception because the code does not do better; each is named in
the property, and under "Findings" where it is one: `SurvivesOneKind` and its kin (one kind
of failure, and until a switch acts on an outdated check: `outdated`), `NeverServesStale`
(the old root mirror after a crash), `TwiceOnlyUnseen` (retries of the RPC layer),
`OwnOptions` (unanswered requests), `ImportsAsked` (`missed`), `OthersKept` (OpenCode's
time-out on removal), `SavedIsOnDisk` (two sweeps of one directory), and the `...ByRace`
properties, which say which overlap is needed: at the names of a rename, any.

## Findings

`login_lost_in_rollback`: the `except` branch of `migrate_profile_to_protected` also
runs after the marker says committed; it deletes the ciphertext before the files are
put back. A crash there leaves a marker that makes recovery delete the quarantine.

Met while modelling, without a run of their own (what "is not kept" is stated in its module):

* Storage. "Clean up identical residue" compares and unlinks without the profile lock
  (`services/auth_storage.py:172`), so a login saved in between is deleted.
  `write_credentials` overwrites and clears the migration's own marker
  (`core/credential_store.py:1040`), so for a while nothing names the quarantine
  (`QuarantineIsTracked` in `StorageMigration` is not kept).
* Calls. The `try` of layer 1 encloses the repeated call, so a timeout of a repeated kickoff
  becomes a `TransientBackendError` (`core/base.py:1202`), which is reported as a definite
  failure (`LostKickoffIsUnknown` is not kept; `ReportElements` has it as
  `KickoffMisreported`). With two threads on one client the revision that vouches for the
  cookies may come from the other thread's reload, and an old login then passes the
  compare-and-save (`core/base.py:1359`). Payload and revision of a loaded profile are read
  one after the other (`core/auth.py:626`; `RevisionVouches` is not kept).
* Chat. The limit is of queries within their time, not of threads, as `CHANGELOG.md:103` can
  be read; `move_to_end` of an evicted conversation raises `KeyError`
  (`core/conversation.py:561`), and an answered query is reported as failed
  (`AnswerIsReturned` is not kept).
* Notebook. `_reconcile_source` may take a source of the same URL that somebody else added
  for the one just submitted (`core/sources.py:145`; `FoundIsOwn` is not kept). A request that
  was executed and answered by a 429 or 5xx is sent again by `_call_rpc`, except where
  replays are forbidden (`core/base.py:1080`): sources, research tasks and artifacts may be
  there once more. A request for an element's options that times out may be executed after
  the element was reported as failed (`core/studio.py:1216`). `poll_research` falls back to
  the only task, whatever was asked for (`core/research.py:207`). `delete_studio_artifact`
  and `delete_mind_map` promise "True on success", but neither answer of the second way is
  looked at (`core/studio.py:697-705`), and the errors of the first are passed over: what is
  still there is reported as deleted (`DeletedIsGone` is not kept).
* Setup. `setup remove` takes OpenCode's `mcp_timeout` with the last server, also one of the
  user's own (`cli/commands/setup.py:2047`), which `setup add` leaves alone
  (`tests/cli/test_setup_opencode.py:293`).
* Downloads. Texts are written in place: a full disk or a crash leaves a part of one, which
  `--skip-existing` takes for the whole.
* Browsers and profiles. `_kill_stale_nlm_browsers` says it kills browsers "that are no longer
  responsive" (`utils/cdp.py:1487`). A browser is in the map from its launch on, before it
  listens, so a login kills the one that another login has just started (`OnlyTheDead` is not
  kept); one that listens but is slow is killed too, and `StopsByRace` excepts both. A rename
  refuses a destination that exists, which "belongs to someone else"
  (`services/auth_storage.py:616`), and moves the browser with the login; neither is so for a
  snap browser, whose directory it does not know: p1 renamed to p3, then p2 to p1, gives p2's
  login the browser of p1's account (`PairsByRace` is not kept). A login may be read out of a browser of another profile, when both
  were started for one port (`utils/cdp.py:306`; `SavedIsOwn` is not kept). A check or an
  HTTP-only refresh saves back what it loaded without comparing revisions
  (`services/auth.py:580`): a profile deleted meanwhile comes back, as a file. Deleting a
  profile leaves its browser's directory (`core/auth.py:885`). A login after a mismatch is
  forced (`cli/main.py:899`) and keeps what it then finds. `config set` and `login switch`
  read and write `config.toml` without a lock.

## Proofs

Each proof module EXTENDS the module it is about (`AuthRecoveryProofs` the three modules
of recovery, whose definitions have names of their own). Assumptions are the named ASSUMEs of
the modules (naturals for the bounds, special values outside the sets they are added to,
and, where names are searched or elements planned, finite sets); the one theorem with a
hypothesis of its own, `NewerStays`, is named below.

`StorageMigrationProofs`, for every value of the constants that satisfies the named
assumptions (naturals for the bounds, any set of commands, either value of the flags):

* `TypeCorrect`: `Spec => []TypeOK`. `TypeOK` alone is not inductive, because a rollback
  moves files back from `quar[job.id]`: `TypeInv` adds that a job on its way to such a
  step, and a marker of such a migration, name an existing quarantine. One lemma per
  group of actions; they rest on `Edits` and `Moves` (each write to the disk yields a
  disk) and `Successors` (each return address is a step that the job may reach).
* `KeyAlwaysOpensCiphertext`: `Spec => []KeyOpensCiphertext`. It is inductive given
  `TypeInv`; the lemma `OnlyTheseChangeKeyOrEnvelope` lists what a step can do to the key
  and the envelope.
* `CommittedIsSealed`: `Spec => []CommittedMeansSealed`, with any number of crashes and any
  commands. The strengthening `SealInv` says at which steps a lock holder can find a
  committed marker at all (`HeldSteps`): none of them touches the envelope or the key,
  because every command that does has replaced the marker by its own first, or refused to
  begin. `SealInv` was checked by TLC before it was proved.
* `NoPlaintextLeft` and `NewestIsServed`: `NoPlaintextWhenProtected` and `ServesNewestLogin`. Their invariant `CleanInv` says where the login is at each step
  of each job while nothing has crashed or been refused (`InFiles`, `InCiphertext`, or on
  its way between them), and that every job, whatever the keystore does to it, ends with the
  login in the place of the mode (`Settled`). The clean-up never begins then: nothing is
  left behind that it could find.
* `OneKindOfFailureKeepsTheLogin` (`SurvivesOneKind`), `RefusalsServeNothingOld`
  (`NeverServesStale`) and `QuarantineDiscardsOnlyCopies` (`DiscardsOnlyCopies`), for any
  commands, the unlocked clean-up among them, and however they overtake each other.
  `KeepInv` is `Safe` while there has been one kind of failure only: for each step at which
  a process can be killed, which copy is good, and that the marker leads recovery to it;
  `TidyKept` says which copy remains behind the clean-up. `FreshInv` says that no version is
  newer than the last login and no quarantine newer than the last migration, so each
  migration has an empty one of its own. All were checked by TLC first. The properties, not
  the theorems, stop where the code does: `outdated` becomes true when `set_storage_mode`
  switches or deletes while what it has seen without the lock does not hold any more, and TLC
  refutes survival after that (a login saved between the comparison and the deletion is
  deleted). Commands that run in between and leave what it saw are covered.

`AuthRecoveryProofs` is about recovering a login: `RecoveryBudget`, `RpcRecovery`,
`BrowserLogins`. Of `RecoveryBudget`, for any threads, revisions, cooldown and limit: `SingleBrowser`,
`LaunchesAreSpaced`, `FailuresAreCapped` and `TokensAlwaysNew`, all from one inductive
invariant. Its main parts: `SlotInv` (an attempt is unfinished exactly while it is in
flight), `BudgetInv` (the budget's time and revision are those of the
last attempt) and `StreakInv` (its count is at least the length of the present streak
of failures, which is why the cap holds although only a count is kept).

Of `RpcRecovery`, for any threads, limits and logins and in both modes: `TypeCorrect`,
`WorkIsBounded` and the action property `NeverResent`. The invariant of a call's record,
`Good`, says where a frame may stand before, in and after its recovery (`Staged`), that
the requests so far are at most those of the completed rounds plus the present counter
(`Charged`: 0, S, 2S or 3S for the four rounds, S being the largest limit plus one), how
many browsers the place allows (`Launched`), and that a call not yet ended has heard
nothing ambiguous (`Repeatable`). TLC checked it on the instance of `rpc_recovery` first.

`NewerStays` is `NewerLoginKept` for a client in protected mode that one thread uses
(`Alone`). Its invariant `RevisionInv` is what the compare-and-save rests on: a client that
has the disk's revision has its cookies. The hypothesis is needed because of `_state_lock`'s
extent: the cookies of a fetch are taken back into the client after another thread may have
reloaded it, and it has then the new revision with the old cookies.

Of `BrowserLogins`, for any commands, profiles, ports and bounds: `LoginTypesKept`,
`HeadlessAreClosed` (`NoHeadlessLeft`), `StrangersOnlyByRace` (`StrangersByRace`) and the
action property `StopsOnlyByRace` (`StopsByRace`). The invariant (`LoginIInv`, checked by TLC on
the instance of `browser_logins` first): one browser listens on a port (`OneListens`); the map,
and what a sweep has read of it, names a browser by the port it was started for (`MapInv`);
what a sweep is about to kill was asked there and did not answer, what a command has
launched is of its profile and asked for its port, and what it talks to has listened there
(`Holds`); and who
works in a stranger's browser was outrun to the port (`Outrun`). What happens to browsers
behind a command's back is one relation (`Aged`), which keeps what the others hold. What the
map loses does not matter, because nothing rests on an entry being there.

`CredentialReadsProofs`, for any threads and versions: `TypeCorrect`, `CacheAlwaysRecent` (a
payload is cached under no revision newer than itself), `SingleFlight` (one owner per
revision), and the refinement `ReadsImplementAtomic`: `Spec => Vault!Spec`, where
`Vault` is `AtomicReads` with what each thread has returned. Its invariant says of every
place of a reader that what it has in hand, in the cache entry it will take or in the load
it waits for, is no older than the beginning of its read: a revision is read before the
payload filed under it, and files only move forward, so a late payload errs to the newer
side.

`ChatQueriesProofs`, for any limit, retention, times and conversations: `TypeCorrect`,
`RunningIsBounded`, `OutcomesAreKept`, `CacheIsBounded`, `TurnsAlwaysBelong`. The limit
rests on the invariant that a worker within its time has an entry in progress which
lives at least as long, so that sweeping never forgets a running query; the bounds of the
cache need the library's facts about cardinality.

`ClientSetupProofs`, for any settings, old names, tools and initial files:
`OnlyCopiesDiscarded`, `OthersAlwaysKept`, `NeverDisconnects`, from one invariant. It says
what is settled when a command has read the file and has not yet written: the new content
has all settings that the tool has not written since, but for OpenCode's time-out in a
removal that leaves no server (`KeepsSettings`), the rest is in a backup (`KeepsUncopied`,
`Backed`), and it still connects (`Connects`).

`NotebookWorkProofs`, for any threads, names, elements, polls, reads and calls, has a part
for each part of `NotebookWork`, and lemmas (`ElementSteps`, `OthersArtifacts`,
`SourceSteps`) that the other parts leave it alone:

* Elements: `LocksProtect`, `NeverTwice`, `NeverMixed`. Typing and locks are not enough,
  because a request whose answer was lost may be executed after its call has ended:
  `InFlight` says that a kickoff under way, of an element in no doubt, belongs to a call that
  still reconciles it under its lock; `Chosen` and `Once` say that the options it will find
  are its own, or those of a request for options that got no answer (`strayed`).
* Research: `AskedIsImported`, from what a call knows from its poll to its import (`Asked`).
* Sources: `TwiceOnlyInDoubt`. `Tells` says, place by place, what a call with one URL has
  sent: nothing before the first format (`Before`), at most one source after it, and none
  if a listing has shown all of its sources and not the URL (`Between`), each time not
  counting what the RPC layer has sent again. `Grows` is what any step may do to the
  notebook, and the numbers of the calls keep their sources apart.
* Pipelines: `PipelineTakesIts`. The ids that a call reports were listed (`Knows`), what was
  listed never hides again (`Grows`), so what is listed a step later has them (`Feeds`).

`DownloadsProofs`, for any artifacts, titles, processes and retries: `TypesKept`,
`NeverCorrupted` and `SavedStays` (`SavedIsOnDisk`). What is written in place is not streamed
(`WritesText`), and a stream touches its target only when it replaces it. That a command
finds a free name for each artifact is a matter of counting: the artifacts that are listed
and those that may still appear are at most N, and the numbers that a command has given
away and the artifacts that it has still to do are at most N together, so one of the N + 1
names of a title is free. A report is kept only while its command is alone (`SavedAlone`),
and a command never gives one name to two artifacts.

`ProfileNamesProofs`, for any commands, names, accounts and bounds: `PairsStay`
(`MixedByRace`), `NoneBuried` (`BuriedByRace`) and `DefaultStaysWithALogin`
(`DefaultFollows`). A rename passes through states in which a login and a browser that
belong together have different names, so the invariant says of each of its places what fits
what (`Halfway`, `Joined`), and of a command that is about to save, that what it saves is of
the browser (`Pending`); each may fail only at a name that is raced, or where a rename found
a snap browser (`behind`). One lemma (`Works`) shows that a step that works at some names
leaves the commands elsewhere alone, and has told those that it disturbs. For the default, `DefaultKept` says that commands that choose it come
one at a time, and of each place of a rename where the default's login is (`Chosen`).

Only model-checked: liveness, which the prover does not do. Every other property of a
passing run is stated by a theorem, `NewerLoginKept` for one thread as in its run.
Proved and not run: `LaunchesSpaced`, `OneLoadEach`, `CacheIsRecent`, `CacheBounded`.

## Not modelled

* Command line, printing, MCP registration, skills, documentation output, parsers, data
  types: no state that another actor sees.
* Notes, labels, sharing, exports, usage, notebooks: one request and one decoded answer each.
* Batch and cross-notebook runs: every worker of the pool has a notebook and a result of its
  own; they share only the client, which is `RpcRecovery`.
* Cookie rotation, notices, aliases, tags: small files of their own. An answer to a notice
  can be lost, because `notices.json` is read, changed and written without a lock
  (`core/notices.py:67`).
* Firefox profiles, WSL, browser discovery: reads of another program's files.
* Logins through a browser that somebody else runs (`cli/main.py:731-743`, provider openclaw
  or a `--cdp-url` of the user's): they launch and stop nothing and use no port map; whose
  account is signed in there is up to the user. Logins through Windows Chrome from WSL
  (`cli/main.py:607-729`): it has one fixed port, no entry in the map and no profile
  directory of ours, and is terminated in a `finally`.
* RPC over CDP, the asynchronous client, authentication from the environment; what pages
  show, cookie extraction, the diagnosis of a failed replay.
* Renaming an entry of Claude Code is modelled with `claude mcp add-json` doing what its exit
  code says; the code looks at the file afterwards (`cli/commands/setup.py:884`) and reports
  what it finds there, without changing it.
* A profile has one browser directory, Chrome's; Firefox's beside it is moved and checked by
  a rename in the same way.
* The remote service is modelled by what the code expects of it: a request is executed or
  not, its answer arrives or not, listings may lag.

## Plan

1. An abstract vault (a set of logins, the one that is served) that `StorageMigration`
   implements when nothing crashes between commands.
2. `RpcRecovery` composed with `RecoveryBudget` (threads that share a browser) and with the
   client of `CredentialReads`.
