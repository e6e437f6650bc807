# Verification of the Cuna CLI

TLA+ models of the Cuna CLI (`src/`), the TLC runs that check them on small
instances, and TLAPS proofs of the invariants that matter most. Paths below are
relative to the repository's `src/src/` directory of TypeScript.

## The system

The CLI runs coding agents on a cloud Machine from a local terminal. A command
resolves an account (credentials, sign-in), a Machine and a folder (journey,
machines, binding store), opens a terminal on an AgentSession of the Machine
(terminal runtime, foreground), performs what the Machine asks of this device
(local actions), and for a bound folder keeps one continuous-sync supervisor,
which owns two journals and commits through a coordinator and the HTTP client.

| Part | State it keeps | Hard because |
|---|---|---|
| Sync journal (`sync/journal.ts`) | `metadata.json`, `writer.lease`, `journal.ndjson`, a kernel lock | several processes, crashes between file writes, a lease that expires under its owner |
| Continuous sync (`sync/continuous-sync-supervisor.ts`) | a state file, the folder, volatile request flags | edits, generations, lost answers and process ends interleave with every step |
| Commit coordinator (`sync/workspace-sync-coordinator.ts`) | one checkpoint and lease file per base | an answer lost after it took effect, a lease reclaimed from a dead process |
| Product service (`sync/workspace-sync-product-service.ts`) | none of its own | several state files and checkpoints from which the next run must choose |
| Queue, overlays (`sync/supervisor.ts`, `sync/revisions.ts`) | bounded queues, overlay revisions, conflicts | limits, coalescing, concurrent versions |
| Manifest walk (`workspace/manifest.ts`) | none | files change while they are read |
| Binding store (`workspace/binding-store.ts`, `journey/workspace-effects.ts`) | the folder's record and a writer lock | several runs in one folder, a Machine that publishes or disappears, crashes between image and rename |
| Process lock (`platform/process-lock.ts`) | a socket or pipe | what a crash leaves at the name, two contenders that clear it |
| Terminal client identity (`runtime/terminal-client-identity.ts`) | one record per AgentSession | two terminals on one session, records swept from under a user |
| Daemon (`daemon/`) | lease, command journal, views | a writer that goes on after its lease was taken over |
| Sign-in (`auth/human-session.ts`, `credentials/vault.ts`) | a login code and a bearer, in a file pair and in memory | several processes refresh, sign in and sign out over one file |
| Stored session (`credentials/local-session.ts`) | directory, key, ciphertext, permission fingerprints | a process that ends between creating an object and restricting it |
| HTTP client (`api/`) | none that lasts | a request that may have arrived |
| Journey (`journey/`) | pending operations of a launch | waits, refusals, partial effects, another run in the same folder |
| Machines (`machines/`) | inventory, marks, live update record | mutations racing refreshes |
| Terminal runtime (`runtime/boundary.ts`, `runtime/node-*.ts`) | connection, input queue, output sequence, seat | reconnects, reordered and repeated frames, a seat that changes hands |
| Terminal foreground (`terminal/`) | tabs, questions, echo predictions, viewport | keys typed while the target changes, replies of a retired view |
| Local actions (`local-actions/`) | grants, requests in flight, callback listeners | consent racing cancellation, expiry and replay |
| Named secrets (`named-secrets/`) | the overlay's fields and its operation | a save that may have happened |
| CLI (`cli/`, `commands/`) | the screen between commands | what is shown while something else runs |

What makes them correct, in a sentence each: a journal has one writer, fences
only grow and what was acknowledged is there; nobody's bytes are lost and both
sides come to agree; a lock has one holder and a refusal means somebody is
there; one terminal client per id; a record is replaced only from what its
writer read; a removed session stays removed and a live one is kept; what is
asked of the service once happens once, and doubt is never permission; a key
goes where it was typed and lands once; the screen is what the remote sent; an
outcome told to the person is so.

## Modules

`PROJECT.json` maps the definitions to their lines; a helper or step whose lines
lie within those of definitions listed is not listed again. Names follow the code; what
two modules would both define carries a prefix.

| Module | Models |
|---|---|
| `SyncJournal` | `DurableSyncJournal` and `inspectSyncJournal`, any number of processes |
| `ContinuousSync` | `ContinuousWorkspaceSyncSupervisor`, its commit authority; the person, the Machine and the server |
| `SyncCheckpoint` | the coordinator's `synchronize`, its checkpoint and lease files, several runs |
| `CarriedPaths` | the runs over a folder whose policy excludes paths: which base, which carried entries; in its second section `createWorkspaceManifest` and `hashStableFile` while the folder changes |
| `SyncWatch` | `recoverWorkspaceSync` and the journey's notices over one supervisor's status |
| `SyncQueue` | `BoundedOperationQueue`; in its second section `RevisionOverlayStore`, `ConflictStore` |
| `ProcessLock` | `tryAcquireProcessLock` and `release`, system call by system call, on POSIX and Windows |
| `TerminalClient` | claim, sweep, release and forget of a client identity; extends `ProcessLock` |
| `WorkspaceBinding` | `synchronizeWorkspace` and `persistWorkspaceBinding`, several runs; extends `ProcessLock` |
| `HumanSession` | sign-in service, vault and file pair, several processes and callers |
| `LocalSession` | the encrypted file pair, its permissions and fingerprints on Windows |
| `IntentJournal` | the daemon's lease and command journal |
| `HttpExchange` | one operation of `createCunaApiClient` by its flags: its validation, the capability read before `createMachine`, the admission of its path, and the request of `createHttpTransport` with its retries; in its second section `admitCapability` and the four gates in front of Machine actions |
| `MachineChoice` | the paid creation of a Machine by runs in one folder |
| `ProviderLaunch` | the launch of a provider session; in its second section the readiness wait |
| `MachineCommands` | `machine create` and its follow-up; remote commands with confirmation by reading |
| `LiveUpdate` | `live-supervisor-update` from several invocations |
| `ApiKeys` | `api-key create`, recovery and its clean-up |
| `OwnerGrants` | the observe/share grants screen and its durable operations |
| `MachinesExplorer` | the Machines screen with refreshes, marks and mutations |
| `CliRun` | `runCli`: commands, menus, questions, spinner, sign-in, the journey's `finally` |
| `SessionSwitch` | `runNodeForegroundSessions`: attach, retry, switch, detach, the bar and the roster |
| `TerminalRuntime` | a connection's life: input batches, output frames, seats, reconnects, resume |
| `TerminalWire` | codec and WebSocket connector: chunks, conversions, backpressure, close |
| `OrderedStream` | abstract: what a reader of a connection gets; `TerminalWire` implements it |
| `ExclusiveLock` | abstract: a lock per key with at most one holder; `ProcessLock` implements it over named pipes |
| `Foreground` | the tab coordinator: keys, consents, browser questions, closing |
| `Passthrough` | the raw-mode tunnel: start, stop, restore, detach, observer |
| `PredictiveEcho` | local echo guesses, trust, barrier and rollback; in its second section the emulator's queue of writes, rebinds and replies |
| `LocalActions` | broker and executor: admission, approval, deadline, replay, clean-up |
| `CallbackRelay` | the OAuth callback listener and its streams |
| `SecretOverlay` | the named-secret overlay; in its second section the guard on pasted credentials |
| `Selection` | the pure choice of a Machine, checked through `MachineChoice` |
| `SyncJournalProofs`, `ProcessLockProofs`, … | TLAPS, see Proofs |
| `MC…` | what TLC instantiates, see Runs |

Code that several processes run is modelled with one program counter per
process, split at each `await` behind which another process or callback can
come; what runs between two awaits of the event loop is one action. A network
call is a send, an effect the service may have, and an answer that may be lost,
each its own action. Fault and effort bounds are constants, named in the
configurations.

### The central models

*SyncJournal.* `meta`, `lease` and `log` are the three files; `lock` is the
kernel lock a helper process holds; `pc`, `me`, `mem`, `pend` are what each
process keeps in memory. `open` is `Acquire`, `ReadFence`, `WriteLease`,
`ProveLease`, `StampMetadata`, `Inspect`, `FinishOpen`, with `OpenFails` for its
`catch`. An append is `AppendIntent` or `Transition` (the checks), then
`FinishWrite` or `WriteThrows`. A checksum is modelled by what it determines: the
bodies before the record. `Faults`: `torn` lines, a killed lock `helper`, and
`power` loss, in which files that are only renamed may go back to an earlier
content.

*ContinuousSync.* `folder` and the trees in `hist` map names to bytes; a
manifest root is the tree it determines. `d` is the durable state file, `jr` the
journal's latest state of each pending operation, `ckpt` the checkpoint on each
base; `pc` walks the loop. Every failure goes through `Fails`
(`classifyFailure`). The Machine publishes on top of the newest generation and
keeps its bytes beside the folder's when both edited a path. The feed is read
again after each generation; the code reads it once per pass, and a generation
published in between is taken in by the next pass.

*ProcessLock.* `name[k]` is what the name leads to: nothing, a process's socket,
or a socket file whose process has ended (`Stale`). `lock[p][k].at` is where a
process is in a call. On Windows only `listen`, `held` and `refused` are
reached. `rival` is history: whether another process had or was taking the lock
during the call.

*TerminalClient.* `record[s]` is the file of session `s`, its age reduced to
whether the idle bound has passed; `client[p]` the attachment of `p` and where it
is in `claimTerminalClientIdentity`. An id is minted by counting.

*WorkspaceBinding.* `record` is `.cuna/workspace.json`, reduced to revision,
Machine and generation; `temps` the temporary images; `run[p]` the locals of a
run. `head[m]` is the server's active generation, `held[m]` (history) the last
one of it that the folder has held. The supervisor a run starts is reduced to
`LivePull` and `LiveCommit`: what `ContinuousSync` shows of it.

*HumanSession.* `disk` is the file pair, `family` and `bearer` what the server
knows of login codes and bearers; `mem[p]`, `call[p]`, `flight[p]` are a
process's memory, its callers and its one refresh. A store operation runs under
a kernel lock and is one step, or one in which the process ends or it fails. A
refresh takes the other lock (`FlightLocks`, or is refused it, `FlightRefused`),
reads the store (`FlightRead`), exchanges the login code and stores what it got,
each a step of its own between which other processes act.

*TerminalRuntime.* A connection has an input window, an output sequence, a
viewport being painted, a seat with its fence, an epoch per connection and the
acknowledgements in flight; the remote side is the honest service, which accepts
input by sequence and fence and sends frames in order, repeated after a resume.

*HttpExchange.* `hxWire` is the copies of the request that may still reach the
service, `hxApplied` what it did; the client's decision to retry, renew or give
up is the code's, by operation flags and failure phase. `hxGate` is the capability
read `createMachine` makes before its request: an exchange of its own through the
same steps. Arguments are refused before anything is sent (`Validate`), and so is a
path that holds a query (`AdmitRequest`). A named secret's conflict is decoded and
returned as a value, and its other errors, those of the credential among them, are
of its own type.

*IntentJournal.* A `#persist` is a write, a rename and a directory fsync, each a
step that may fail or be cut short by the end of the daemon. `dmShadow` is the
documents a power loss may bring back: those before the renames that no directory
fsync covers. On Windows that fsync's failure is swallowed, so it never empties
there.

## Runs

Several runs check more than one component. Where components share no state, a
module `MC…` EXTENDS them, a variable `part` names the one a behaviour
exercises, and the others keep still in their initial states: the run explores
the union of the state spaces, and an invariant of the run is a group of
invariants of its parts, each under its part.

| Run | Checks | Bounds |
|---|---|---|
| `SyncJournal` | `TypeOK`, `HistoriesLawful`, `OwnersTakeOver`, `AckedSurvives`; `AckedIntentKept`, `OnlyLatestWriter` of the daemon; `StoresKeep` of checkpoint and stored session | two writers, three opens, three appends, one operation with two intents, torn lines; again with all faults and one intent; two daemon owners in two lives, one call at a time; three lives of the daemon on POSIX and on Windows, power losses in all; three coordinator runs; two processes on the store |
| `Sync` | `BaselineTruth`, `NoEditLost`, `CommitKeepsOthers` | two edits, one Machine generation, one lost request or answer, one process end, two expired leases |
| `SyncLive` | `BothSidesKept`, `AppliesInWhole`, `Converges` | a synchronized and an excluded path, two edits, two Machine generations, fair |
| `LockPosix` | `LockTypeOK`, `BusyIsHonest`, `CallsEnd` | three processes, one key, POSIX, fair |
| `ClientWindows` | `MutualExclusion`, `OneClientPerId`, `SeatsKept`; `ActionsOnce`, `ActionsSettle` | two processes, two sessions, three ids, Windows; two local-action requests |
| `BindingRuns` | `LockIsExclusive`, `NoLostUpdate`, `RecordsTrue`, `RebindOnlyWhenGone` | three runs in two processes, two Machines, three generations in all, two revisions, every fault, Windows |
| `SessionRuns` | `GoneStaysGone`, `ExchangeNeeded`, `LiveSessionKept` | two processes, two calls at a time, two sign-ins, two bearers, one event |
| `Terminal` | `KeysArrive`, `StreamResumes` | two batches, two fences, two epochs, two frames, one fault |
| `Foreground` | `AimedInput`, `ScreensTruthful` | two tabs, one browser question, three keys and faults in exchange; the explorer with two Machines |
| `Requests` | `AskedOnce`, `RefusalsAreTrue`, `ShownIsSo`, `NothingStrays` | sixteen parts, two runs or invocations each |
| `Device` | `SyncIsHonest`, `StreamsEndWell`, `MergesWhatWasSeen`, `WireIsOrderedStream` | eight parts |
| `SyncRacingEdit` | violated `NoEditLost`: an edit during the apply of a generation is lost | |

Why these bounds. Two edits and two generations are the smallest numbers with a
conflict on top of a conflict, a refused commit refused again and a sibling name
already taken; one failure and one end reach every pair of a crash point and a
lost answer. `StaleLimit` and `RetakeLimit` are 2 and 1 (3 and 3 in the code), so
that both limits are reached. `Sync` and `SyncLive` let the person edit at any
moment except between the reading of the folder and the replacement of a file;
`SyncRacingEdit` is that window. Two
longer schedules that lose an edit lie just outside these bounds; they are given
with theirs under Findings. With three contenders two can race to clear the
name a third has just bound. Three client ids are one for each process and one
for a record that grew idle. Three generations are the folder's first, one the
folder may not have seen, and one that would overwrite it; three runs are two
that race and one after them. Two sign-ins are one session and its successor,
two bearers a refused one and its successor. Every component that sends a
request has a second actor, so that one can come between the other's effect and
its answer; each has at least one lost answer and one end of a process.

Deadlock is checked in `LockPosix` and `SessionRuns`. Elsewhere the system may
rest: a folder whose process has ended, a command that is over, a bound used up.

Fairness. `FairSpec` of `ContinuousSync`: the loop's own steps are weakly fair,
since the process runs its loop without waiting for anybody; the interval
reconciliation is strongly fair, since the code compares clocks at the top of
every pass, so it falls due again and again; a start is weakly fair because the
person runs the CLI again. Nothing is assumed of edits, generations or answers.
`LockFairSpec`: a process goes on with a call it is in; nothing makes a caller
try again or a holder release.

Refinement. `OrderedStream` is what a reader of a connection may rely on: the
frames of the wire in their order, each once, then an end or an error, and after
an error nothing. `TerminalWire!WireIsOrderedStream` is the mapping: what is still in
the socket, in conversion and in the queue is the abstract channel. `ExclusiveLock`
is a lock per key with at most one holder; `ProcessLock` implements it over named
pipes (`LockIsExclusive`), and `TerminalClient` inherits it.
## Findings

One run is kept that must be violated. It ends with a file replaced although the
person had changed it since, and no copy beside it, where the help
(`cli/command-help.ts:406`) says that a file is replaced or removed only when the
folder had not changed it.

* `SyncRacingEdit`: `#resumeRemoteApply` reads the folder once and replaces files
  later without looking again (`sync/continuous-sync-supervisor.ts:1014`); a save
  in between is gone.

Two more schedules violate `NoEditLost` in the same module. They need more edits
or failures than the bounds of `Sync`; each takes TLC about half a minute with
`EditDuring = {}`, no expired lease and the constants given here in place of
those of `Sync.cfg`.

* With `MaxEdits = 4`, `MaxFailures = 2`, `MaxMachine = 0`: only the end of an
  apply clears `pending_remote` (line 1001). A commit lands and its answer is lost;
  after another edit it is taken in as a generation of somebody else's, a chunk of
  it is lost, and the loop goes on with `pending_remote` still set; the person
  undoes that edit, and `#reconcile` (1129–1139) adopts the commit without clearing
  it. The next start (556) applies the old generation over whatever was committed
  since, and sets the folder back to it. The baseline is then false too, as soon as
  a second path is involved.
* With `Paths = {"p", "q"}`, `Excluded = {"q"}`, `MaxGen = 4`, `MaxEdits = 3`,
  `MaxEnds = 0`, `MaxPending = 9`: a commit whose answer was lost is taken in as if
  the Machine had made it. A person who undid the change meanwhile has the bytes of
  the baseline again, so the folder counts as unchanged (954) and the undone change
  is made again; the copy that `last_local_commit` provides is not made when a
  Machine generation came between (917).

The other observations below were met while modelling. Each is either a stronger
form of a checked property, kept beside it as a definition TLC violates, or a
race that a history variable excludes from the checked form (named in brackets),
so that the property shows what does hold outside of it.

Synchronisation:

* On POSIX two processes can hold the binding's writer lock: a contender that
  judged a name stale renames away whatever is there by then
  (`workspace/binding-store.ts:804`; `platform/process-lock.ts` has the same
  algorithm). `NoLostUpdate` is checked and proved on Windows.
* A first run that ends after the server took its commit and before its
  checkpoint and record exist makes the next one claim the head as its base and
  replace what the Machine published since (`NoBlindOverwrite`,
  `journey/workspace-effects.ts:562`, against the comment at 545–548).
* A live run that commits a generation and ends before it adopts it makes the next
  run drop the carried paths of that generation (`CarriedPaths!MachineFilesKept`).
* After a lost commit the scan request is spent; the operations are sent again
  only after another edit or a restart (`continuous-sync-supervisor.ts:600`).
* A stop kept by a plain start is overwritten by the same run's interval
  reconciliation (`continuous-sync-supervisor.ts:1100`).
* The coordinator's `#acquireLease` renames away whatever lease is there when it
  judged one stale (434–445) [`skOverrun`].
* `ConflictStore.preview` does not look at the state; the merge's check of the
  expected head is redundant.
* The queue's coalescing may move a write before the delete of a directory that
  waits between.
* With `HELD_NOTICE_LIMIT` lines held, "resumed" is dropped while the agent has
  the screen.
* Two saves within one tick of the file system's clock are not seen by
  `hashStableFile` [`mwBlurred`].
* A process that ends between image and rename leaves an image that only a writer
  removes, and the image makes the next load fail (`binding-store.ts:276`); a
  reader between the two is told of an interrupted update (`:601`).
* A rebind records the new binding's head before the folder holds it
  (`workspace-effects.ts:394`); `RecordsTrue` exempts it.

Sign-in and storage:

* `login` asks for the stored session before the browser and rotates without an
  expected revision: of two overlapping sign-ins the later replaces the session the
  earlier one stored (`auth/human-session.ts:581`, `:701`).
* Revisions start at one again when a session is removed, so a clean-up by revision
  may remove a newer session (`credentials/vault.ts:263`).
* A process that ends between creating the directory, key or session file and
  restricting it leaves it unrepaired (`credentials/local-session.ts:669–736`); an
  empty key fails every later probe; a refused permission after the rename reports
  "could not be replaced" although the new session is in place.
* `sweepIdleRecords` tests a record's age before it takes the record's lock
  (`runtime/terminal-client-identity.ts:215`).

Requests:

* `live-update --forget-unknown` answered "absent" clears a reservation whose POST
  is still in flight; settling is a read and then an unlink; `--resume` dispatches
  although the status could not be read; forgetting an unreadable record may discard
  one completed meanwhile [`luRaced`]. `cli/route-contract.ts` refuses both routes.
* A key found by name after a lost answer may be a sibling's fresh key and is
  revoked (`ApiKeys!RevokesOnlyItsOwn`); "No cleanup is required" can be said before
  the first request lands.
* A paid creation recorded as "sending" by a process that ended before the POST
  stays unresolved, and creation from that folder is refused; a completion computed
  for an older choice can be applied to a newer record (`journey/api-effects.ts:295`).
* `machine create` recovery may create again what was committed
  (`MachineCommands!CommittedNeverAgain`, against `machineCreateUnconfirmed`'s
  comment); "was already X; nothing changed" can be false.
* Several operations without idempotency key keep `automaticRedispatch`
  (`api/client.ts`: transitions, deletes, revokes, renames, cancellations), against
  its comment [`hxMisread`].
* `listExecutionWorkspaces` (`api/client.ts:852`), and `listManagedExecutions` (818)
  with a cursor or a workspace, put their query into the path, which the transport
  refuses as `cuna.internal.invalid_api_path` (`api/http.ts:796`): they never reach
  the service.
* Owner grants: a resent request refused settles although the earlier attempt may
  have applied [`ogMisjudged`]; `SharedIsLatest` and `NothingMeansNothing` are the
  violated stronger forms.
* Secret overlay: `authorityChanged` says "no write sent" also when one was
  answered; "Saved" may be about the earlier of two saves.

Screens and terminals:

* Explorer: a refresh that began before a mutation writes back the row it had
  (`MarkIsTrue`); Enter acts on a selection not painted yet.
* Foreground: a relay consent is routed without the generation check its comment
  claims (`NoBlindConsent`, `terminal/foreground.ts:2602`); a tab whose run failed can
  be announced as running (`DeadNotAnnouncedRunning`); Ctrl+] followed at once by
  Ctrl+C can leave a close waiting; a recovery's wake-up can be lost (1220–1226); 'd'
  after Enter while the browser is still opening makes a decision illegal and stops
  the foreground.
* Passthrough: a key typed after the chord, or in flight when the socket closes while
  leaving, ends the run in an error, against "That teardown edge is expected"; Ctrl+]
  then Ctrl+C leaves the detaching mark set, so a later loss is ignored; a failed
  restore in the cancelled-acquire path is not retried.
* Runtime: an aborted viewport write still applies its frame, and the replayed frame
  is refused as a regression (`terminal/xterm-vte.ts:518`).
* Switch: a failed return to a session that is gone still announces "keeps running".
* Viewport: two attachment changes asked while one waits leave a write under a signal
  nobody aborts [`vtOverlap`].
* Echo: a key typed during the barrier may still be on its way when it lapses
  [`peBlind`, `peLate`].
* CLI: the guided sign-in and sign-up keep repainting under a question
  (`QuestionAlwaysReadable`), a sign-up does not clear the other account's picture
  (`PictureIsAlwaysOurs`); synchronisation notices are not held while a preset is
  chosen.

Local actions and daemon:

* After a lost authority `#run` returns without clean-up, against "Keep registered
  cleanup alive …" (`LocalActions!Released`); an outcome that settles while the
  connection is interrupted is recorded as a failure; a refused replay forgets the
  tab of the admitted request.
* Callback relay: a browser that leaves before the Machine answers leaves the
  completion unsettled until the handle is closed; a request ended while the port is
  being bound keeps listening; refused stream data leaves the stream open.
* Intent journal: with two overlapping calls on one intent the acknowledgement of one
  can be lost; the lease's generations start again with the process, and
  `recordIntent` takes a token's generation without asking `assertWriter`. On Windows
  the failed directory fsync is swallowed and the intent acknowledged
  (`daemon/journal.ts:286–290`), and on POSIX a daemon that ended before its
  directory fsync leaves a renamed document that the next one loads and answers from
  without syncing: a power loss in either case takes back what was acknowledged
  [`dmUndone`].

## Proofs

TLC checks the instances above; TLAPS proves the following for every value of
the constants.

`SyncJournalProofs`, about `SyncJournal`:

* `TypeCorrect`: `Spec => []TypeOK`.
* `FencesGrow`: with no faults but torn lines, `Spec => []FencesIncrease`. The
  property is not inductive: a fence could repeat if a process that stalls
  between reading and stamping a fence came back. The invariant `FenceInv` adds
  that only the lock's holder is past `Acquire` (`OwnerAlone`), that its fence
  is above the metadata until stamped (`FenceAbove`, `FenceStamped`), and that
  the metadata or the lease bounds every fence granted (`GrantedBounded`,
  `GrantedBelow`).
* `JournalReadable`: with no faults, `Spec => []Readable`. `FileInv` adds to
  `FenceInv` that lines are whole, that fences in records are positive, that the
  owner's memory is the file (`Viewed`) and that the record about to be written
  may follow it (`Prepared`). `Readable` has no run of its own: with a failed
  write in the environment the next append reuses a sequence number and the
  file does become unacceptable.

* `AcknowledgedSurvives`: under every fault, `Spec => []AckedSurvives`. `AckInv` is
  about the file alone, so it needs neither the lock nor fences: only the last,
  unsynced line can lack its newline (`OpenIsLast`), and the acknowledged lines
  are among the synced ones or a synced line does not parse, so that no
  inspection succeeds again (`Kept`). The second case does happen: an append
  after a torn one is glued to it and acknowledged.
* `HistoriesFollowTheTable` and `OwnersSeeAcknowledged`: unless the helper can be
  killed, `Spec => []HistoriesLawful` and `Spec => []OwnerSeesAcked`. `HistoryInv`
  adds to `AckInv` that the owner is alone, that its fence is the metadata's from
  the stamp on, that what it sees is complete and of no later fence (`FullView`),
  and that the line it prepares continues its records (`Continues`). With a
  killed helper a stale writer may acknowledge a record that the next owner,
  having inspected before, does not see; that is why the run asks this of torn
  writes and crashes only.

`ContinuousSyncProofs`, about `ContinuousSync`, for any paths, exclusions, limits
and bounds:

* `TrueWhileNext`: `Spec /\ []PendingIsNext => []BaselineTruth`, under every fault
  and every edit. `SyncInv` adds to the truth of the baseline that what is being
  adopted is the next generation (`AdoptsNext`), that a checkpoint marked
  committed names a generation that landed, whatever happened since
  (`CheckpointTruth`), and that the commit in flight is the one its checkpoint
  records. The step that needs the hypothesis is the end of an apply, which puts
  what one generation changed on top of the baseline (`AdoptedIsTree`).
* `HalfTakenInIsNext`: `PendingIsNext` holds as long as no chunk of an incoming
  generation is lost (`[][~ChunkLost]_vars`) and nobody saves while one is applied
  (`"apply" \notin EditDuring`). Its invariant says that a pending generation is
  held over an end of the process only, never while the loop goes on (`HeldOver`).
  Every other request and answer may be lost, the process may end anywhere, leases
  may expire and the Machine may write.
* `BaselineStaysTrue`: hence `[]BaselineTruth` under those two provisos. The first
  cannot be dropped: it is the first of the two schedules under Findings.
* `ExcludedStays`: `Spec => ExcludedUntouched`, with no proviso at all.

`ProcessLockProofs`, about `ProcessLock`:

* `LockTypeCorrect`: `LockSpec => []LockTypeOK`, on both platforms; the second
  attempt of a call is its last.
* `PipesExclude`: on Windows, `LockSpec => []MutualExclusion`. Exclusion is not
  inductive, since a second process could bind a name that does not lead to the
  holder. `PipeInv` adds that the name of a key leads to whoever holds its lock
  and that the places of the socket clean-up are never reached.
* `PipesImplementExclusiveLock`: on Windows, `LockSpec => LockIsExclusive`, that
  is, every step of the sockets is an acquisition, a release, the end of a holder
  or nothing to `ExclusiveLock`. The invariant is `PipeInv`.
* `RefusalsAreHonest`: on both platforms, `LockSpec => []BusyIsHonest`. The
  invariant needed says where the history variable must already be true: after a
  name was found taken by a socket that was not stale (`Trying`), in a second
  attempt (`SecondAttemptInv`: a name that is taken again was taken by a rival
  that has come since), and in a refusal.

`TerminalClientProofs`, about `TerminalClient`, which composes the lock:

* `ClientsUseTheLock`: `Spec => LockSpec`. Claims, sweeps, detaches and crashes
  are steps of the lock or leave it alone, so the theorems of
  `ProcessLockProofs` are theorems about clients; `ClientsLockExclusively` is
  one of them.
* `ClientTypeCorrect`: `Spec => []TypeOK`, on both platforms. `ClientTyped` adds
  how far each place of a claim has come (`InOrder`): its session is known from
  the lock on, its id from the mint on.
* `NoTwoClients`: on Windows, `Spec => []OneClientPerId`. The inductive invariant
  `ClientInv` says that whoever is past the lock holds its session's lock
  (`Locked`), that the record of that session carries the id it uses (`Own`),
  and that two records never carry one id (`Distinct`). It needs exclusion,
  hence the platform; the sweep, which removes records of others, is why
  `Own` must be proved through the lock of the swept session.
* `SeatsAreKept`: on Windows, `Spec => SeatsKept`, from the same invariant.

`WorkspaceBindingProofs`, about `WorkspaceBinding`, which composes the lock too:

* `RunsUseTheLock` and `WritersLockExclusively`, as above.
* `BindingTypeCorrect`: `Spec => []TypeOK`, and `BoundClaimsAreHeld`:
  `Spec => BoundRunsClaimHeld`, on both platforms. `BindInv` is the state
  invariant `StateInv` (what the folder has held and what heads and sync states
  name agree) with, for every run, `RunInv`: what its place says of the record
  it read, the answer it got and the draft it will write. It is preserved by
  other runs since heads, what was held and the Machines gone only grow
  (`Grows`, `StaysInOrder`).
* `UpdatesAreNotLost`, `OnlyGoneMachinesAreLeft` and `RecordsAreTrue`: on Windows,
  `Spec => NoLostUpdate`, `RebindOnlyWhenGone` and `RecordsTrue`. They add
  `WriterInv`: a run between its lock and its rename holds the lock, and the
  record is still the one against which the swap was proved. TLC checked
  `BindInv` and `WriterInv` on the instance of `BindingRuns` before they were
  proved.

`IntentJournalProofs`, about `IntentJournal`, for any callers, owners and intents:

* `LatestWriterOnly`: `DmSpec => []OnlyLatestWriter`. A token is compared by owner,
  generation and expiry only, and generations start anew with each life of the
  daemon. `LeaseInv` says that no token is ahead of what was granted, that of this
  life's tokens only the last has the last generation (`TokensAreOld`), and that a
  lease not released is the one granted last (`LeaseIsLast`).
* `AcknowledgedIntentsKept`: `DmSpec /\ []CallsInTurn => []AckedIntentKept`, on both
  platforms, through failed saves, crashes and power losses, until a power loss has
  undone a rename that the journal counts on and no directory fsync covers
  (`dmUndone`; see Findings for when that is). The invariant says of every document a
  power loss may bring back that it holds what is in memory, or that the journal
  counts on the rename behind it. The proviso is that calls do not
  overlap: `#persist` replaces the journal by the copy its call began with, so that
  the later of two calls under way drops what the earlier one recorded. The run
  has one caller for the same reason.

`HumanSessionProofs`, about `HumanSession`, for any processes, calls, login codes
and bearers, and with no proviso:

* `NoNeedlessExchange`: `Spec => []ExchangeNeeded`. That a refresh is needed is
  known when the store is read, and other processes sign in, sign out, refresh and
  end before the exchange is answered. `ExchangeInv` says that until then the disk
  holds the very envelope that was read or one of another login code: nobody else
  is past the refresh lock (`OneRefreshAtATime`, which the lock gives at once and is
  only a step of the argument), a sign-in stores another code's session, and
  what a sign-out, a clean-up or a crash leaves is nothing.
* `GoneIsGone`:
  `Spec => []GoneStaysGone`; `LiveSessionsAreKept`: `Spec => LiveSessionKept`. All three
  rest on `SessionInv`, which TLC checked on the instance before it was proved
  (1,317,752 states). What was removed could come back through what somebody
  holds in memory, so it says of every holder why it cannot: the envelope on the
  disk, and the one a refresh read, are of a login code the server knows and hold a
  bearer of that code (`Sound`); what a refresh is about to store is of the family
  it read (`FlightInv`) and not forgotten (`NewBearer`); a sign-in's session is
  of a family that nobody but itself holds a bearer of (`NewSession`); a process
  that signs out has no other call, and removes only what its answer or its
  fence is of, a family that is revoked (`LogoutInv`).

`TerminalRuntimeProofs`, about `TerminalRuntime`, for any numbers of keys, attachments,
frames and faults and any window, with no proviso:

* `KeysDoArrive`: `Spec => []KeysArrive`, that is `KeysLandOnce` and
  `CompleteMeansAccepted`. `RuntimeInv` follows a key over its whole way. `KeyInv`
  keeps the order typed at every place where a key can wait: not yet handed over,
  in the send queue, on the wire, accepted; a key is never overtaken by one typed
  after it. `ConnInv` says that only the connection of the entry itself carries
  input, and `ProcInv` that while a replacement waits to be adopted nothing was
  sent on it, its fence is above every key's, and what the reconnected terminal
  had unacknowledged is history. `StoryInv` says what an acknowledgement means as
  long as no input is uncertain: there is an assignment of wire sequences to keys
  such that an unaccepted key is still unacknowledged by the client and on the wire
  behind all sent before it, so that an acknowledgement in flight covers accepted
  keys only. The proviso of `StoryInv` is what `retireInputAcceptance` is for: after
  it, receipts prove nothing and "complete" is never said again.
* `StreamDoesResume`: `Spec => []StreamResumes`, that is type correctness,
  `ScreenIsAView`, `HonestStreamAccepted` and `NothingLeaks`. That an honest host is
  never refused depends on everything still in flight, so `StreamInv`, on top of
  `RuntimeInv`, says of every frame on the stream why the terminal will take it
  when its turn comes, whatever changes before: a notice of the seat is what the
  control plane made of that epoch (`SeatInv`), geometry comes behind the notice
  of its epoch unless that has been seen (`GeometryInv`), receipts come in order
  and are of a retired scope or of input still unacknowledged, and all input
  behind them is of a later sequence (`ReceiptInv`), and of a view the stream
  holds its start, its frames from the first the viewport has not seen, without
  a gap, and its readiness behind the first of all (`ViewInv`, `GatewayInv`). A
  connection that is not adopted yet has carried notices and geometry alone
  (`FreshInv`); the pump of what it replaces is past, and so is the frame the
  viewport may still be applying (`PumpInv`); sockets and requests are the
  entry's or the procedure's at each of its places (`LeakInv`). TLC checked
  `StreamInv` on an instance before it was proved (2,331,073 states).

The proofs assume the `ASSUME`s of the modules named, which every run evaluates:
the platform is one of two, markers are no processes or Machines, bounds are
naturals, one folder is bound. What a theorem needs beyond these is its own
hypothesis (`Platform = "win32"`, or a set of faults), and the run that checks
its property has it. Exclusion is not proved for Unix sockets because it is not
so there (see Findings, two holders), and
what follows from exclusion in `TerminalClientProofs` and
`WorkspaceBindingProofs` is proved where it holds.

Only model-checked, and why:

* what must eventually happen (`CallsEnd`, `Converges` and the like): fairness and
  `ENABLED` are out of the prover's reach;
* what a recursive definition computes for every input, which needs induction
  over data;
* `NoEditLost` of `ContinuousSync`, which is false beyond the bounds of `Sync`
  (see Findings), and with it `BothSidesKept`; `TakenInWhole`, the other half of
  `AppliesInWhole`; and `CommitKeepsOthers`, which needs to be proved from what
  every file of the folder has held since the baseline;
* the invariants of `Foreground` and of the components of `Requests` and `Device`,
  with which the plan goes on.

## Not modelled

Formatting, painting, wording and layout; byte-level decoding; encryption;
directories, links and modes are not told apart from files in the
synchronisation models; chunking and paging; argument parsing; the numbers of
rate windows and back-off. Permission and link checks of the binding store and
the lock's directory are left out, since no step of the model makes them fail.
`Converges` is checked without lost requests and process ends. In
`TerminalRuntime`: `openSync`, `switchActive` and raw streams. In `Foreground`:
selection, scrolling and mouse. In `SessionSwitch`: the provider's
authentication probe. In the manifest walk of `CarriedPaths`: symbolic links and secret detection.
The parts of the system without a module are in `PROJECT.json` with the reason.

## Plan

1. Done: the components of the table, their runs and the proofs above.
2. Next theorems: `CommitKeepsOthers` of `ContinuousSync`; that `TerminalWire` implements
   `OrderedStream`; at most one effect per request of the components in `Requests`.
3. A two-sided replica that `ContinuousSync` implements.
