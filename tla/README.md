# A TLA+ development of the BCC round management system

The British Club Challenge is a paragliding league. Its API (`src/apps/api`, Azure
Functions in TypeScript) runs a *round* from its creation to its scored result: clubs enter
teams, pilots take places, a safety brief is written and frozen, every pilot signs it, the
round is locked, flown, accounted for, scored and completed. There is no database. The whole
state is JSON blobs; the only exclusion is a 30 second lease on a blob and the only atomic
step is the write of one blob. That is what makes the system worth modelling: every rule
relates two or three blobs that cannot be written together.

Paths below are relative to `src/apps/api/src` unless they begin with `src/`.

## The system

| component | its state | modelled in |
| --- | --- | --- |
| round lifecycle: `functions/roundsMutate.ts`, `lib/roundTransitions.ts`, `lib/roundRecord.ts` | `rounds/{id}.json` | `RoundLifecycle` |
| blob leases: `lib/blob.ts`, `lib/blobJson.ts` | leases | in every module |
| round brief: `functions/brief.ts` | `round-briefs/{id}.json` | `RoundLifecycle` |
| sign-to-fly ledger: `functions/signatures*.ts`, `lib/signTofly/` | `signatures/{id}/*` | `RoundLifecycle` |
| roster, self-registration: `functions/teams*.ts`, `functions/round*egistration*.ts` | slots in the round | `RoundLifecycle` |
| PureTrack groups: `functions/puretrack*.ts`, `lib/puretrack*.ts` | `round.pureTrack`, guard, records, puretrack.io | `PureTrackGroups`, `Attempts` |
| brief PDF: `functions/briefPdf.ts`, `lib/briefPdf.ts` | `round.brief.pdf*`, the PDF blob | `BriefPdf`, `Attempts` |
| IGC upload, validation, flights: `functions/igc*.ts`, `functions/flights.ts`, `functions/manualFlight.ts`, `lib/igcValidationJob.ts` | `slot.flight`, IGC blobs, result blobs, paced guard | `Flights` |
| rescoring: `functions/rescore*.ts`, `lib/rescoreJob.ts` | job status, guard | `Rescoring` |
| public index and season results: `lib/recompute.ts` | `rounds.json`, `seasons/*`, `results/*` | `Publication` |
| accounts: `functions/authFunctions.ts`, `admin.ts`, `meProfile.ts`, `lib/accountMutation.ts`, ... | credentials, users, indexes, claims, pilots | `Accounts` (who is who), `Credentials` (passwords, lockout) |
| seasons, clubs, registrations, teams | blobs and their indexes | `Seasons` |
| pilots' clubs in a season: `functions/pilotSeasonClubs.ts`, `lib/pilotClubMap.ts` | pilot documents, map | `Membership` |
| sites, manufacturers, configuration | lists | `Catalogues` |
| sign-to-fly wording: `lib/signTofly/wording.ts` | versions, pointer | `Wording` |
| scoring: `src/packages/scoring` | none | `Scoring` |
| web application: `src/apps/web` | session in local storage, polling page | `WebSession`, `RoundPage` |
| migration: `src/scripts/migrate` | id map, documents, manifest | `Migration` |
| operator scripts | - | in `Flights` (resending jobs, deleting orphans) and `Catalogues` (moving a list) |

Requests and queue jobs of all of these interleave on the same blobs; a round is written by
the lifecycle, the roster, the brief, two attempt workers, uploads, rescoring and reflection,
each in a lease of its own, and each module models the others' writes to what it is about.
`PROJECT.json` lists every component with its sources, its status and what is left out, and
the hazards, each at its line with the properties that cover it.

## How the modules are written

*Transactions.* A read-modify-write that holds one lease is one action guarded by the lease
being free: Azure refuses a write that presents a lapsed lease, so it takes effect at one
point or not at all. Where the code reads before the lease and uses it after, writes without
one, or writes two blobs, each read and write is an action.

*Faults.* Modules other than `RoundLifecycle` have a variable `faults` with `kinds`, a set
chosen at the start from the constant `Worlds`, and `count`. A rarer event (a crash, a lapse,
a refused write, a lost answer, or a rarer request) is an action with the conjunct
`Fault(kind)`: its kind is in the world, and fewer than `MaxFaults` have happened. A `.cfg`
lists the worlds, so that a run covers the combinations that interact without paying for all
at once. A property that is not true under some event says so: `"lapse" \notin world => ...`
leaves the behaviours with that event out and no others. The proofs quantify over every set of
worlds, so that they cover any combination. Constants and operators marked `BOUND` bound a run
and stand for nothing in the code.

*Attempts.* `Attempts` is the abstract promise of work that a queue does for a round: one
attempt is current; one that is ready stays so until cancelled or replaced; one that is over
does not come back; its announcement is made at most once. `BriefPdf` and `PureTrackGroups`
each instantiate it (`A == INSTANCE Attempts WITH ...`) and check and prove `A!Spec`.

*Rest.* No run disables the deadlock check; a module whose bounds can be used up has an action
`AtRest`, enabled only when nothing is under way.

## The modules

**`RoundLifecycle`.** `round` keeps the status, the teams entered, the slot records of each
place in the order of the array, and whether groups are being made; `brief` the version, hash,
material and roster (version 0: no blob); `ledger` the signatures; `checked` and `built` the
sign requests that have passed a read and may use it at any later time; `roundLease`,
`briefLease` and `work` the requests on both blobs. Those go step by step: `Ask*` (unleased
preamble; lock takes its snapshots and its candidate roster here), `AcquireRoundLease`,
`ReadRoundAndBrief` or `Reject`, `WriteBrief`, `WriteRound`, with `LeaseLapses` at any time,
refused and failed writes, lock and unlock restoring the brief they read, retries, `GiveUp`
and `Crash`. `HashOf` is `computeBriefHash`, assumed injective, as the code assumes. An
override takes the path of a pilot's own signature. `createRound` is the initial state.
`MCRoundLifecycle` and `MCRoundMix` are its instances.

**`PureTrackGroups`.** One round's groups. A lock or a coordinator starts an attempt; workers,
one at a time behind a global guard that goes stale, delete the old groups, create new ones,
record each in a blob and commit them; an administrator may delete groups under the same
guard, and takes it over like a worker when it is stale. A host that runs with
`PURETRACK_ENABLED=false` (world "disabled") makes an attempt ready at once: it deletes nothing,
creates nothing and leaves the groups the round names (`Skip`; `skipped` remembers the owners that
did). puretrack.io is external, modelled by what the code asks of it (`live`). It is assumed
that a worker that stalls beyond the guard's limit may go on ("overrun").

**`BriefPdf`.** One round's PDF: start, render, upload (without a lease), commit (with one),
mail, and the poison queue.

**`Flights`.** The flight of one slot: upload, deletion, manual flight, override, revalidation,
change by a coordinator, completion, configuration, reseating; a validation job that waits its
turn behind a guard, calls the FAI server (external), records the result durably and applies it,
writing with the verdict the attempt of its job, not that of the flight (`Judged`); the poison
handler; and two operator scripts, one that sends pending jobs again when no request of that
attempt is on its way (`--older-than-hours`), one that deletes tracks no flight and no upload
under way names.

**`Rescoring`.** The guard, the job's status and the worker that scores for minutes on a copy.
`MCRescoring` instantiates it (`R`) with names of its own, so that `FlightsProofs` can stand on
it and on `Flights`.

**`Publication`.** Creating rounds (with the fallback that writes back the season as first
read), committing and publishing a round's entry, and the recomputation: one pass per host at a
time with a wish for another, a lock per season, the season, the results and the index replaced
one after the other. A round's content is its version; it is complete from version 2.

**`Accounts`** (`MCAccounts`). An account is four blobs, a pilot a blob, a list entry and
claims on addresses. Twelve kinds of request, each as its series of single-blob steps. `torn`
and `lost` record what a crash or an unleased write left behind, so that properties can except
exactly that. `setUserRoles` (world "relink") also writes any `pilotId` it is given, or none, and
leaves the pilots as they are; `relinked` remembers the users. Of its writes only `clubId` is left
out. The web application sends roles and `clubId` only, but the endpoint takes a `pilotId` from any
administrator.

**`Credentials`, `WebSession`, `RoundPage`, `Catalogues`** (`MCServices`). One account's
password, session version, reset links and lockout; one tab's session with its shared renewal;
the page of a round that polls and gives up, and its dialog; the lists of administrators.

**`Seasons`, `Membership`, `Wording`, `Scoring`** (`MCReference`). Which season is active, clubs,
registrations and teams; a pilot's club in a season and its copy in the map; publishing and
signing a wording; and scoring in place against the algorithm it replaced.

`MCServices`, and `MCReference` beside it, put together modules that share no state that another
writes: `topic` says which one a behaviour is of, and the variables of the others stay as they
begin. Composing them truly would only multiply the states. `MCReference` gives some of the modules'
variables other names (`asked` is the `req` of `Seasons`, `change` that of `Membership`).

**`Migration`** (`MCMigration`). Real, resumed and dry runs over a small database of every kind of
row, any of them killed between two uploads, the database edited or the id map lost meanwhile, and
the two audits. Each `SELECT` is a step, so an edit may fall between the rounds, their teams and
their places (a place is the slot of a pilot in a team): a document may have the team scores of
one state and the points of another. The audits look at what the code looks at and no more: the
teams and filled slots that a document has, and the kinds of which the dry run prints a number
(season entries of clubs are not among them). The flights, a fourth `SELECT`, yield no score: each
place is taken to have one. An upload is answered only after the id map is saved: the save is put
off to the next turn of the event loop (`setImmediate`), which comes before any answer.

A `TypeOK` is checked by a run in `RoundLifecycle`; elsewhere it documents the state, and it is
proved where the module has a proofs module.

## Runs

| run | instance | shows |
| --- | --- | --- |
| `lock_races` | 1 pilot, 1 place, 2 materials, 2 versions; one request locks, one edits or brief-completes | a locked or completed round keeps its promises on versions, flags, roster and accounting, with a lapse, failure or crash between any two steps |
| `round_mix` | four smaller instances: edit against freeze, lock against unlock, two pilots in one place, two pilots and two teams | the frozen brief is intact, a lock means signed, the roster is sound, complete is final |
| `unlock_ready` | 1 pilot, one request at a time | *violation*: an unlocked round cannot be brief-completed again |
| `puretrack` | 2 workers, 2 attempts, 1 deletion, 1 group per run, 2 deliveries, 4 worlds | `EchoIsCurrent`, `GroupsAreKnown`, `ImplementsAttempts`, `AttemptsEnd` |
| `brief_pdf` | 2 workers, 2 attempts, 2 deliveries, 2 faults | `ReadyPdfIsCurrent`, `ImplementsAttempts`, `AttemptsEnd` |
| `flights` | 2 workers, 2 pilots in turn, 2 ids, 2 deliveries, 2 faults, 9 worlds | `EgressOnce`, `TracksMatchFlight`, `ScoreIsCurrent`, `LateVerdictIgnored`, `PendingEnds` |
| `rescoring` | 1 slot, 2 jobs, 2 workers, 3 deliveries, 2 faults | `JobsAreSafe`, `JobsEnd` |
| `publication` | 2 hosts, 2 rounds, 3 versions, 5 writes, 1 fault, 7 worlds | `SeasonIsCurrent`, `IndexIsCurrent`, `RecomputeEnds` |
| `accounts` | 3 users and addresses, 2 requests at a time of 3, 11 worlds | `AdminRemains`, `OneAddress`, `MailedLinkWorks`, `PilotsBelong` |
| `reference` | 2 of everything, 3 operations; scores on a grid | `RegistrationsAgree`, `ActivationIsExclusive`, `MapFollowsPilot`, `WordingIsKept`, `ScoresAsLegacy` |
| `services` | 2 of everything; 2 links, 5 visits, 2 calls, 7 steps, 2 polls, 4 list operations | `SignInIsSound`, `PageKeepsWatch`, `CataloguesKeepEdits` |
| `migration` | two rounds with a team and a place each, one row of every other kind, three states of the database; 3 runs, 1 mishap | `ImageIsSound`, `AuditsCatchMixtures` |

*Why the bounds are enough.* The hazards are races of two actors over a document, with a third
event between: so two requests, workers or hosts, two values, two attempts (one to be
replaced), and enough faults for one of them to strike during the recovery from another where
the run can bear it. A signature is stale only if the brief changed: two materials, two versions.
A delivery counts only as far as the limit and one before it: two or three deliveries stand
for the five of the host. Two rounds are enough for a pass to have read one and not the other.
In `migration`, `MaxIds` is above what three runs can hand out. `Scoring` takes numbers as
multiples of 1/100 and counts two flights a team and two rounds a league in place of six.
The theorems need no bound to be small.

### What the properties say, and what they leave out

- `LockedMeansSigned`: in a Locked or Complete round every seated pilot has signed the version
  of the brief and the material it has now. `FrozenBriefIntact`: from brief-complete on, the
  material is that of the hash. `OneMaterialPerVersion`: signatures of one version were given
  to the same material. `FrozenRoundIsTrue`: a set flag is backed by a current signature, none
  is missing after the lock, and a Complete round has everyone accounted for. `RosterIsSound`:
  no pilot has two slots, and a frozen roster has its snapshots. `RosterFixedWhileFrozen`,
  `BriefHistoryLinear`, `CompleteIsFinal`: what no step may do.
- `EchoIsCurrent`: a ready round names groups of its attempt and of its owner; if the owner found
  PureTrack disabled, it names groups of earlier attempts only. `GroupsAreKnown`: they exist, and
  at rest every group at puretrack.io is recorded or named. Left out: a host that dies, or an
  answer lost, between creation and record; an overrun; a group whose record and whose deletion
  both fail; administrators' deletions, lost commits and owners that found PureTrack disabled, for
  existence.
- `ReadyPdfIsCurrent`: the PDF is of the current brief, if the worker's lease lasts through the
  upload. `AttemptsEnd`: every attempt ends, unless the poison handler's write is lost.
- `EgressOnce`: one call at a time; the track of an attempt leaves once, where its result is
  recorded. `TracksMatchFlight`: the flight's track exists and no other is kept. Left out: a
  renewal that fails under a commit, requests that die before their clean-up, `updateFlight`,
  reseating. `ScoreIsCurrent`: a completed round counts its flights as they are, but for manual
  flights and deletions admitted before, and the configuration. `LateVerdictIgnored`: a verdict is
  written with the attempt of its job; none lowers the attempt of a flight, and none revives an
  attempt that was given up. `PendingEnds`: each validation is settled or replaced, if its request
  lived to queue it.
- `JobsAreSafe`: a flight's score is of its own track, and a guard in the way of new jobs is going
  to be released (unless a host dies; then it goes stale).
- `SeasonIsCurrent`, `IndexIsCurrent`: when all is quiet the league, the results and the index
  show the rounds as they are. Left out of the first: passes that fail, give up, skip a round or
  lose their lock, and creations, which write the season without regard to a pass; of the
  second: two requests for one round at once, failed writes and crashes.
- `AdminRemains`, `OneAddress`, `MailedLinkWorks`, `PilotsBelong`: but for the accounts a crash
  left halfway (`torn`) or an unleased write changed back (`lost`). `PilotsBelong` (account and
  pilot name each other; a claim has a pilot) also leaves out, for the first half, users whose
  pilot an administrator set by hand (`relinked`).
- `RegistrationsAgree`: registration, index and teams agree, but for registrations torn by a crash
  or undone by a stale write of the teams shared by all seasons. `ActivationIsExclusive` is of one
  activation at a time. `MapFollowsPilot`: but for pilots whose last request left the map
  `behind`, so that it catches lost updates of the map; all pilots begin with the same club in
  their profile. `WordingIsKept`: what was signed is there, unchanged. `ScoresAsLegacy`: the
  scores are those of the algorithm replaced; divisions by zero are left out.
- `SignInIsSound`: a reset password stays, who is shown as signed in can
  renew. One tab; the 30 days of a refresh token, and a profile read that a sign-out overtakes,
  are left out; a lock ends by time only when no request is under way. `PageKeepsWatch`: the
  page goes on asking or says it gave up. `CataloguesKeepEdits`: no edit is lost; the move is
  run without `--force`, in a maintenance window; a torn site operation is left out.
- `ImageIsSound`, `AuditsCatchMixtures`: a run that ends leaves an exact image of a database that
  stayed as it was, and no row has two documents unless the map was lost. When `validate.mjs`
  passes, the team scores that the documents have are of one state of the database, and so are the
  points: of one each, as they are two `SELECT`s. A document may lack a team that an edit added,
  since what the manifest has beyond the document is not looked at. When `reconcile.mjs` finds no
  anomaly, no document of a kind it counts is of a row the dry run did not find.

### Fairness

Liveness is checked under the fairness the platform gives, and no other: a queue delivers each
message until it is handled or poisoned (`Deliver`, `HandlePoison`, `Bury`), a host runs what it
has started (`Proceeds`, `Computes`, `TaskOf`, `Send`), and leases and guards end (`Lapse`,
`TakeOver`). It is strong where a step waits for a lease or guard that others take again and
again, since the code retries until it gets it, and weak elsewhere. Users, administrators,
scripts and faults owe nothing. `RoundLifecycle`, `Accounts`, `Migration`, `MCReference` and
`MCServices` state safety only.

## Where code and documentation disagree

**An unlocked round cannot be locked again** (`unlock_ready`). `unlockRound` clears the snapshots
"so they are re-taken at next lock", but the next lock needs a brief-complete, and brief-complete
refuses slots that have no snapshot. Only self-registration or a lock sets one.

Other places where the code does less than its words, which the models include and no property
denies (each is a note of a hazard in `PROJECT.json`):

- where PureTrack is disabled, a re-creation is announced as ready with the groups of the attempt
  before it, and they are not deleted;
- `setUserRoles` writes a user's `pilotId` without the pilot's `userId`, so that the two may name
  others (`admin.ts:440-445`);
- an unregistered place has two records (`PlacesUnique` does not hold), and the locked brief may
  name an older roster than the round's: `lockRound` builds it before it holds a lease;
- a flight stays in the slot when its pilot leaves and another takes it;
- `createRound`'s fallback, and a recomputation, can lose a round from its season;
- `createMyPilot` and the plain edit of a pilot write back a record read before;
- `sites.json` is changed without a lease, the teams' list without a lock;
- a publication of a wording that stops before the pointer blocks every later one;
- the map of pilots' clubs is left behind when its lease is taken, and a registration never
  writes it;
- the poison handler of the PDF swallows a failed status write;
- the audits of the migration do not compare a league or index left by an interrupted run, nor do
  they miss a team that a document lacks; the count expected of clubs' entries is the actual one;
- an upload whose lease was not renewed deletes the track that its own commit named; the script
  that sends jobs again passes over flights whose result is already recorded.

## Proofs

Eight modules hold theorems that TLAPS checks, for every number of pilots, places, rounds, hosts,
workers, attempts, faults and every set of worlds. They rest on the named assumptions of the
modules (sentinels are not elements, bounds are numbers, the hash is injective on materials),
which TLC evaluates on every run.

| module | theorems about what runs check | inductive invariant |
| --- | --- | --- |
| `RoundLifecycleProofs` | `TypeCorrect`, `LockIsSafe`, `FrozenBriefStaysIntact`, `VersionsAreUnambiguous`, `CompletionIsFinal`, `FrozenRosterIsFixed`, `BriefHistoryIsLinear`, `FrozenRoundStaysTrue`, `RosterStaysSound` | `IInv`, and `RosterInv` beside it |
| `PureTrackProofs` | `EchoStaysCurrent`, `GroupsStayKnown`, `Refinement` | `Base`, `Owned`, `Kept`, `Tracked` |
| `BriefPdfProofs` | `ReadyPdfStaysCurrent`, `Refinement` | `Sound`, `ArtifactSound` |
| `FlightsProofs` | `EgressStaysOnce`, `TracksStayMatched`, `ScoreStaysCurrent`, `LateVerdictsStayIgnored` (of `Spec`); `JobsStaySafe` (of `R!Spec`) | `IInv` (`Types`, `Names`, `Tracks`, `Scored`, `Egress`); `RescoreTypes`, `ScoreIsItsOwn`, `GuardIsServed` |
| `PublicationProofs` | `SeasonStaysCurrent`, `IndexStaysCurrent` | `Inv` (`Types` to `Indexed`) |
| `AccountsProofs` | `AdminStaysThere`, `EachHasItsAddress`, `TheLinkMailedWorks`, `PilotsBelongTogether` | `Rooting`, and on it `AdminStays`, `Addressed`, `Mailing`, `Staging` and `Belonging` |
| `ServicesProofs` | `SignInStaysSound`, `PageStaysOnWatch`, `CataloguesStayKept` (of `MCSpec`); `RegistrationsStayAgreed`, `ActivationStaysExclusive`, `MapStaysWithPilots`, `WordingStaysKept` (of `ReferenceSpec`) | `PageInv`, `TabInv`, `AccountInv`, `CatalogueInv`; `RegistrationInv`, `ActivationInv`, `MembershipInv`, `WordingInv` |
| `MigrationProofs` | `ImageStaysSound`, `AuditsStaySound` | `MigrationInv` (`RunInv`, `Stored`, `Wrote`, `Kept`) |

Each also proves what it needs of the types. No property is inductive by itself; what has to be
added says why the code is right:

- *Lock.* A lock about to write its round must be known to have checked that very round and
  brief. `LeasesHeld` ties leases to program counters; `BriefFence` and `RoundFence` say what
  cannot have changed while a lease lives; `GatesPassed` what the gates established of the
  documents in memory; `NoFreezeUnderEdit` that an edit with a live brief lease keeps the round
  out of the statuses in which its brief is frozen, even when its round lease has lapsed;
  `SignaturesFollowBrief` that no signature, written or about to be, is ahead of the brief.
- *Roster.* Records are handled by two families of handlers; `RosterInv` holds them together with
  the rosters that requests on both blobs keep in memory. A flag is demoted in the same write
  that freezes a newer brief, and a late reflect compares versions.
- *PureTrack.* `Owned`: tokens are unique, the guard's is the newest, a ready round names groups
  of its owner only, one that is not ready only groups of attempts before its own, and so does one
  that an owner made ready with PureTrack disabled, whose token has been drawn; `Kept`: what the
  owner of the current attempt has made is still there, an owner that claimed the attempt back
  from a newer invocation makes nothing, and the owner of a ready round has nothing left to do but
  give its guard back; `Tracked`: every group has a record, or a worker that is about to record or
  to delete it.
- *PDF.* A worker commits under the round's lease, from the upload to the write of the status; one
  whose attempt is current has read the brief as it is; and what a worker about to write the status
  has uploaded is still in the blob.
- *Flights.* `Names`: ids and attempts in use are not handed out again; `Tracks`: every blob is
  the flight's, or in the hands of a request or a clean-up; `Scored`: of the requests that have
  passed their checks only those are left that look at the status again; `Egress`: the caller holds
  the guard, and an attempt that was sent is remembered by its invocation, by its result, or by a
  flight that waits for it no longer. `LateVerdictsStayIgnored` needs that a verdict lands only in
  the flight of its own attempt: `matchingFlight` is read under the lease that the write presents.
- *Rescoring.* An update carries the id of the flight it scored and looks again under the lease;
  the guard has a request, a message or a worker behind it.
- *Publication.* `Locked`: only the holder of the season's lock is past its wait; `Matching`:
  between the two writes of a pass its table is the league; `Serving`: for each completed round a
  call is pending, or a host has a pass before it, or the round is still unread, or it is in the
  table of the pass, in the league, in the results - in that order; `Indexed`: an entry, or a copy
  of one in a rebuild, that is not current has its request still to come.
- *Services.* Why a pass through each small protocol cannot lose what it read: an edit in progress
  holds the lease of what it read, or its write will be refused; the one renewal that is under
  way is the one that all calls wait for; a link used up is of a version that is past.
- *Accounts.* `Locked`: one request is past the lock of account mutations, so that a check for
  another administrator holds until the demotion or the tombstone it allowed (`AdminStays`).
  `Origins` and `Newcomers`: an account that is not torn has its documents, or is being registered
  by the only request about it. `Addressed`: its entry is the only one, or that of the change
  under way, which still has the record as it is. `Mailing`: the link mailed last is of the
  version of the credentials, or used, and a change about to mail one has that version. For pilots
  there are three layers: `Staging` (an id drawn for a new pilot is known to nobody but its
  request, and what is named, or claimed, is there or being made), `Owning` (a pilot's blob, and
  the copies of it that edits hold, are of nobody but the account it was made for), and `OneEach`:
  of all the pilots that are an account's or are being made for it there is one, held by the claim
  on the address that the record has; while a change of address is about to write that record, by
  what it will write.
- *Seasons.* `Fits`: a request past the lock of a season has it. `Progress`: what it has read
  there is still so, and of document, index and teams it has written those before its place;
  `Agreed`: all others are whole. `ActivationInv`: alone, a request that has read `seasons.json`
  leaves to be closed exactly what is still open of it.
- *Membership.* `Knows`: what was read under a lease still held is as it was. `Follows`: the map
  has the pilot's club, or one that has it is about to write it, and no other club will be written.
- *Wording.* `Chained`: a version names the next only if there is one, and all those before the
  pointer do; `Publishes`: who still has the lease has read the pointer as it is; who lost it is
  stopped by the ETag or repeats what is there already.

- *Migration.* `RunInv`: UUIDs are distinct and kept; rows are read kind by kind in the order of
  the foreign keys, and a row that was read has its UUID or its turn is still to come; a map in
  memory that differs from the one on disk is saved before the loop goes on. `Stored`: a document
  has the UUID its row has on disk, and what it links to has documents. `Wrote`: whatever step of
  the plan a run is past, the documents, indexes, briefs and seasons of that step are what the
  rows read and the map say; they stay so because links are of kinds settled in earlier steps.
  Entries are passed over only in a run during which the database was edited. `Kept`: the scores
  of the manifest are of one state of the database and its points of one, and the rows a dry run
  counted are in the map.

The step lemmas go by kind of step, not by action: each proofs module defines what the steps of one
kind do to the state the invariant is about (an *outline*), shows that every action is of one of
these kinds, and shows for each invariant and each kind that it is kept. `Refinement` theorems show
that initial states map to initial states and every step to a step of `Attempts` or a stutter.

Reasoning about the models changed four of them: `Renders` in `RoundPage` had a `CASE` with
overlapping arms; in `Flights` a job lost by a script was not told from one lost by a request;
`GroupsAreKnown` needed to except a group whose record and whose deletion both fail, which two
faults allow and a run with one could not show. `Accounts` drew the id of a new pilot from among
ids that a record held in memory could still name, which random ids do not allow, and it did not
count as torn a pilot whose claim an overtaken change of address gives away, or that a failed
creation takes back after others have come to know it: with a registration, a new pilot, a change
of address and a failed write together `PilotsBelong` was false, in worlds no run had. The run now
has that one (`{"register", "newPilot", "email", "fail"}`).

*Assumptions.* Those of `Accounts` say that its three sorts of ids are apart, that each user has
an address and an id of a pilot of its own (`adminCreatePilotForUser` derives that id from the
user's), and that the first administrator is registered. `ReferenceAssumption` says that `None` is
no request and no administrator, that clubs entered are clubs, and that the map of a season is no
pilot's document. `MigrationAssumption` says that rows are finite in number and of one kind each,
that the database keeps its foreign keys, kind by kind as `LinksOf` has them, and that each entry
names a club and a season.

*Only model-checked.* Liveness (`AttemptsEnd`, `PendingEnds`, `JobsEnd`, `RecomputeEnds`), as the
provers do not handle fairness or `ENABLED`. `ScoresAsLegacy`: scores are sums over sets and
sorted sequences, and induction over data is out of the provers' reach. Every other invariant
that a run checks is proved.

## Not modelled

Rendering of pages, PDFs and mails; the content of images and tracks; authorisation as such (who
may call an operation is a guard only where it changes with the state); rate limits, which may
refuse any request at its head and so change no property; telemetry; deployment descriptions, load
tests, and the anonymisation of a pilot (`src/scripts/admin/anonymize-pilot.mjs`); fields of a
profile; names of clubs and teams. The check for double booking on one date reads other rounds
without their leases and nothing looks again, so no property is claimed of it.

## What is next

1. `createRound`'s fallback against a recomputation, and the check for double booking, once the
   code says what it promises there: both are hazards no property covers.
2. The anonymisation of a pilot beside `Accounts`, and the administrators' pages beside
   `Catalogues`.
3. The lemmas about `Scoring` that need no induction: what a sum over a set of scores keeps when
   one flight changes.
