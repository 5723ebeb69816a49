# TURAB: a TLA+ verification project

TURAB (`src/src/turab`) is the backend of a property brokerage: FastAPI over PostgreSQL, all state
in tables, every command one audited transaction. A relay (`src/relay/turab_relay`) stands between
Meta's WhatsApp webhook and TURAB. Nothing in the code schedules anything: no worker, no timer, no
queue. What makes it hard is what happens *between* the statements of concurrent transactions over
shared rows (row locks, unlocked reads, snapshots, unique indexes, foreign keys), and retries,
redeliveries, operator passes and failures half-way.

This directory holds TLA+ modules of that behaviour, TLC configurations that check them on small
instances, and TLAPS proofs of the theorems that matter most, for every instance.

    tlc -workers 2 -config CommandBoundary.cfg MCCommandBoundary      # one run
    tlapm CommandBoundaryProofs.tla                                   # one module of proofs

`PROJECT.json` lists the runs, the mutants that show each property can fail, the source lines each
definition stands for, the hazards of the code, and the theorems.

Paths below are relative to the repository; `services/` is `src/turab/services/`.

## 1. Inventory

| Component | State it keeps | Operations | What is hard | What makes it correct |
|---|---|---|---|---|
| Command boundary: `services/command.py`, `idempotency.py`, `concurrency.py`, `db/session.py` | `idempotency_records`, row versions | `run` (five ways), `lookup`, `claim`, `complete`, `check` | retries that overlap their first attempt; snapshots that cannot see what an index refuses; records that expire | a key takes effect once per lifetime; a refusal is never caused by one's own earlier attempt; no lost update; every call is answered |
| Webhook intake: `services/webhooks.py`, `api/routes/webhooks.py` | `webhook_events` | T1 `store`, T2 `run_t2`, `recover` | duplicate and reordered delivery, a crash between T1 and T2, processing that fails after it wrote | no stored event lost or done twice, status only forward, every event final |
| Communication: `communication.py`, `message_interactions.py`, `consent.py` | threads, messages, interactions, consents | staff message, open thread, revoke, backfill | the same message from two sides; a consent revoked while content is archived | one interaction per message; content archived only under consent |
| Relay: `relay/turab_relay` | none: a notification's attempts | classify, forward, answer Meta | deadlines that pass while TURAB works on; one bad element among many | 200 to Meta means stored; in the end all is delivered |
| Property identity: `identity.py` | candidates, aliases | `generate`, `review`, and every writer's alias check | reviews that share a property; writers that check before they lock | decisions are final, no alias of an alias, open work on an alias surfaced |
| Matching review and opportunities: `match_review.py`, `currency.py`, `opportunity_commands.py` | matches' reviews, opportunities | approve, reject, ask, revalidate, share, close | facts that change between a run, a check and a COMMIT; lock order | approve and share only on what is still true; one open opportunity per physical property |
| Matching run: `matching_run.py`, `matching/candidates.py` | runs, matches | snapshot, evaluate, store | two runs of one input; runs against reviews | one match per input; a later run supersedes |
| Request lifecycle: `requests.py`, `freshness.py` | requests, criteria | create, patch, criteria, transition, reconfirm, stale pass | transitions against confirmations and the pass; slots raced for | the documented machine; reactivation only when fresh |
| Offers: `offers.py` | offers, source links | create, patch, transition, reconfirm, link source | a compare-and-set on an unlocked read | a genuine winner and loser; one primary source |
| Property availability: `properties.py` | properties | create, patch, reconfirm, stale pass | pass against confirmation | never marks what was just confirmed |
| Tasks, truth: `tasks.py`, `truth.py` | tasks, observations, claims of fact, resolved values | complete, observe, assert, verify, resolve | evidence that is corrected before the COMMIT; two resolutions of one attribute | completed once, on what it cites; values chained; both resolutions succeed |
| Claims, roles, parties, OTP: `claims.py`, `roles.py`, `parties.py`, `otp.py` | holders, roles, phones, accounts' status | claim, grant, attach, verify | unlocked reads before a write; a provider that cannot be rolled back; a number that two calls create | one holder, who has proved it; one primary phone; the role rule and a suspension stand (an overlap breaks both) |
| Consent, relations: `consent.py`, `relations.py` | grants, bindings, relations with their periods | grant, revoke, bind; create, end, list | a transaction's `now()` is when it began, not when it gets its lock; revocations that overlap | a revocation is kept; relations never overlap |
| Authorization: `auth/`, `api/deps.py` | the contract a process starts from | load and judge the documents; role gate, object check | facts loaded before the transaction that acts on them; an overlay that opens what it should narrow | the package's rights, or less; a decision still right at the COMMIT |
| Read models, leads: `access.py`, `opportunity_views.py`, `public_listing.py`, `timeline.py`, `external_leads.py`, `dto/boundaries.py` | access records, leads | reads under `/me`, of staff, of the public; capture | a read of several statements while the rows change; ids that reveal that something exists | what is shown is the reader's by right, agrees with itself, and is recorded |
| Matching rules: `matching/gates.py`, `criteria.py`, `hard_gate.py`, `rules.py`, `soft.py`, `explain.py` | none | read the criteria, evaluate one property and offer | boundary amounts, unknown facts, retired options | the pre-check refuses exactly what no fact can pass |
| Runs, replay, diagnostics: `matching_run.py`, `reconstruct.py`, `diagnostic_rules.py`, `diagnostic_replay.py` | runs, matches, diagnostics | run, replay, diagnose | stored matches told again after the facts, the clock and the rules have changed | what is stored replays; what a diagnostic says of its matches is true |
| HTTP layer, schema | none of their own | parsing, rendering; indexes and triggers | - | modelled where the services rely on them |

**How they interact.** Every mutating HTTP command is authorised on a session that only
reads, and then goes through `CommandService.run`: one transaction holds the idempotency record, the
service's rows and the audit row. Services meet only
in tables. Four mechanisms order them, and the modules keep them apart: explicit `SELECT ... FOR
UPDATE / SHARE`; the implicit locks of an UPDATE and of a foreign key (`FOR KEY SHARE`); a unique
index that makes an INSERT wait for another transaction; and compare-and-set predicates that
PostgreSQL evaluates again after a wait. Reads take no lock and are several statements, each of
which sees what is committed when it runs; only a matching run and the public list read one
snapshot. The relay and the webhook meet over HTTP with a deadline.

## 2. Modules

| Module | What it is | Composes |
|---|---|---|
| `AtomicCommands` | abstract: every call answered as if alone and at once | |
| `CommandBoundary` | `CommandService.run`, statement by statement | implements `AtomicCommands` |
| `CommandBoundaryProofs` | its theorems | |
| `EventInbox` | abstract: the promise the webhook makes of an event | |
| `WebhookIntake` | T1, T2, recovery, staff messages, consent, backfill | implements `EventInbox` |
| `WebhookIntakeProofs` | its theorems | |
| `RelayDelivery` | the relay's attempts at one notification | extends `WebhookIntake` |
| `RelayDeliveryProofs` | its theorem | extends `WebhookIntakeProofs` |
| `RowLocks` | PostgreSQL's row-lock modes (external) | used by all that follow but matching |
| `PropertyIdentity` | candidates, reviews, aliases and the writers they meet | |
| `PropertyIdentityProofs` | its theorems | |
| `MatchReview` | runs, reviews, opportunities, queues, writers, consolidations | |
| `MatchReviewProofs` | its theorems | |
| `RecordLifecycle` | request, offer and property status and terms, with a clock | |
| `RecordLifecycleProofs` | its theorems | |
| `Contract` | the package, its addenda and its overlay; the policy table | |
| `CommandTxn` | one authorised command per actor: checks, then one transaction | extends `Contract` |
| `Accounts` | accounts, roles, phones, claims of records, commands on them | extends `CommandTxn` |
| `Relations` | relations of parties to properties, and their periods | extends `Accounts` |
| `Evidence` | consents, observations, facts, values, tasks | extends `Relations` |
| `Disclosure` | every read, its fields and its access record; leads | extends `Evidence` |
| `Registry` | the five above at once, with authorization and failures | composes them |
| `RegistryProofs` | its theorems | |
| `MatchingRules` | criteria, gates, eligibility, score: pure operators | |
| `MatchingRuns` | runs of one request over a changing market, diagnostics, replay | extends `MatchingRules` |
| `MatchingRunsProofs` | its theorems | |

Each `MC*` module gives the workloads and starting states, each `.cfg` one run. `Fault_*`
definitions are seeded errors: the definition after each is the code's, and a property has to fail
when the fault takes its place.

**Reading them.** In the command, identity, review, lifecycle and registry modules an actor is
one transaction. A step is one statement that can wait, reads something that is decided on, or commits;
statements that do neither are merged into the next one, because no other transaction can see or
stop what happens between them. What a transaction has written and not committed is kept in
variables of its own (`raising`, `proposed`, `made`, `raised`, the webhook's `plan`) or happens in its last
step. `answer` is what its caller is told.

### CommandBoundary
`pc` follows `run`: lookup, prepare, recheck (`committed_if_any`, in a second transaction), claim
(waits on the unique index: `claimant`), taken (`key_taken`), guard (`concurrency.check`, which
locks the row: `lock`), handle, commit. The five kinds of calls are the ways the services use it;
`run` reads a REPEATABLE READ `snapshot`. A record is named by the call that wrote it, so results
need no contents. `Fail` loses all at any step; `Expire` is `expires_at` passing. Atomicity is
refinement: `Atomic` is `AtomicCommands`'s specification over the same variables.

### WebhookIntake, RelayDelivery
An event is posted, stored (T1), claimed with `FOR UPDATE`, processed in a savepoint, finished; a
failure is recorded as FAILED in the same transaction; `Lose` is a lost connection or a COMMIT that
failed. Message rows, thread rows and consent rows are locked as the statements do; which locks an
actor holds follows from where it stands. `EventInbox` is implemented under a mapping from the
processing status. `RelayDelivery` composes the relay's attempts with it: an attempt posts the
elements in document order, stops at the first that is not answered 200, and its `Timeout` leaves
TURAB's transaction running. `Timeline` is what a party's timeline shows of the messages:
`MessagesConsistent` says that each is on one timeline, once.

### PropertyIdentity
Properties are numbered in the order of their ids, the order in which every transaction locks them.
A review locks its candidate, then its two properties, checks that both are canonical, and on
CONFIRMED_SAME writes the alias with a task per open match or opportunity of it; a generation reads
pairs without locks, locks all of them `FOR SHARE` and reads again. The writers differ by what they
do first: look for an alias (`CheckFirst`) or lock the property (`LockFirst`). Its only locks are the
candidates' and the properties', so `Ends` is about these; the request and the match that a task's
INSERT waits for besides are in `MatchReview`.

### MatchReview
`Program` is the list of statements of a transaction that wait or read, in the code's order; `todo`
is what is left of it, and `CheckStep`, `ReadFacts`, `Snapshot`, `InsertMatch`, `ReadWork`,
`RaiseTask` and `Effect` are what they do. A run inserts its matches one by one, by property, and a
consolidation its tasks one by one, by match: what is still to insert is a set, and each step takes
its first member. `made` and `raised` are what they have inserted and not committed. Facts are
reduced to the class the currency check gives them, and a version tells one writing from another, so
that an approval or a share is judged on what holds when it commits.
`MatchQueue` and `OpportunityQueue` are the lists staff work from; `Queued`, a part of `IInv`, says
that what can be approved or must be followed up is in one of them, with its priority.

### RecordLifecycle
One request, one offer and one property, each with its version trigger, the request's criteria and
the offer's primary sources, and a clock. Three mechanisms meet: lock-then-decide (patch, request
transition, reconfirmations, criteria, source links), compare-and-set (the offer's transition), and
the SKIP LOCKED pass. The decision, the UPDATE, the provenance and the COMMIT are one step, since
the row is locked from the first to the last of them. A PATCH's caller has read the record before
its transaction starts (`seen`), so a stale version is a matter of what ran since. `terms` are the
fields that a CHECK relates (a request's budgets, an offer's expectation and asking price): a
request's PATCH is merged with the row *on the reading session* (`Merges`), before the version
guard, so what the UPDATE may write depends on the guard refusing every row but the one that was
merged. `IInv` says the CHECK is never run into. The refusal of aliases is in `PropertyIdentity`.

### Contract
A *document* is what a release comes with: the frozen package's operations and bodies, the addenda,
and the overlay's corrections, narrowings and added responses. `CorrectionsLoad`, `NarrowingsLoad`,
`AdditionsLoad`, `AddendaStand`, `Founded`, `Matches` are the checks of `auth/contract.py` and of
the start in `app.py`, in conjuncts; `PolicyTable` is what they let through. A document that fails
one has no behaviour, as the process does not start. `Keeps` says what the checks are for: an
operation is open to no role its declaration does not name, a narrowed body admits less and reads
what it admits as before. A missing addendum is not an error: its operations then have no policy,
and a call of one is denied.

### CommandTxn, Accounts, Relations, Evidence, Disclosure, Registry
`CommandTxn` is the frame: an actor has one job; `at` names its next statement, `held` its locks.
`Registry.Authorise` is the routes' reading session: account status, role gate (`CheckRole`),
object check (`Own`), then the first statement of the command (`Start`). Nothing it has read is
locked, so everything may change before the command's own statements; `saw` keeps what it decided
on. `Fail` loses a transaction at any of its steps. What an actor has read without a lock and will
act on is in `saw` (accounts), `view` (evidence) and `target` (reads).

- `Accounts`: `CheckCode`, `MarkControl`, `Activate` are a verification: the provider's check
  consumes the code outside the transaction, the upsert locks the phone, the account is read
  without a lock. `ReadRoles`, `InsertRole` are `grant_role`. `ReadContact` to `LinkPhone` are
  `attach_phone` with the savepoint around the INSERT and the unique indexes. `LockRecord`, `Claim`
  are `claim_record`. `Act` stands for a command on a request, property or offer whose object check
  is one of `auth/loaders.py`. `Suspend` and `Alias` are what happens beside: SQL, an identity review.
- `Relations`: `began` is `now()`, the instant of the transaction's first statement, and `clock`
  moves on while it waits. The exclusion constraint is `Colliding`.
- `Evidence`: one sub-machine per command of consents, truth and tasks; `Amend` is a correction of
  an observation with SQL, against the trigger that protects what is cited.
- `Disclosure`: each statement of a read is a step, so rows change in between. `Loaded` are the
  columns a loader selects and `CustomerView`, `InternalView`, `PublicView` the fields of the three
  audiences' types; what is shown is in `sight`, what was recorded of it in `trail`. `Change`
  stands for the four commands, of other modules, that change what is shown (`MovesOffer`,
  `ConfirmsAvailability`, `PatchesArea`, `SharesIt`), without those modules' refusals: more happens
  beside a read than can.

### MatchingRules, MatchingRuns
`MatchingRules` has the rules in the version a new evaluation uses: reading a request's columns and
criteria rows, `CanPass` (the pre-check), the four gates, the precedence of eligibility, the soft
score, the next action. A snapshot is a record; a criterion's value is the set it names or a number.
`MatchingRuns` runs them: a run reads one snapshot of the database, so it is one step; `InputHash`
is the record of what the hash covers, and `Same` decides whether a match is stored again. The
market's facts, bindings, the clock and the release of the code change between runs. The rules that
a release no longer selects, the loading of the active policy and a policy's refusal are left out;
runs that overlap other commands are in `MatchReview`. The code refuses every RENT request, and so
does the model.

## 3. Runs: what is checked

| Run | Checks | Instance |
|---|---|---|
| `command_boundary` | `IInv`, `AtMostOncePerKey`, `NoLostUpdate`, `Atomic` (refinement), `Answered` (liveness) | 3 calls, 2 keys, 2 bodies, every legal mix of kinds that shares a key or a row, 2 expiries |
| `webhook_intake` | `MessagesConsistent`, `ArchivedUnderConsent`, `StatusOnlyForward`, `KeepsInbox` (refinement), `EventuallyFinal` (liveness) | 5 worlds of 3 or 4 concurrent actors, 3 deliveries or commands, 1 failure |
| `relay_delivery` | `DeliveredMeansStored`, `EventuallyDelivered` (liveness) | 3 attempts at a notification with a readable, an unreadable or an oversize element, 2 failures |
| `relay_order` | `DocumentOrder`: **violated** (finding) | 2 attempts, 1 deadline |
| `property_identity` | `IInv`, `DecidedOnce`, `ProposedAsIs`, `WorkSurfaced`, `LockedWritesCanonical`, `Ends` (liveness) | 3 transactions, 3 properties, 3 starting states |
| `alias_write` | `NewWritesCanonical`: **violated** (finding) | one review, one new offer |
| `match_review` | `IInv`, `DuplicateNamed`, `CommandsNeverWaitInCircle`, `OneOpenPerPlace`, `ApprovedOnCurrentFacts`, `SharedOnlyWhileConsented`, `Finality` | 3 transactions, 2 properties, up to 7 matches, 6 starting states |
| `review_lock_order` | `NoCircularWait`: **violated** (finding) | an approval, a consolidation, a close |
| `duplicates_named` | `AnyDuplicateNamed`: **violated** (finding) | one consolidation, 3 properties |
| `record_lifecycle` | `IInv`, `DecidedOnWhatItReplaces`, `StatusFollowsMachine`, `PassSparesTheConfirmed`, `PatchSeesEveryChange` | 3 transactions on one of the rows, 3 instants with a window of 1, budgets and expectations on both sides of their CHECK |
| `registry` | `IInv`, `DisclosedByRight`, `AuthorityStands`, `RevocationKept`, `ResolutionsSucceed` | 3 actors; 3 accounts, 2 parties, 3 phones, 1 request, 2 properties, 1 offer, 3 consents, 2 observations, 2 facts, 1 task, 4 relations, 2 opportunities, 2 leads; 7 starting tables; some 1800 documents |
| `matching_rules` | `StoredReplays`, `DiagnosticTrue`, `PreCheckExact` | some 2000 requests over 6 markets, one run in every scope; 2 markets with 2 runs and 2 changes |

`IInv` of `registry` is the conjunction of `OneHolder`, `HoldersProved`, `OnePrimary`,
`PeriodsApart`, `ValuesChained`, `LevelIsStrongest`, `CompletedOnce`, `CitedUnchanged`,
`ContractKept`, the types and the locks. Two of its action properties are stated with the exact
overlap that breaks the simple form, of which no document promises more: *only* an identity review in
between outdates an offer's authorization, and *only* a revocation that had read GRANTED replaces an
earlier one's time. Two more overlaps of rows that are read without a lock are in the model and break
what a docstring promises; they have no property, and are told of under "Observations without a run".

**Why the bounds are enough.** All hazards listed are races between two transactions over one or
two rows; the third actor is there to change what the two decide on (a writer, an expiry, a
failure). Two keys, bodies, slots, sources or threads tell "the same" from "another"; three
properties are the least that makes a chain of aliases or a cycle of pairs. `Days = 1` with three
instants has a confirmation that is fresh, exactly at the window's edge, and stale; the clock runs
between any two statements. `MaxPosts`, `MaxFaults`, `MaxExpired` and `MaxAttempts` bound what the
environment may do, and are large enough that every action and every refusal occurs. In
`RecordLifecycle` an added criterion takes one of the model's free ids, so there must be one; the
actors are interchangeable (symmetry), as no action or property names one and the workloads are
closed under permuting them. In `registry` three actors with the
jobs of one group (people, things, truths) meet in every combination on the base tables. On the
other tables, and for bonds and for readers against writers, every two of a group meet and the third
ends at once, except where a case takes three (a binding against a relation's end and its renewal,
a read against a change and an alias, the public list). The documents vary one overlay entry at a
time, and a few two, as every check is of one entry or of two. In `matching_rules` amounts lie
below, at and above each other within 0..6, each fact is known, unknown, unreadable or retired, and
two changes between two runs tell a changed input from an unchanged one. Its `CHECK_DEADLOCK FALSE`
is there because its behaviours stop at `MaxRuns` and `MaxEdits`.

**Fairness.** Only transactions that can go on are fair (`WF` of the steps of a begun transaction):
PostgreSQL grants a free lock to a waiter, and the code never waits on anything else. Beginning is
not fair: no one has to send a request. `EventuallyFinal` and `EventuallyDelivered` also assume that
an operator runs `recover()` again (the code leaves that to a person, `webhooks.py:399`) and that
Meta redelivers what is not answered 200, up to the bound; failures are bounded, so these say what
holds once they stop.

**Findings.** Four runs show the code doing something else than a comment or document of the
repository says: elements are processed out of document order after a deadline (`relay_order`); a
new offer, relation, claim or match can be written to a property that a concurrent review has just
made an alias (`alias_write`); an identity review and an approval can wait for each other although
the lock order is documented to admit no cycle (`review_lock_order`; PostgreSQL ends one of them,
and the caller sees an error); and a consolidation can leave two open opportunities of one physical
property that no task names together (`duplicates_named`). The passing properties beside them say
what does hold: writers that lock first never write to an alias, commands without a consolidation
never wait in a circle, and the duplicate on the canonical record itself is named.

**Observations without a run.** Modelled as the code does it. Of the first two a docstring says
otherwise; of the rest no text of the repository does, or the effect is confined.

- A login's verification can undo a suspension. `_activate_existing_account` reads the account's
  status without a lock (`otp.py:265-272`) and then activates by the account's id alone (279-286), so
  a suspension that commits between `MarkControl` and `Activate` is overwritten, although
  "`SUSPENDED` and `DISABLED` are left alone, because proving control of a phone must not undo an
  administrative decision" (`otp.py:261-263`). Only an administrator with SQL suspends.
- Two grants can join the two sides of the maker-checker split in one account. `grant_role` reads the
  roles without a lock (`roles.py:46`) and the table's key does not relate two roles, so two
  `InsertRole` that are each judged on what they read both go through, although the service is to
  reject the pair at assignment time and is "the only thing preventing it" (`roles.py:5-9`). What the
  split is about is then denied to the account, as `Anomalous` says.
- A reconfirmation may carry an earlier time than the one it replaces (`requests.py:811`), so
  `db/dev/run_freshness_pass.py`'s remark that reconfirmed requests are by construction not stale
  holds for confirmations dated now.
- The provider consumes a code before the database commits (`otp.py:206`): a failure in between
  loses the verification, and the caller needs a new code.
- A customer's commands on a request need its party to match, while reading it under `/me` needs it
  CLAIMED too. `load_property` looks at the canonical record's claims (`loaders.py:117-122`), so
  consolidating two properties can take an alias's claimant's access away.
- A relation that is created on a property, and a fact that is asserted of one, while a review makes
  it an alias are written to the alias: the finding of `alias_write`, by two other routes.
- Ending a relation without a time means the instant at which the transaction began; when the
  relation was created after that, the end is refused (`EndNotAfterStart`), and succeeds on a retry.
- A caller whose account is not ACTIVATED gets a 401 with no access record. An opportunity's READ
  is recorded before it is rendered. A list's total and its page are two statements.
- `/me/properties` shows availability UNKNOWN, and `/me/requests` no budgets or places, as the
  loaders do not select those columns. The queue of requests (`internal.py:35`) is always empty.
- A property's PATCH answers an unknown location with a validation error; a request's PATCH runs into
  the foreign key instead, and its caller sees a server error.
- A run whose snapshot is older than a consolidation can store a match of a property that is an
  alias by then. No queue shows it and it cannot be approved.
- Where the request states no maximum and the offer has no price, the one high-value unknown
  (`diagnostic_rules.py:29-48`, "the unknown that ALONE stands between the candidate and ELIGIBLE") is
  the budget, and it takes two answers: with the maximum alone the price is still not known.
- The pre-check refuses a row whose value is impossible; the scenarios of a diagnostic are judged at
  the asking price, never at the seller's expectation, which is not told.

## 4. What is proved

TLAPS proves these for every value of the constants (any number of calls, actors, properties,
criteria, any workload), from the named assumptions on the constants only.

**`CommandBoundaryProofs`.** `Invariance`: `Spec => []IInv`. `AtMostOncePerKey` and `NoLostUpdate`
are not inductive: they say nothing of the transaction that has found its key free and not
committed yet. `IInv` adds, for every step of a call, what it holds (its claim, the row) and what it
has found that still stands under it (`StepOK`, `ClaimHeld`, `LockHeld`), and that a record or
snapshot names a call that was applied and stored (`RecordsOK`). From it: `AtMostOnce`,
`LostUpdateFree`, and `Implements`, the refinement of `AtomicCommands`: each step maps to an atomic
one, or changes nothing the abstract specification sees.

**`PropertyIdentityProofs`.** `Invariance`: `NoChains` is not inductive, because it depends on what
a review found before its last lock. `IInv` adds per kind of transaction what it holds and what it
has checked (`ReviewOK`, `GenerateOK`, `WriterOK`, `ProposedOK`), that locks are compatible and
that no two transactions work on one candidate. The argument is the same for each: what I have
checked concerns rows I hold, whoever would change them needs a conflicting mode, so it still holds
when I commit. From it: `DecisionsStand`, `ProposalsCurrent`, `NothingStranded`,
`LockedWritersRefuse`.

**`RecordLifecycleProofs`.** `Invariance`: that no unique index is ever run into, no slot is taken
twice and no offer has two primary sources needs that whoever decides holds its row
(`DecidersHold`), that what it has read is the row as it is (`SeenIsCurrent`), that equal versions
mean equal records, criteria included (`VersionsName`, which is where `_touch_request` matters), and
that a checked slot and cleared primaries stand (`ChecksStand`). From it: `Decided`,
`MachineFollowed`, `PassSpares`, `PatchSees`.

**`RegistryProofs`.** `TypeCorrect` says of every table that it keeps its type, and
of every call that it stands only where a call of its kind can (`Fits`): without that, no other step
of the proof knows which job it is looking at. `RegistrySafe` proves `[]IInv` from a conjunction of
parts, one per mechanism, each of which adds to what the run checks what a command under way has
found and why it still stands:

- `HoldersInv`: who is about to claim has the record locked, and the evidence (a verified login
  phone, linked to the request's party) cannot be taken away, as phones are only ever verified and
  links only added (`ClaimReady`); who is about to link has found the phone, or its place in the
  index (`PhoneReady`).
- `PeriodsInv`: who is about to end a relation has it locked and open (`PartReady`), and a shorter
  period overlaps no more than a longer one (`Shortened`).
- `TasksInv`: who is about to complete has the task and the observation locked, and cites the
  version it read (`CompletionReady`).
- `ValuesInv`: a subject's values are a chain whose last member is open and the latest; who is about
  to resolve has the subject locked and has read that member (`ResolutionReady`).
- `FactsInv`: a level is the maximum of its confirmations.
- the contract never changes, and each document that starts keeps to the package (`RolesKept`,
  `BodiesKept`): a theorem about every document, not about those of the run.

From its parts: `RevocationsKept`, `AuthoritiesStand`
(what a loader found stays true, as claims of properties and records' creators never go away and an
alias never becomes canonical again) and `ResolutionsAllSucceed` (the clock a resolution reads is
later than every value it may meet, and the lock keeps it so).

**`WebhookIntakeProofs`.** `Invariance`: what the run checks says nothing of a transaction that has
read and not committed. `IInv` adds what each actor works on by where it stands (`StepOK`: an event
it has locked is the one in its job), that what it means to write can still be written (`PlanOK`:
archived content is of a thread whose consent holds, because the actor shares the lock a revocation
needs; `OutcomeOK`: the message is still absent, or its status still the one the decision was made
on), that the row locks exclude and a locked event is not final (`LocksOK`), one interaction per
message except for old ones (`InteractionsOK`), and `last_message_at` as the latest of the thread's
messages, reached by one of them (`ClocksOK`; that it *is* the maximum does not follow step by step
without the second half). From it: `Consistency` (each message once, on one timeline), `Consented`,
`Forward`, and `Refinement`: `Init` maps to the inbox's, and each step is an `Accept` (only `Store`
of a new event), a `Complete` (only `Finish` that succeeds, with the message's row in the same step)
or a stutter.

**`RelayDeliveryProofs`.** `Delivered`. An answer of 200 is given at the end of an attempt, long
after the elements it counts were stored, and by connections that other attempts' deadlines have
left running. `RInv` adds, for every attempt, that whatever it has passed is stored (`PassedOK`) and
that the connection it waits for works on *its* element, which is stored once T1 is over or 200 was
answered, and is no other attempt's connection (`WaitOK`). It rests on the webhook's theorem: an
event, once stored, stays (`IInv` and `event` never returning to absent).

**`RegistryProofs`, disclosure.** `Disclosures`. What a read shows is shown at its end, and its
reader's right was checked statements earlier, on rows that change in between. `DisclosedInv` says of
a call that has not ended what its access record already holds and what it has read by the statement
it stands at (`Pending`), and of one that has ended what `DisclosedByRight` asks of it (`Disclosed`),
which later steps of others cannot undo: a claim that entitles is never withdrawn, a conflict that
was recorded stays recorded, and what was shown is no longer looked up.

**`MatchReviewProofs`.** `Invariance`: `Consistent` and `Queued` rest on what open transactions have
found out and not written yet. `IInv` adds `Underway`. For every open transaction, `Current`: each
statement of its program is either still to come or *kept*. A lock is kept when it is held; a check
is kept when the locks it rests on (`Guards`) are held and what it found is still so
(`Established`), and the locks that a statement to come will rest on are held or come before it.
For every run, `Fresh`: what it has inserted has no equal in the table, in another run, or among
what it has still to insert. Each commit is then compared with each other transaction: what it
changes is guarded by a lock that the other holds in a conflicting mode (`Compatible`), so the other
keeps what it found. From it, with `DuplicateNamed`, which is proved by the same induction
(`Named`: a consolidation reads the open work under the property locks that an approval needs, and
keeps them to its COMMIT): `OnePerPlace`, `CurrentFacts`, `Consented`, `Settled`. `World`, a part of
`Constants`, says of a starting state what the schema's indexes enforce, and that no open
opportunity stands on the canonical record of another one's property. That last part is no index of
the schema: it is what `OneOpenPerPlace` preserves and `duplicates_named` shows consolidations to
break, and `DuplicateNamed` is about exactly what they leave; a state with such a pair and no task is
one that no run of these commands reaches.

`NoCircle` is about the same transactions' waits. `Current` says what a transaction still holds,
not what it does not hold, nor where in its program it is; so `IInv` has `LockOrder`: a review, a
command or a writer is after the first n statements of its program and holds the locks among them
and no other (`Reached`), and a run holds and asks for the locks of foreign keys only, a property's
before its offer's, names in a task no match that is ELIGIBLE, and inserts by property
(`KeysOnly`). What a waiting transaction holds then depends on its stage (`Stage`: seven of them
cover every lock statement of every program), and the stages are in an order: one lemma per stage
(`NoneBefore` to `BeforeInsert`) shows that it waits only for stages further on, and a run that
waits to insert waits for a run at a greater property. The order is not that of the programs alone.
A run waits for a match while it has the request, against that order, and no circle comes of it
because an approval that keeps the match has found it ELIGIBLE and the run's is not. Take the last
stage that a deadlocked set has (for inserts, the greatest property, hence the assumption that there
are finitely many): whoever is in it waits for no one in the set.

**`MatchingRunsProofs`.** `Replays` is `[]StoredReplays`. That a match is told again from its rows
does not say that two matches with one hash were decided alike, which the diagnostic's counts need:
they are taken of the run's own evaluations, and what it cites may be older. `IInv` therefore has
`Sound`: every decision a stored match records is the one its own snapshots and instant give, and
its hash covers exactly those, under the digest it is attributed. From equal hashes follow equal
snapshots, from these equal decisions, and the matches cited are as many as the candidates
evaluated, whichever of them are counted, as each is of its own pair. That a criterion is told to
block as its row does needs that the rows read are rows of the request (`RowsTypes`, by the least
row that is not).

`Truthful` is `[]DiagnosticTrue`, in three parts. *Suggestions* (`CitedSuggested`): the next action
is made from the least index of what is missing, or from the reason of least rank, and each of these
gives work the match waits for. *Scenarios* (`CitedScenarios`): keys tell criteria apart
(`KeysDistinct`: of two with one code, the later has more of that code before it), so a near match's
one failure is one criterion, and relaxing by a key changes one result. `RelaxationAdmits` says, code
by code, that a change turns that criterion to PASS exactly for the matches `Turns` lists: by a
number because the shortfall is the difference, with the seller's hidden expectation left out; by a
place because none of those wanted was above the property's, so it passes when the new one is. Each
near match is turned by its own change (`OwnTurns`; the place it is widened to is above its
property's, `WidenedAbove`). *High-value unknowns*
(`CitedHighValue`): the rule of a code reads the facts of that code only (`ReadsOnly`), an answer that
passes exists for every unknown that blocks (`WellRead`, from what an accepted request is), and a
request that states a maximum where it stated none has the same criteria but for that value
(`MaxStated`), so the gates are as before without the one that was not passed.

`PreChecks` is `[]PreCheckExact`, from the same lemmas read backwards: each member of the vocabulary
is some property's or offer's fact (`PossibleIntents`, `PossibleTypes`, `PossiblePlaces`), a fact that
passes is one a readable row names, and a column and a row that name places are passed by one place
exactly when one of the two lies in the other (`BothCheck`; of two places above a third one lies in
the other, `OneWithin`, from the chains' tails).

The proofs share one plan: a lemma for what ending a transaction does, one for the steps that write
no table, one per action, then `Inductive` and the temporal theorem. Assumptions: `PlansAssumption`
and `WorldsAssumption` (workloads are well formed, starting states satisfy what the schema and its
indexes enforce), `NoneAssumption`, `TimeAssumption`, `PropertiesAssumption`; for the intake
`IntakeAssumption` (envelopes are what `parse_envelope` accepts, the messages of before were written
by no event); for the relay that a request of its own is no run of the operator's `recover()`; for
the matching runs `Snapshots` (starting rows and what writers write are of their types: a row's
value under a numeric code is a number or unreadable, an area or a price a number or not known; and
`Values` stand for all there may be: a price of nothing, which the schema allows
(`asking_price_dzd >= 0`), an amount no less than any asked for, every active option, and one since
retired, which properties keep (`can_pass`)) and `Vocabulary` (a location's chain begins with itself
and its tail is the chain of the place above, a counted attribute applies to some type, `None` is no
number and no place); for `MatchReview` its `Constants` (there are finitely many properties, a
binding is on an offer or a property, nothing is consolidated into itself, and `World`); for the
registry `AccountsAssumption`, `RelationsAssumption`, `EvidenceAssumption`, `DisclosureAssumption`
(functions are total on the records, two accounts do not share a login phone, row ids are distinct),
`DocumentsAssumption` (the package names no operation twice) and `StartsAssumption` (starting tables
are of their types and satisfy the schema's indexes and triggers). TLC evaluates all of them.

**Only model-checked.**

- Liveness (`Answered`, `Ends`, `EventuallyFinal`, `EventuallyDelivered`): it needs fairness and
  ENABLED, which the provers do not reach.

## 5. What is left out

- Contents: texts, what a fact's value is, provenance and audit rows (they are written in the same
  transaction as what they describe, so they are there exactly when it is).
- The connection pool. A refusal opens a second connection while the first is held
  (`idempotency.py:292`); with all connections held by such calls, all wait until the pool's
  timeout. It is listed as a hazard without a property.
- Creating and patching a party, thread participants, the detection queries `find_role_anomalies`
  and `parties_sharing`, the normal forms of phone numbers.
- `MatchReview`: freshness that runs out by the clock alone between a check and its COMMIT;
  engagement and interactions; idempotency (in `CommandBoundary`); an offer's permission scope,
  which no service writes after creation; what criteria evaluate to, which is part of a fact's
  class. A serialization failure of a run is `Fail`.
- `RecordLifecycle`: more than one row per table. The pass's order and limit choose which rows it
  takes, never what it does to one.
- `Contract`: YAML, digests and decisions are right or wrong; of the workflow adoptions, the ids only,
  which no other entry may take; a request body has the keywords a narrowing may touch (required,
  default, enum, null, if-then), and one that is written out in its operation, not referred to, is a
  component that only this operation names.
- `Disclosure`: the later statements of staff's read of a request (its criteria and provenance); the
  history that a list of relations may include; pages and order.
- `MatchingRules`: superseded versions of rules, which only a replay of old matches selects; an
  evaluation without an offer, which no route reaches; the texts of explanations.
- The migrations' effect on a database that is in use; rendering and parsing of HTTP.

## 6. Plan

Done, in this order: the command boundary, as every command runs inside it; the event intake and the
relay (delivery and failure); identity, review and lifecycle (interleavings over shared rows);
contract, accounts, relations, evidence and disclosure, composed in the registry (unlocked reads
before writes); matching.

Next:

1. The connection pool composed with `CommandBoundary`, and the diagnostic's one open task per
   subject, which two runs may wait on in different orders.
2. Parties' creation and PATCH, thread participants.
