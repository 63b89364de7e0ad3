# Universta: a verification project

This directory holds TLA+ models of the parts of Universta in which several
actors share state: the sessions of the API and of the tabs of the admin
console, the lead forms with their rate limiter, the editing of leads, the
applications and referrals of students, and the redirects of the public site.
TLC checks the models on small instances, TLAPS proves the main invariants for
every instance.

Every definition is translated from the source of the repository (`src/...` in
`PROJECT.json`, where `map` names the lines each one stands for).

## 1. The system

Three applications share one MySQL database (through Prisma):

* `apps/api` is a NestJS server. It runs as **one process** (systemd unit in
  `docs/deployment/RUNBOOK.md`), so module-level and service-level variables
  are its shared memory, and a handler runs without interruption from one
  `await` to the next. Between two awaits every other handler may run.
* `apps/admin` is a Next.js console with a thin server of its own (a BFF) that
  forwards requests and cookies to the API. The browser keeps the access token
  in memory and shares one refresh promise between callers.
* `apps/web` renders the published content and posts the public forms.

Transactions use the database's default isolation level (REPEATABLE READ):
reads in a transaction see a snapshot and lock nothing, an `update` sees and
locks the row as it is. So *read, decide, write by id* is a race unless the
write repeats the condition.

| Component | State | Operations | Interacts with | What is hard | What makes it correct |
|---|---|---|---|---|---|
| Sessions (`auth.service.ts`) | `users` (lock, counter), `refresh_tokens`, grace audit rows | login, refresh, validate, logout | students' password reset; admin client and BFF | interleaving of read and commit, crash between them, expiry of locks and grace | a session is carried by one credential; a revocation is final; guesses and grace uses are bounded |
| Student accounts (`student-auth.service.ts`) | `password_reset_tokens`, verification tokens, `users` | register, verify, forgot, reset | sessions (revokes them) | a reset racing a login or a refresh | a reset ends every session; no old link changes the password back; both unless requests overlap |
| Rate limiter (`lead-protection.service.ts`) | in-memory `Map`, time of last cleanup | `assertRateLimit`, `cleanup` | public forms | window boundary, full map, restart | bounded admissions, no refusal without cause, bounded map |
| Lead forms (`leads.service.ts`) | pending keys (memory), `leads` | createPublic, createAssessment | rate limiter, conversion | look-up and insert far apart; early returns; restart | no duplicate in the window; a pending key is always released |
| Enquiry conversion (`expanded.service.ts`) | `contact_inquiries.convertedLeadId`, `leads` | convertContact | leads | check in a snapshot, write by id | one lead for each enquiry |
| Lead editing (API and console) | `leads.status/updatedAt`, history, assignment, audit rows; what a tab displays | updateStatus, assignment update, page and card | consultants (deleted by content admin) | stale versions, two writers of one version | one winner per version; logs tell the truth; nothing replaced unseen |
| Admin auth client, BFF | per tab: access token, user, refresh promise, two generations; per browser: the refresh cookie | initialize, refresh with retries, login, logout, `authFetch` | sessions, through the proxy | late answers, lost answers, retries, several tabs with one cookie | who signed out stays out; a session ends only for cause; no tab waits for ever |
| Student applications and referrals | `student_applications`, their timelines, `student_referrals` | start, submit, withdraw, decide, admin transitions, apply a code, pay a reward | media library (offer letters), notifications | read and write apart, the referral advanced after the transaction, dropped handlers | only legal transitions; statuses and rewards are earned; a reward is paid once |
| Media library | `media_assets` and their files | upload, archive, restore, remove | every record that shows an asset | the count of uses asks named relations | nothing in use goes away |
| Redirects | `redirects`, the slugs of pages | create, update, setActive, archive, resolve; rename of a page | public site | questions and writes are statements of their own; renames cross redirects kept by hand | no loops; old addresses lead on; no redirect hides a page |
| Catalogue, countries, bulk import, versions, claims, website builder, settings, SEO, search | many content tables | CRUD, publish, import | public site | data rules rather than interleavings | row-wise validity |

`PROJECT.json` lists them all, with what is modelled and why the rest is not,
and under `hazards` each place that is hard to test, with the property that
watches it.

## 2. Modules

| Module | Models | Extends / uses |
|---|---|---|
| `SessionLineage` | the abstract promise: a session is carried by one credential at a time | - |
| `SessionGrants` | the abstract promise that overlap leaves: nothing is served that was not asked for | - |
| `AuthSessions` | the token store and the six handlers on it | instantiates `SessionLineage` and `SessionGrants` |
| `AuthSessionsProofs` | theorems about it | `AuthSessions`, TLAPS |
| `AuthCountingProofs` | its theorems that count handlers | `AuthSessionsProofs`, FiniteSetTheorems |
| `AuthRefinementProofs` | its refinements, and its theorems about a single handler slot | `AuthSessionsProofs` |
| `LeadRecord` | the abstract promise: changes take effect one at a time and are logged | - |
| `LeadEditing` | lead page, consultant card, status and assignment transactions | instantiates `LeadRecord` |
| `LeadEditingProofs` | theorems about it | `LeadEditing`, TLAPS |
| `RateWindows` | the abstract promise: a window for each contact | - |
| `LeadIntake` | rate limiter, duplicate suppression of both forms, conversion | instantiates `RateWindows` |
| `LeadIntakeProofs` | theorems about it | `LeadIntake`, TLAPS |
| `CaseLedger` | the abstract promise: statuses and rewards are earned | - |
| `StudentCases` | applications, referrals, offer letters | instantiates `CaseLedger` |
| `StudentCasesProofs` | theorems about it | `StudentCases`, TLAPS |
| `Redirects` | redirects kept by hand and those renamed pages leave | - |
| `RedirectsProofs` | theorems about it | `Redirects`, TLAPS |
| `AdminConsole` | tabs, their calls, the shared cookie, the auth endpoints | - |
| `AdminConsoleProofs` | theorems about it | `AdminConsole`, TLAPS |
| `MCAuthSessions`, `MCLeadEditing`, `MCLeadIntake`, `MCStudentCases`, `MCRedirects`, `MCAdminConsole` | symmetry sets and constant values for TLC | the module they are named after |

A definition named `Mut...` is its neighbour with a bug a programmer could have
made. No action uses it. The mutants of `PROJECT.json` put it in its
neighbour's place and expect the property they name to fail: that is how each
property is shown to watch the code.

### AuthSessions

A **handler slot** (`Request`) runs one HTTP handler at a time; the number of
slots is the number of handlers that can overlap. A handler is split where the
code awaits between a read and a transaction: `RefreshRead` is
`validatedRefreshSession`, `RefreshCommit` the transaction of `refresh`, and
likewise for login (`LoginRead`, then `LoginSucceed` or `LoginFail`), logout,
reset, and grace validation (`ValidateRead`, the conditional update
`ClaimGrace`, the audit row `AuditGrace`). `Drop` loses a handler between two
of its steps: a restart, a closed connection. What a handler read is in its
record (`req[r]`), so the commit uses stale values exactly where the code does
and the database's own values where the code lets the database compare.

Handlers that end without a write are no steps. `issued`/`rt` are the rows of
`refresh_tokens`, `link` those of `password_reset_tokens`; a password is the
number of resets so far. The history variables (`parent`, `minter`,
`pwdAtLogin`, `escaped`, `loggedOut`, `pwdAtIssue`, `reopened`) are read by no
guard.

Abstracted: signatures and hashes (a presented token is its row), IP
addresses, login attempt rows, the other audience. Account status and roles
are written at registration only, so eligibility is a constant.

`SessionLineage` has four steps: open, rotate, close, close all.
`ImplementsLineage` is the refinement, with `live` the unrevoked rows and
`spent` the revoked ones. It holds with one handler slot, dropped handlers
included, and is false with two, as `auth_fork` shows.

`SessionGrants` is what remains with any number of slots (`ImplementsGrants`). A
request asks with a working credential and is served later or never: to exchange
it or to close it. Between the two the credential may have been exchanged, closed
or ended by a reset, and the exchange still goes through, which is the code's race
stated as a rule. What overlap cannot break is the rest: no credential comes from
nowhere or works a second time, an exchange is for the account of the credential
asked with and is made the heir of it, a reset closes all that work of its account
and nothing else, and every other step of the handlers (failures, grace, the clock,
dropped handlers) touches no credential. The refinement maps a row to its fate
(`Fate`: unused, working, or the reason of its revocation), and a slot that has read
a row for a rotation or a logout to what it `Asked`.

### LeadEditing

`updatedAt` is the count of writes of a row. `SaveStatus` is the page's request
up to the transaction's checks, `CommitStatus` the conditional update with its
history and audit rows, or the conflict. `SaveAssignment` is the card's
re-fetch, `ReadAssignment` the transaction's reads, `CommitAssignment` the
upsert or delete, the touch of the lead on the same condition, and the audit
row; a conflict rolls all of it back. `Retire` is the soft delete of a
consultant, after which the API reports no consultant although the row stays.
Notes touch neither the lead nor the history and are left out.

`LeadRecord` has two steps: a status is set, or a consultant is assigned, each to
another value than the one there, with the next version and the row that says what
it replaced. `ImplementsRecord` says that the transactions are those steps and that
nothing else the console or the API does changes a lead or its logs. The map of a
lead takes a deleted consultant as the row still has it, so that a retirement is no
step.

### LeadIntake

`Admit`/`Refuse` are `assertRateLimit` with its cleanup, on the `Map` as a
function (`entries`) and its insertion order (`earlier`); they run in one step with the synchronous part of
the form handler (`Dismiss`: honeypot, invalid assessment answers, or a pending
contact; `Begin`: the key is added to the pending set). `Lookup`, `Create` and
`Release` are the option and duplicate queries, the transaction, and the
`finally` block; `Fail` is any error before the commit. Both forms share them,
because the code repeats them line by line. `ConvertRead` and `ConvertCommit`
are `convertContact`. `Restart` clears the memory of the process and its
handlers, and keeps the rows.

A contact is an email and a phone number; the salted hash is left out.

`RateWindows` has no map, no cleanup and no order of keys: each contact has a
window that is joined, started, refused or closed by the clock, and a full house
gives up one open window for the one that starts. `ImplementsWindows` maps an entry
that has run out to a closed window, whether or not the cleanup has removed it
(`WindowNow`). So a late cleanup changes no answer, and the insertion order of the
`Map` costs a contact its window only when as many windows are open as the map
holds: an entry that has run out is never counted in an open one's stead. Which one is given up is left open, because the code's choice is not always
the oldest window: `Map.set` keeps the place of a key that is there.

### StudentCases and CaseLedger

`StartRead` and `StartCommit` are `startApplication`: the look-up of a duplicate,
and the transaction. `Submit`, `Withdraw`, `DecideOffer` and `AdminSetStatus` are
the reads of the four handlers that change a status, with the conditions each
puts on the row; `Commit` is the transaction they have in common in shape, an
update by id and a row of the timeline. `ReferRead` and `Advance` are the read and
the write of `advanceReferral`, which runs after that transaction; `ApplyReferral`
is one insert, `PayRead` and `PayCommit` are `adminMarkReferralPaid`.
`ArchiveLetter` and `RemoveLetter` are `archive` and `removePermanently` of the
media library for a letter that only an application uses. `Drop` stops a handler
between two of its steps.

The histories say when handlers overlapped: `raced` (two handlers about to write
one application), `racedStart` (two starts for one student and offering),
`racedReward` (two handlers about to write one referral), and `missed` (an
enrolment whose handler stopped before the referral, or that came before the
code). The properties promise everything outside those sets, and
`ImplementsLedger`, `StageIsReal` and `EnrolmentIsCredited` promise what no
overlap breaks.

`CaseLedger` keeps the set of statuses an application has ever been given and
the reward of each student. An application enters a status only if it has been
given the prerequisite before, a reward is credited only to an enrolment and paid
only after a credit. The refinement maps the set of statuses to the timeline.

Abstracted: documents, notifications and messages, which no check of these
handlers reads; an offering is published; the fields of an application that
nobody decides on.

### Redirects

Every statement of a handler is a transaction here, because the code uses none.
`BeginWrite` is `create` or `update` up to the first question of
`assertNoLoopOrChain` (does the target redirect), `AskIncoming` the second (does
something redirect to the source), then `Create`, `Update` or `Refuse` (the unique
key). `SetActive` and `Archive` are one write each. A page is renamed by
`BeginRename` (the read), `MovePage` (its row) and the two statements of
`recordSlugRedirect`: `FreeTarget` disables the redirect at the new address,
`LeaveSource` writes the one at the old. `Publish` creates a page.
`resolveRedirect` is `Sends`.

`switched`, `met` and `moot` are the causes the properties allow: a redirect
enabled by hand, two handlers on one address or page at a time, and an address an
administrator or a stopped rename left in another state.

### AdminConsole

A tab is the module state of `auth-client.ts` and the status of `AuthProvider`.
A call slot runs one call of an auth endpoint: `Send` puts the browser's cookie
in it, `ServeRefresh`, `ServeLogin` or `ServeLogout` is the API, `Receive...` is the
tab that reads the answer, whose cookie the browser has taken. `Timeout` is the 15
seconds of `AUTH_REQUEST_TIMEOUT_MS`, a dropped connection, or the answer of the
proxy that the API is not there; what the API has not served by then is `adrift`
and may still be served (`ServeAdrift`). `Load` is a page load and forgets the
tab's calls in the same way. The two generations the code compares appear as what
the comparison finds (`cleared`, `loggedIn`). `RunOut` lets the lifetime of a
refresh token pass.

`EndsForCause` speaks of a tab with a signed-in user that a refresh sends to the
login page. `verdict` records what could excuse that: a cookie was lost with an
answer nobody read (`strayed`), an attempt came without a cookie or with one whose
token was over (`lapsed`), or another call was under way at each of the three
attempts (`overtaken`). Anything else would end a session that was good.

The API serves a call in one step; what its handlers do to each other is the
subject of `AuthSessions`.

## 3. Runs

| Run | Question | Bounds | Result |
|---|---|---|---|
| `auth_rotation` | what survives racing refreshes, validations, logouts; the refinement of `SessionGrants` | 2 slots, 1 user, 3 tokens, clock past the grace | passes |
| `auth_accounts` | locks, guesses, resets against racing logins | 2 slots, 1 user, 3 tokens, 2 reset links, 2 failures lock | passes |
| `auth_serial` | does the code keep all its promises when handlers do not overlap; the refinement of `SessionLineage` | 1 slot, 2 users of whom 1 eligible, 3 tokens | passes |
| `auth_fork` | is rotation single-use with overlap | 2 slots | `NoFork` violated |
| `lead_editing` | optimistic lock, history; the refinement of `LeadRecord` | 2 tabs, 3 statuses, 2 consultants, 3 writes | passes |
| `lead_blind` | is an assignment replaced only by who saw it | as above | `NoBlindAssignment` violated |
| `lead_intake` | duplicates, pending keys, rate limit, liveness; the refinement of `RateWindows` | 3 contacts, 1 enquiry, 2 slots, limit 2, map of 2, a cleanup every 2 windows, clock of two windows, 4 submissions, conversions (1) and restarts (1) together | passes |
| `lead_convert` | one lead per enquiry | 1 enquiry, 2 slots, 2 conversions | `OneLeadPerInquiry` violated |
| `student_cases` | statuses, duplicates, referral and reward; the refinement of `CaseLedger` | 1 student, 1 offering, 2 applications, 2 slots, 6 rows of timelines | passes |
| `student_letter` | does an application with an offer keep its letter | as above | `OfferHasLetter` violated |
| `redirects` | loops, dead addresses, hidden pages | 3 addresses, 2 pages, 3 redirects, 2 slots, 5 requests | passes |
| `admin_console` | sign-out, session ends, initialisation | 2 tabs, 4 tokens, 3 calls, 5 loads, sign-ins, sign-outs or expiries | passes |

Why the bounds are enough: a race needs two handlers and one row, so two slots
and one lead, account or student show it; a chain of three tokens shows a session
that forks, goes on, and is revoked; two failures reach the lock; three statuses
allow a change to a status other than the two that race; two admissions reach the
limit; a clock that passes every lifetime shows each expiry. Three contacts and a
map of two fill the map with one contact left over, in either order of the two
inside, and with an entry that keeps its place when its contact begins a new
window. The cleanup comes every two ticks and a window lasts one, so an entry that
has run out stays in the map for a tick, is asked about, counted against the map's
size, or replaced in place, before a cleanup comes to it; in the code it may
stay for up to a minute after a window of ten. What a run of it begins is
bounded altogether (`MaxWork`): four submissions are twice the limit, and each may
give way to a conversion or a restart. Six timeline rows take one application from
its start to its enrolment, or two through a duplicate and a race. Three addresses are a
loop with an address on the way and a place for two pages to pass each other. In
the console two tabs and three calls let a refresh cross a logout and a second
refresh; four tokens let one be superseded at each of three attempts. Durations
are a few ticks: only their order matters. `CHECK_DEADLOCK` is off in every run
because ids, clock, submissions and work are bounded and the system may simply
have nothing left to do.

The properties name hazards rather than assignments. Those with overlap
(`auth_rotation`, `auth_accounts`, `student_cases`, `redirects`) say what the code
still guarantees when its comments do not hold: a session forks only by
overlapping handlers (`OneSuccessorPerHandler`), only an overlapped session
outlives a reset (`OnlyOverlappedSurviveReset`), only an overlapped reset uses the
link of an older password (`OnlyOverlappedUseOldLinks`), a settled revocation is final (`QuietRevocationIsFinal`),
wrong guesses exceed the limit by no more than the other slots plus the logins
let in after a lock ran out (`GuessBudget`), every departure from the status table
is the work of a race (`OnlyRacesBreakTheTable`), and every loop of redirects runs
through one that was enabled by hand or raced (`LoopsAreEnabledOrRaced`).

### Disagreements between code and text

`PROJECT.json` lists four, each with the text it contradicts and a run that ends
in its counterexample:

* a session forks (`auth_fork`). The rotation does not repeat the check of its
  read; a logout or a reset in between is undone by the same write, and the
  insert of a login survives a reset for the same reason;
* an assignment is replaced unseen (`lead_blind`);
* an enquiry is converted twice (`lead_convert`);
* the letter of an offer can be deleted (`student_letter`).

Two more are stated by the properties of passing runs, as exceptions. The comment
at `redirects.service.ts:131-136` says that redirects cannot loop back on
themselves, but `setActive` asks neither question: enabling a redirect can close
a loop (`switched` in `LoopsAreEnabledOrRaced`). And the console's comment that a
timeout is no verdict holds for the call that timed out, while the cookie that
was lost with its answer may end the session later (`strayed` in `EndsForCause`).

One exception contradicts no text and is named for the reader's sake: of two resets
of an account that have both read their links, the one with the older link (or
with the same one) may commit last, because the transaction does not ask for
`usedAt` again, and the password is then the one it brought.
`OnlyOverlappedUseOldLinks` allows that and nothing else: once a reset has
committed, a reset begun afterwards is refused every link issued before.

### Fairness

Safety needs none. Two specifications state some.

* `FairSpec` of `LeadIntake`: weak fairness of `Proceed(r)`. A handler that has begun
  takes its next step, because a database call answers or fails. Nobody is assumed
  to submit, to convert, or to let time pass. `EventuallyReleased` follows: a
  pending contact is released.
* `FairSpec` of `AdminConsole`: weak fairness of `Send(c)`, of `Timeout(c)`, and of
  the end of `/me`. The browser runs what is due, and every auth request is bounded
  by a timeout. Nothing is asked of the API, which may never answer.
  `InitializingEnds` follows: no tab stays on its checking screen, also when it
  shares a refresh that is retried.

## 4. Proofs

`tlapm` proves, for every value of the constants that satisfies the modules'
`ConstantsAssumption`:

| Theorem | Statement |
|---|---|
| `TypeCorrect` | `AuthSessions!TypeOK` |
| `SuccessorPerHandler` | `OneSuccessorPerHandler` |
| `SerialSessionsDoNotFork` | `NoFork`, when there is one slot |
| `LockFollowsCounter` | `LockMatchesCounter`, on which the budget of guesses rests |
| `SettledRevocationIsFinal` | `QuietRevocationIsFinal` |
| `RotatedRowsNameSuccessors`, `GraceFollowsRotation` | `RotatedNamesSuccessor` (what `SessionGrants` says of heirs), `GraceOnlyAfterRotation` |
| `ResetSurvivorsOverlapped` | `OnlyOverlappedSurviveReset` |
| `OldLinksNeedOverlap` | `OnlyOverlappedUseOldLinks` |
| `GraceStaysBoundedAndAudited`, `GuessesStayInBudget` of `AuthCountingProofs` | `GraceIsBoundedAndAudited`, `GuessBudget`, when there are finitely many slots |
| `SerialLogoutIsFinal`, `SerialResetEndsSessions` of `AuthRefinementProofs` | `LogoutIsFinal`, `ResetEndsSessions`, when there is one slot |
| `SerialStoreImplementsLineage` | `ImplementsLineage`: the refinement of `SessionLineage`, when there is one slot |
| `StoreImplementsGrants` | `ImplementsGrants`: the refinement of `SessionGrants`, with any number of slots |
| `EditingTypes` | `LeadEditing!TypeOK` |
| `StatusHistoryIsTrue`, `AssignmentAuditIsTrue` | `HistoryTellsTheStatus`, `AuditTellsTheConsultant` |
| `OneWinner`, `StatusNeverBlind` | `OneWinnerPerVersion`, `NoBlindStatus` |
| `EditingImplementsRecord` | `ImplementsRecord`: the refinement of `LeadRecord` |
| `FormsDoNotDuplicate` | `NoDuplicateForms` |
| `PendingFollowsHandlers` | `PendingIsInFlight` |
| `TypeCorrect` of `LeadIntakeProofs` | `LeadIntake!TypeOK`, the bound of the limiter's map among it |
| `RateIsKept`, `RefusalsHaveCause` | `RateKept`, `RefusedOnlyOverBudget` |
| `LimiterImplementsWindows` | `ImplementsWindows`: the refinement of `RateWindows` |
| `TypeCorrect` of `StudentCasesProofs` | `StudentCases!TypeOK` |
| `StatusesFollowTheTable`, `OpenApplicationsAreSingle` | `OnlyRacesBreakTheTable`, `OneOpenApplication` |
| `StagesAreReal`, `EnrolmentsAreCredited` | `StageIsReal`, `EnrolmentIsCredited` |
| `RewardsArePaidOnce` | `RewardPaidOnce` |
| `CasesImplementLedger` | `ImplementsLedger`: the refinement of `CaseLedger` |
| `TypeCorrect` of `RedirectsProofs` | `Redirects!TypeOK` |
| `LoopsHaveACause`, `OldAddressesLead`, `PagesAreVisible` | `LoopsAreEnabledOrRaced`, `NoDeadEnds`, `PagesAnswer` |
| `TypeCorrect` of `AdminConsoleProofs` | `AdminConsole!TypeOK` |
| `SignedOutIsOut` | `SignedOutStays` |
| `SessionsEndForCause` | `EndsForCause` |
| `InitializingWaits`, `InitializingAdvances` | `WaitsForSomething` and `Advances`: the parts of `InitializingEnds` that are not liveness |

`LockMatchesCounter`, `RotatedNamesSuccessor` and `AuditTellsTheConsultant` are
proved and in no run: a run checks the property that rests on each of them or
says more.

The arguments:

* **Sessions.** `OneSuccessorPerHandler` alone is not inductive: a slot that has
  read a row and is about to rotate it might have created a successor before.
  The strengthening says that a row with a successor is revoked, and that a slot
  about to rotate a row has made no successor of it since it read it; a slot
  reads only live rows. `NoFork` follows when there is one slot. A surviving
  session is traced to the handler that made it through `escaped`, which the
  invariant carries along with the passwords the handlers hold. A link that is
  still open is for the password of now (`OpenLinksAreCurrent`), so what a handler
  about to reset has read was current then (`ReadLinksWereCurrent`), and only
  another reset in between makes it old.
* **Sessions, counting.** A budget is the size of a set of handlers plus a counter;
  a step changes the set by one member and the counter the other way, or neither.
* **Sessions, one slot.** While the only handler is under way nothing but the clock
  and new reset links move, so what it has read still holds when it writes
  (`StillTrue`). Dropped handlers leave nothing behind.
* **Sessions, any number of slots.** `ImplementsGrants` needs two invariants: what a
  slot about to rotate or log out has read is an issued row (`HandlerOK`), and a row
  that was never issued has no parent, no successor and no revocation (`Unborn`).
  Then each handler step is one abstract step: the read asks, the commit exchanges
  or closes, an end without a write withdraws.
* **Lead editing.** A save in flight whose expected version is still the lead's
  holds the lead's current status (or consultant), because every write raises the
  version. So a commit that passes the condition writes the truth, and two
  commits never share a base. The same fact makes the commit a step of
  `LeadRecord`: the value its row says it replaced is the one that was there.
* **Lead intake.** While a handler is about to insert, no form lead of its contact
  is within the window (`FormsAreOld`): the look-up found none, time only moves
  forward, and the pending set lets no other handler of that contact in.
* **Rate limiter.** An entry stands for the last admissions of its contact and runs
  for a window from the first of them (`Counts`), and the admission that is
  `RateLimit` before the first of a window lies a whole window back (`Windows`).
  The full map has a key to drop because every set of its keys has a first one
  (`HasFirst`). For the refinement the open windows are the keys the cleanup would
  keep (`ShownFacts`), so the map is full of open windows when one is given up, and
  an admission is a step of the one window that joins, starts or is refused.
* **Applications and referrals.** What overlap cannot break rests on `Earned` and
  `Referred`: a handler writes a status whose prerequisite the application had
  when it was read, and a stage some application shows, and neither is ever taken
  back. That gives `StageIsReal`, `EnrolmentIsCredited` and the refinement. What
  only overlap breaks rests on `Alone`: outside the `raced` sets one handler at a
  time works on a row, and still finds what it read.
* **Redirects.** A handler about to write a redirect to an address knows that
  nothing leads away from there (`Clear`), unless somebody enabled a redirect or
  worked there at a time with it; so a new redirect ends every walk through it. A
  rename knows where its page is (`Renaming`), which covers the old address until
  the redirect does. Both rest on `Apart`: two handlers with an address or a page
  in common have all their addresses in `met`.
* **Console.** `SignedOutStays`: clearing a tab marks its refreshes, and a marked
  refresh keeps no token; a logout that crossed no call leaves no call that could
  bring a cookie. `EndsForCause`: while the browser holds a rotated cookie the one
  that replaces it is on its way, unless it strayed (`Holdings`), so an attempt that
  is refused either met another call, or came without a good cookie, or is
  followed by one that holds the next cookie (`Knowledge`).
* **Console, the checking screen.** A step leaves an initializing tab with the
  refresh it had or with a token for `/me` (`NextInitializing`), so it always waits
  for something (`WaitsForSomething`). Three attempts of three points each are a
  rank that no step raises while the page stays, and that each send or timeout of
  the tab's own refresh lowers (`Advances`). What is left to
  `InitializingEnds` is that fairness brings those steps about.

Only model-checked: liveness, which is out of this prover's reach as fairness and
`ENABLED` are: `EventuallyReleased`, and `InitializingEnds` beyond the two theorems
above. Every safety property of the passing runs is proved, those of `auth_serial`
under its assumption that there is one slot.

## 5. Not modelled

The models cover the code in which the order of steps matters. What is left out,
and why:

* **Catalogue, countries and locations, levels, subjects, bulk import, SEO, search,
  links, statistics, settings, preview.** Most of the repository's lines: rows of
  many columns with validation, formatting, slugs, filters and the screens that
  edit them. Their difficulty lies in data rules, which a model would have to
  repeat line by line, and hardly in the order of steps.
* **Versions, university claims, experiments, website builder, page templates.**
  Single-writer drafts and their publication: each handler reads and writes one row
  by id. The hazards are the ones `LeadEditing` and `Redirects` show on richer state.
* **`AuthProvider.refresh`.** It has no caller.
* **Consultant assignment to students.** What two of them do to each other depends
  on the gap locks of the database, which the source does not determine.
* **The public website.** It renders what is published, keeps no state and posts
  the forms that `LeadIntake` models.
* **Students' registration, verification and documents.** One insert or one update
  by id each; email delivery is external.

What remains of the entries in `hazards` without a property says there why.
