# Verification of orkia-cli

TLA+ models of orkia-cli, the model-checking runs over them and the theorems
proved about them. Paths are relative to the repository (`src/`); `cli`, `git`,
`ledger`, ... stand for `crates/orkia-cli/src/main.rs`,
`crates/orkia-git/src/lib.rs` and so on.

## 1. The system

Orkia records what agents and people do in a Git repository, derives a stack of
reviewable pull requests from it and coordinates their delivery. All shared
state is in Git refs below `refs/orkia/`; no database holds it and **no lock** guards
it (the server's webhook alone has a mutex, within its process).
Agent hooks, the workspace watcher, interactive commands and the server are
separate processes that read and write those refs at any time and may die
between any two writes. That is where the hard behaviour is: a command is a
sequence of single-ref writes, each of them atomic, the whole of them not.

| Component | State it keeps | Operations | What makes it correct |
|---|---|---|---|
| Ledger (`ledger`, `git` 3612-3707) | one ref per signed event; an aggregate document from older releases | append, read_all, verify_chain, migration | nothing lost, links resolve, no cycles, one chain |
| Signed revisions (`git` 2397-2523, 2925-3405) | objects, signatures, `refs/orkia/<kind>/<id>/<revision>` | store_*, latest_*, *_at_revision | immutable, signed when visible, unbroken history |
| Review publication (`cli` 1324-1486, 2206-2563) | plan, pull request, stack and changeset revisions | review plan / approve / request-changes / merge / split, checkpoints, hooks | references resolve, one decision per revision, a stack is one decision |
| Delivery (`cli` 1488-1612, `projection`, `forge`, `github`) | branches, projections, the forge's copies, forge reviews | review project, review publish | evidence before reviews, published means on the forge |
| Changeset commands (`cli` 531-640, 1617-2204, `changesets`) | changeset revisions, dependencies, integration status | create, status, integrate | only what was evaluated is integrated, dependencies first |
| Planner and changeset algorithms (`review`, `changesets`) | none | plan, corrections, order, execution order | partition of the atoms, topological orders |
| Patch projection (`projection`) | none | fragment, align, bind, apply | patches reproduce the captured content |
| Semantic history (`git` 248-537, `semantic`) | states bound to commits, operations | materialize, import, merge, finalize | same history, same state |
| Views (`git` 594-1205) | branch, metadata ref, worktree | create, advance, publish, record, revise, unrecord, delete | branch and metadata agree |
| Transport (`git` 1409-1487) | refs of two clones | push, fetch, verify | order of arrival does not matter |
| Sessions, watcher, agents (`cli` 647-1322, 2660-2845, `capture`, `agents`) | session state, capture events | start, checkpoint, close, watch, hooks | every write attributed once, to its session |
| Server (`server`) | deliveries seen | webhook, changeset status | each delivery recorded once |
| Identity, vault, access, policy, index, ports, model, CLI shell | keys, grants, configuration | | |

How they interact: a **session** captures events into the **ledger**; the
**planner** derives a review plan from the ledger and the worktree; **review
publication** stores the plan, its pull requests, their stack and a changeset as
**signed revisions**; **delivery** projects the pull requests onto branches,
pushes refs and branches and opens forge reviews; the **changeset commands**
read projections to decide readiness and publish an integrated revision. The
**server** answers the same readiness question and appends webhooks to the
ledger. All interaction goes through refs.

`PROJECT.json` lists every component with its status, and under `hazards` each
place where this can go wrong without a test noticing.

| Module | Models | Checked with | Proofs |
|---|---|---|---|
| `SignedRevisions`, `RevisionRegister` | signed revisions | `MCPipeline` | `SemanticProofs` |
| `Ledger` | provenance ledger | `MCChangeSets`, `MCLedger` | `LedgerProofs` |
| `Capture` | sessions, watcher, hooks | `MCPipeline`, `MCCapture` | `PipelineProofs` |
| `Planning` | atoms, planner, changeset algorithms | `MCPipeline`, `MCPlanning` | `PipelineProofs` |
| `Patches` | patch projection, token merge | `MCPipeline`, `MCPatches` | `PatchesProofs` |
| `SemanticHistory` | semantic states and merges | `MCChangeSets`, `MCHistory` | `SemanticProofs` |
| `ReviewPublication` | review decisions | `MCDecisions`, `MCReview` | `ReviewPublicationProofs` |
| `Delivery` | projection and forge | `MCForge`, `MCDelivery` | `DeliveryProofs` |
| `ChangeSets` | changeset commands | `MCChangeSets` | `ChangeSetsProofs` |
| `Views` | named views | `MCDecisions`, `MCPipeline` | `SharedProofs` |
| `Access`, `Status` | grants and roles, the server's status answer | `MCForge` | `SharedProofs` |
| `OnceLog`, `Webhooks` | the GitHub webhook | `MCPipeline` | `SharedProofs` |

## 2. The modules

### SignedRevisions, RevisionRegister

`SignedRevisions` is `publish_signed_revision` for one identity: put the object,
look the revision ref up, sign, create the ref. One action per Git write;
`Crash` after any of them. `ReadLatest` and `Draft` are what every caller does
first (`latest_*`, revision + 1 or the same document again).

| Model | Code |
|---|---|
| `bound` | the targets of `refs/orkia/<kind>/<id>/<revision>` |
| `objects`, `signatures` | object refs and signature objects |
| `pc`, `doc` | where a publisher is and the document it carries |
| `acknowledged` | publications that returned `Ok` (history, for the properties) |

`RevisionRegister` is what a caller is promised: a register whose value changes
only by appending the next revision. `SignedRevisions` implements it with the
published revisions as its entries (`RegisterSpec`).

### Ledger

`append` split at its reads and writes: event refs, aggregate document at its
new place, then at its old one, stamp and link, migrate, create. An event is its
identity, time and link; the sort key is time and then a number for
(actor, id, hash). `alone` (one process at a time) and `steady` (the clock
only goes forward) are drawn in `Init`, so one run covers what holds always and
what holds only then. The rename of the aggregate ref is taken to be atomic, as
the code relies on it to be; it is libgit2's.

### ReviewPublication

`persist_review_plan` with its callers. A decision is a plan revision; the
documents it publishes are written in the code's order, each write atomic
because `SignedRevisions` shows that a revision is. Identities are those of the
code: a pull request is its atoms (a unit), a stack its set of pull requests (a
shape), a changeset its stack. Plans of one session therefore share them, and
`merge`/`split` move between shapes. The worktree is one content;
`Reverted` is the content without a change, from which nothing can be bound.

### Delivery

`review project` and `review publish` over branches, projections and the forge.
A decision is one step here. A commit is the sequence of layers stacked on the
session's base, so ancestry is prefix, and a restack of the same content in the
same second gives the same commit. `exclusive` and `calm` (every restack that is
started finishes) are drawn in `Init`.

### ChangeSets

`changeset create` and `integrate --changeset`, with the review decisions,
publications and restacks that go on meanwhile. Each document a command reads
and then relies on is a step; the store that follows may find that others moved.

| Model | Code |
|---|---|
| `plans`, `stacks` | plan revisions (approval or not), stack revisions and the decision each comes from |
| `changesets` | changeset revisions: selected stack revisions, dependencies, status |
| `published`, `restacked` | what the newest projection of a pull request revision says |
| `pc`, `job` | where a command is, what it read and carries along |
| `Decide`, `Bind`, `Regroup` | `persist_review_plan`, the part that concerns stacks and changesets |
| `StartCreate`, `CheckDependencies`, `StoreCreated` | `changeset create` |
| `StartIntegrate`, `ReadDependency`, `CheckOrder`, `CheckReadiness`, `Evaluate`, `StoreIntegrated` | `integrate --changeset` |

A changeset's identity is its set of stacks, as in the code, and a stack belongs
to one plan. Repositories are not told apart: a stack stands for one together
with its repository. The stacks of a changeset are read in one step, and so are
the projections that readiness asks for. `evaluations` is history, for the
properties; `exclusive` is drawn in `Init`.

`ReviewPublication` and `ChangeSets` meet at `Regroup`: the former has every
document of a decision and what replays and crashes do to them, the latter the
changesets that outlive it.

### Capture

Shells (`session start`, `run`, `checkpoint`, `close`), agents' hooks
(SessionStart, a reported write, Stop), watchers and an editor over one worktree.

| Model | Code |
|---|---|
| `trail` | the ledger, with the events that explain a path or delimit a session |
| `sessionFile` | `session.json`, which `run` reads first and writes back last |
| `dirty` | what differs from HEAD |
| `watcher`, `noticed` | the watcher of a session and what it has yet to report |
| `at`, `holds` | where a process is and what it read: the first look at the worktree of `run`, the events of a checkpoint |
| `mediated` | history: names of the files dirtied while a captured program ran, or reported by a hook |

Every command is split at its reads and appends, so that an editor's write falls
between the two looks of `run`, a second SessionStart between the lookup of a link
and its creation, and a `run` that ends after a `close` writes `session.json` back.
That last case is why `WatchersEnd` speaks of a file that is gone for good.

Agents report files under names of their own (`Reports`). `repository_path_matches`
compares by suffix, so a name stands for every path it ends with (`Endings`, `Named`),
and `relative_repository_path` takes the worktree's prefix off (`Relative`). Which of the
paths that a name ends with was meant, the code cannot tell: `CoverageSound` says that
each file of a published plan goes by a mediated name, and the run `CaptureSuffix` shows
that it need not be the file the agent wrote.

### Planning

The chain of pure functions from changed lines to open reviews, one action each:
`extract_atoms_in_ranges`, `infer_dependencies`, `plan` with its hard components,
`ReviewPlan::validate`, `changeset_order` with explicit dependencies and work of
another repository, the execution order, the bases of the forge's reviews. What
order an algorithm takes is compared with what it is for: overlapping boundaries are
in one unit, a plan is refused for a loop only, an order exists exactly when no
dependency loops, and a review stands on one line of branches with all it needs. None is
opened that waits for another repository (`Projectable`): `plan_mono_repository` passes an
empty set of published dependencies, whatever was published there.

Loops have two causes (`LoopsExplained`). One is tests in two files: a test waits for
all that is no test in the other files, and may be waited for. The other is a local
import (`use` in a function, an import in a Python function) in each of two units of
one file: `collect_named` descends into bodies, so both imports are atoms of their own,
each a hard component with its function, and everything of the file that is no import
and does not overlap an import waits for it. The two units then wait for each other,
and `ReviewPlan::validate` refuses the plan, always (`InnerImports`, theorem
`SiblingsAreRefused`), although disjoint siblings are meant to be independent: the run
`PlanningSiblings` shows it for two functions of one file.

### Patches

Line diffs (`changed_line_ranges`, `align_lines`, which break ties differently),
fragments and their contexts, `bind_patches`, `apply_patches` for a stack of pull
requests in any order, and `merge_token_text`. A line is a sequence of characters with its
newline, the last one of a file possibly without. Diffs compare lines and fragments are
cut along them; `apply_patch` searches and exchanges characters (`Bytes`), so a line of a
patch is also found at the end of a longer line and makes a second candidate, and
ambiguous matches are conflicts. `ProjectionRebuilds` says when the outcome must be the
reviewed file: unchanged lines keep the pull requests apart, and (`Distinct`) every line
ends in a newline and none occurs twice or is the end of another one. Without the first
condition it is false, which the run `PatchSelection` shows. `MergeSound` says
what a token merge holds; `TextSound` is both.

### SemanticHistory

One clone's semantic states over a growing Git history: commits with none, one or two
parents, renames found by equal blobs, interrupted imports, states computed with
and without those of the parents, several roots (orphan branches, amended first commits),
the anchor that new Trunks are named after, semantic merges with their conflict and its
resolution. `importing`, drawn in `Init`, is a clone that only imports and merges;
`ImportIsDeterministic` compares it with `WholeImport`, a recursive function that
is one import of everything. A commit without a first parent continues the state of any
other commit with its tree, so clones agree only where no root repeats the tree of another
line of history (`RootsAreDistinct`); where one does, the order of import decides.
Two files may continue one Trunk; the later one then has
it, and blame does not find the other (`ManifestComplete`, run `HistoryBlame`).
`Accountable`, a part of `HistoryKept`, says that this is the only way a text file is
left without a Trunk that is alive and was inserted.

### Views

`branch` and `metadata` are the two refs of a view, moved one after the other by
each command (`doing`, `task`); `head` and `work` are the worktree; `states` what is
known of a commit's semantic state: none, verified, or fetched without enough
signatures. Plain Git commits on what is checked out at any time. `serial`, drawn in
`Init`, is one operator at a time who retries an advance that was interrupted
(`wish`) before anything else; otherwise two run at once.

`create_view` stores whatever operations its caller names (`Filters`), and a fetch brings
a view's metadata for a name that has none (`FetchView`, `Elsewhere`), whose base may be no
commit of this repository. Neither is compared with a state: `given` (history) has the
views whose metadata came that way. `ViewShowsVerified` is about the others, those that an
advance, a filter or `unrecord_view` has written since.

### Access, Status

`Access` has documents and signatures as objects of their own, fetched one at a
time in any order, and `require_role` as the operator `HasRole`. `Status` is
`change_set_status`, read by read, over the changesets that commands revise
meanwhile (`Move`, one step each here) or over grants that end meanwhile (`Learn`);
`token`, drawn in `Init`, says which. `query` carries what the handler has read, and
`seen` and `ended` in it are history: what was true since the question was asked, and
which grants had ended by then.

### OnceLog, Webhooks

`Webhooks` is `github_webhook` and `record_webhook`: request slots, the mutex around
the process-local set of deliveries, the read of the ledger, the append, failure
(which takes the delivery out of the set again) and the end of the process (which
empties the set). `OnceLog` is what it promises a forge that delivers again: a
delivery is recorded at most once and only a recorded one is acknowledged.
`RecordsOnce` says that `Webhooks` implements it, with `events` and `confirmed` as
the shared variables.

### How the modules meet

| Interface | On one side | On the other |
|---|---|---|
| a signed revision | `SignedRevisions`: many writes that crash and race | one atomic step of `ReviewPublication`, `Delivery`, `ChangeSets`, justified by `AcknowledgedHolds` and `RegisterSpec` |
| an appended event | `Ledger`: reads, link, store | one step of `Capture` and `Webhooks` |
| a review plan | `Capture` decides whether it may be published; `Planning` what is in it | a shape in `ReviewPublication` |
| patches | `Patches`: lines | one content per decision in `Delivery` |
| a decision | `ReviewPublication`: every document | one step of `Delivery`; `Decide`, `Bind`, `Regroup` of `ChangeSets` |
| a changeset command | `ChangeSets`: every read | one step of `Status`, whose readers see single refs |
| a semantic state | `SemanticHistory`: what is in it | bound or not, verified or not in `Views` |

`MCDecisions`, `MCForge`, `MCPipeline` and `MCChangeSets` check modules that share no
state side by side: the initial states choose one part and the others stay where they
begin. The state space is the sum of the parts' and each property is about one part.

## 3. What is checked

Each run's bounds are in its `.cfg` or, where a value is no set of model values, in
its MC module.

| Run | Question | Bounds |
|---|---|---|
| Decisions | the parts review and views, with two operators or one: references, one decision per stack, one accepted decision; what does a view show | below |
| Forge | the parts delivery and status: what is on the forge when a review is there, a projection says published or a command returned Ok; when is a changeset called ready | below |
| Pipeline | the parts revisions, capture, planning, patches, views (one operator) and webhooks: what a reader finds, what coverage, plans and patches claim, and what must come to an end | below |
| ChangeSets | the parts changesets, history and ledger: are dependencies integrated first and never in a circle, and is what is integrated what was evaluated; does a later semantic state keep what an earlier one has and every import give the same; what of the ledger survives two appenders, crashes, the clock and the migration | below |
| LedgerFork | is the ledger one chain (it is not) | 2 writers, up to 5 events, times 0..4, no old events |
| ReviewCrash | does an accepted decision have its stack (not after a crash) | 1 reviewer, revisions 0..2 |
| ReviewReplay | does a replay publish nothing (it does after an approval) | 1 reviewer, revisions 0..2 |
| DeliveryEvidence | is evidence always first (not when another process restacks) | as the part delivery, 1 plan |
| CaptureSuffix | is every file of a published plan one that was mediated (not when a report ends with another path) | 1 hook, 2 files, the path of one ending with the other's, 5 events |
| PlanningSiblings | are disjoint functions of a file independent (not with an import in each) | 1 file of 4 lines, up to 2 functions and 2 imports |
| HistoryBlame | does blame find every text file (not when two files share a Trunk) | as the part history |
| PatchSelection | does a stack that covers every change give the reviewed file (not when units touch) | files of up to 4 different lines, stacks of 2 |

| Part | Bounds | Why they are enough |
|---|---|---|
| review | 2 reviewers, 1 plan, 2 shapes (one of two units), 2 plan revisions, 2 pull request revisions | two decisions about one revision; a pull request that both shapes select |
| delivery | 2 plans, 2 decisions, 2 units in a line; in turn 3 projection revisions and 2 seconds, racing 2 and 1 | a projection, its publication and a restack on top; a race between any two writes |
| revisions | 2 publishers with identities of their own, 2 contents, revisions 0..2 | a race, a retry and a revision on top of either |
| capture | 1 path, 1 reported name that ends with it, 1 agent, 2 sessions; two hooks with 6 events, a shell and a hook with 4, two shells with 3 | every pair of processes; a start, a link, a write, its report and a plan; two starts and their links; the theorems have no bound |
| planning | 2 files with 3 lines and up to 3 boundaries: apart, nested, imports, tests; 1 foreign pull request with 1 dependency | three atoms make the smallest hard component that touches another; a loop needs two |
| patches | all files of up to 3 different lines and those of 4 that begin alike, 4 with a line that ends in another one or has no newline; 14 covers, all token texts of up to 3 tokens over 2 | an insertion, a deletion and a replacement next to each other; a second candidate; repeated tokens |
| views | 1 view; in turn 4 commits and one death, or 2 operators with 2 commits; 2 filters, 2 views elsewhere, one of a commit that is not here | a divergent commit and a retry; two commands are enough for each lost check |
| status | a chain of 3 changesets over 2 repositories, 2 grants, 3 revocations, 3 moves of the world during any number of questions | a closure with a member that is not asked about; a revocation arrives in at most three parts |
| ledger | 2 writers, 2 old events, up to 3 new ones, times 0..3 | what two appenders read, link and store around the migration, with a clock that steps back |
| changesets | 2 clients, 4 revisions per changeset; 2 stacks decided once, or 1 stack decided twice | a published revision, one created by hand with a dependency, its integration, and one after it |
| history | trees with a file, its rename, a new file at its old path, and that one renamed; 4 commits when only importing, 3 otherwise; 2 roots, 1 with 4 commits; 2 resolutions | the smallest merge with a rename on one side; a conflict and its resolution; a Trunk that two files continue |
| webhooks | 2 deliveries, 2 requests, 2 failures or deaths, 1 needless repetition | a duplicate next to its original, and another delivery that waits |

Every property of a passing run has a mutant in `PROJECT.json`: a plausible bug of
the code that violates it within the same bounds. Symmetry is declared over
processes, plans, stacks and contents, which no definition of those modules tells
apart, and only in runs without liveness properties. `MCBound` keeps the two questions
of `ChangeSets` apart, and four commits from two roots, as the products are out of reach.
Deadlock is checked of review publication, delivery and the ledger, whose processes
never wait for each other. It is not where the system may stop: functions that have
been computed, bounded commits, events and deliveries, clients whose commands all died.

**Fairness and liveness.** Commands are run by people and hooks that may never come
back, and a process may die anywhere. Fairness is stated only where the code or its
environment keeps going, and each is weak:

- `Capture`: the watcher polls every 250 ms as long as it runs (`Poll`). No command,
  hook or editor has to do anything. `WatchersEnd`: once `session.json` is gone for
  good, no watcher is left running.
- `Views`: a command that runs goes on until it ends, fails or dies
  (`ContinueView`), and an operator whose advance was interrupted runs it again
  (`RetryAdvance`); deaths are bounded. `RetriedAdvanceLands`: the retry is accepted and
  the two refs agree again.
- `Webhooks`: the server works on what it received (`Work`), and the forge delivers
  again what was not answered with success (`Redeliver`); failures are bounded.
  `EveryDeliveryAcknowledged`: a delivery that has arrived is acknowledged in the end.

Review publication, delivery and changesets promise nothing that must happen: a
command that died there is repaired only by a person who knows of it.

**Abstract specifications.** `RegisterSpec` (`SignedRevisions` implements an append-only
register) and `RecordsOnce` (`Webhooks` implements `OnceLog`) are checked as properties
of runs and proved.

**Violations.** The eight runs that expect one are disagreements between the code and what
its comments or documents say; each is a finding in `PROJECT.json` with both sides
quoted.

**Remarks.** Behaviour met while modelling that contradicts no document, and so is no
finding:

- *SemanticHistory.* A merge keeps the Branches of a Trunk that both parents have from
  the first parent only, so `HistoryKept` speaks of first parents. A file that was
  renamed on one side and edited on the other gets a new Trunk in the merge and its
  original is dead. A new file at a renamed file's old path continues that file's Trunk, which
  is what `HistoryBlame` finds. A resolution may be finalised twice. Of two first commits
  with one tree (an amended first commit, an orphan branch) the one that is imported second
  continues the state of the other (`git` 267-282, 539-577), so that two clones may have
  different states of the same commits.
- *Delivery.* After a restack in a later second the branch does not descend from the one on
  the forge, and `push_branch` asks for no force (`git` 2289): Git refuses it, whatever
  is published next.
- *Patches.* The search for a patch's place accepts matches that do not overlap: among
  repeated lines, two places may be told apart that are one, or one taken that is wrong
  (`projection` 217-226). Changed lines that belong to no atom are dropped.
- *Views.* Two advances at once can drop a commit (`AdvanceKeepsCommits` holds one
  command at a time). A view that is half created or half deleted keeps its name
  unusable until plain Git repairs it. A view that was just created or fetched shows
  operations that nobody compared with a state.
- *Planning.* A unit that waits for another repository is never projected, also when the
  work there was published (`projection` 306-341).
- *Changesets.* A review decision rebuilds the changeset of its stack without the
  dependencies it had.

## 4. What is proved

Properties are proved of each module's own specification, not of the MC modules that
check several side by side, and for every value of the constants that satisfies the
module's assumptions.

| Proofs | Theorems |
|---|---|
| `SemanticProofs` | `SignedRevisions`: types, quorum, unbroken history, acknowledgements, immutability, the register; `SemanticHistory`: `HistoryKept`, `ImportIsDeterministic` |
| `LedgerProofs` | types, nothing lost, links, no cycles, `SerialChainVerifies`, `OneRoot` |
| `ReviewPublicationProofs` | types, `ReferencesResolve`, `OneAccepted`, `OneDecision`, `SerialDecisionDelivered` |
| `DeliveryProofs` | types, `PublishedHasReview`, `ParentRecorded`, `DeliveredIsFetchable`, `EvidenceFirst`, `PublishedIsRemote` |
| `ChangeSetsProofs` | types, `IntegratedWasEvaluated`, `IntegratesAfterDependencies`, `IntegratedOrdered` |
| `PipelineProofs` | `Capture`: `CoverageSound`, `LinksAreStarted`; `Planning`: `PlanningSound`, `SiblingsAreRefused` |
| `PatchesProofs` | `TextSound`, from `MergeSound` and `ProjectionRebuilds` |
| `SharedProofs` | `Views`: `ViewShowsVerified`, `AdvanceKeepsCommits`; `Webhooks`: `RecordsOnce`; `Status`: `StatusSound` |

Recursive functions over commits, chains and closures (`Upto`, `Above`, `WholeImport`),
over places in two texts, and rounds of planning, are reached without an induction rule:
that such a function exists and is the only one is shown by the smallest number at which
it would fail, which every non-empty set of naturals has.

*SignedRevisions.* The inductive invariant adds to the type: every document a publisher
carries past `put` is an object; one at `reference` is also signed; a carried document
says the truth about the revision below it, which is still there because nothing is
unbound; and acknowledged documents are bound and signed. The checks before the writes
are not enough by themselves: that a revision is bound once follows from the creation
without force, and the link of a draft stays true only because `bound` never shrinks.
`NeverRewritten` and `ImplementsRegister` are step properties proved from the same
invariant. Assumption: a policy minimum of 0 or 1 signatures (`QuorumAssumption`), since
no command co-signs.

*Ledger.* The inductive invariant says that what a writer has seen is visible, that what
it signed links to something visible, and, while the clock is steady, that stamps are
below `now`. The proof of `SerialChain` adds that an exclusive writer has seen
everything when it signs, even across the migration, and that an event with the greatest
stamp extends a continuous chain. `OneRoot` needs no steady clock: a process alone has
read all there is when it links, and a finite set of events that is not empty has a last
one in the sort order (`HasLast`: of the sets without one, a smallest would lose an
event and still have none), so a second root is never signed. Assumption: the old
document is a finite continuous chain stamped before the upgrade (`LegacyAssumption`).

*ReviewPublication.* Two inductive invariants, one on top of the other. `ReviewInv`
follows a process through `persist_review_plan`: once past `store_review_plan` its
decision is public, no two published decisions share a plan revision, what it made is
published and of its units, and what it is about to write refers only to what is
published. That gives `ReferencesResolve` and `OneAccepted`. `ChosenInv` adds what each
document is about: what a process made, and the pull request it is about to store, is of
its decision and of one reading of the worktree, one per unit; and a stack is `Decided`,
its pull requests agreeing with each other and with the shape of their plan.
`DecidedStays` carries that over every later publication: a new pull request is not one
the stack selects, because revisions are bound once, and a new plan revision is not the
one it names, because that is published already. The selection is then in bijection with
the units, which is `OneDecision`. `SerialDecisionDelivered` rests on a third
(`SubmitInv`): from the stack on, a process holds documents of its own decision, and one
that is alone and has yet to compare its decision is ahead of every published revision
of the plan, so that what it finds published and skips is what it would have written.
Crashes need no argument of their own: no conjunct speaks of what comes after the step
at which a process dies. Assumptions: shapes are non-empty finite sets of units, units
are numbers (`ShapeAssumption`, `UnitAssumption`), and the bounds are numbers
(`BoundAssumption`); how large is immaterial.

*Delivery.* `DeliveryInv` follows a command through reset, commits, records, pushes and
publications and says what it has established at each: what it committed so far is of
its decision and stacked in order, what it recorded is in the projections, what it calls
published has a branch and a review on the forge. Projections and the forge's reviews
are only added (`Grows`), and what a command holds is preserved by everyone else's steps
for that reason alone, so `PublishedHasReview`, `ParentRecorded` and
`DeliveredIsFetchable` hold for commands that race. `EvidenceFirst` adds that one
command at a time has pushed every decision before it pushes a branch (`TurnInv`).
`PublishedIsRemote` adds, where every restack finishes, that branches are as the newest
projections say but for what is being restacked (`CalmInv`); commits of one unit are
stacks of equal depth, so that a push without force replaces a published commit by
itself only. Assumptions: units are finitely many numbers, parents come first
(`UnitAssumption`, `ParentAssumption`).

*ChangeSets.* The inductive invariant says that documents refer to documents that exist,
and what each command holds: an integration's base revision is still in its place and
active, and what its checks established of it (published, approved) is about documents
that are only ever appended to. `Grows` names that, and `HeldStays` and `EvaluatedStays`
carry it over every step of somebody else. The store after the race is the interesting
case: it succeeds only where it appends next to its base, or where the same revision is
there already. For `IntegratesAfterDependencies` the invariant adds that one command
runs at a time, so that every changeset an integration read is still the newest; without
`exclusive` the property is false. `IntegratedOrdered` holds for commands that race: a
graph (`Waits`) has the dependencies of every integrated changeset and, for an
integration that may yet store, what it read as integrated and is so no longer. That
graph has no loop (`Acyclic`): an edge of the second kind appears when a changeset is
revised, which then waits for nothing, and what an integration stores waits for what it
read, which it found an order for, or for what is in the graph already. Assumption:
every stack alone may be a changeset, and none is empty (`GroupAssumption`).

*Webhooks.* The inductive invariant says that a delivery is carried by one request in
flight, that whoever is past the mutex holds it alone, that what is in the retry set is
in the ledger unless that request has just put it there, and that a request about to
append carries what the ledger does not hold. The set alone does not prevent a second
event, since it is empty after a restart, and the ledger alone does not either, since it
is read before the append: the mutex held over both is what the proof rests on.
`WebhookRecordsOnce` needs no assumption on the constants and no fairness. One server
process is assumed, as in the module.

*Status.* The invariant follows the read order of the handler: the role it checked, the
root it read, the closure it collected, what of it is published. Each was true at some
moment since the question was asked (`seen` and `ended`), documents of a policy only
ever accumulate, so a grant that has ended stays ended (`EndedStays`), and the answer is
made of nothing else. Assumptions: grants, teams and revocations refer to documents of
the right kind (`AccessAssumption`), a changeset selects revisions of its own stacks
(`StatusAssumption`).

*Capture.* `CoverageInv` says that whatever is carried from one read to the next, by a
shell, a hook, `session.json` or the ledger, is backed by what was mediated: above all
that while a captured program runs, what differs from its first look at the worktree is
mediated, which an edit in between cannot make false. Backed means named (`Cover`): the
files that the mediated names stand for, which matching once more does not enlarge,
since suffixes of suffixes are suffixes. `LinkInv` says that a hook about to write its
link has seen the session start. Assumption: who may run at once is made of shells and
hooks, bounds are numbers, suffixes are transitive and a name ends with what is left of
it without the worktree's prefix (`CaptureAssumption`).

*Views.* `ViewInv` says that the metadata of a view that is not `given`, and the
metadata an advance, a filter or `unrecord_view` carries to its last step, shows
operations of a verified state of the commit it names; what they read may be given, what
they write is not; a verified state stays verified. `AdvanceKeepsCommits` adds that an
advance whose checks were passed has the branch's tip below its target until both refs
have moved, which is true of one command at a time only, and uses that ancestry is
transitive and unchanged by later commits (`AncestryStays`).

*Planning.* The invariant says what each stage has computed from the input; the work is
in what the algorithms compute. Hard components, completion and ancestors are one
pattern (`Grown`): a set grows by what a step adds to it, as often as the set it lies in
has elements, and by then it is closed (`GrownCloses`), because each earlier round that
was not closed added an element. From this follow that components partition the atoms
(`ComponentsPartition`) and are the smallest sets that split no hard edge, and that a
round-by-round order is complete exactly when nothing loops (`OrderedIffNoLoop`): what
is left over at the end waits for something left over. The two causes of a loop follow
edge by edge (`LoopHasCause`): when no two files have a test, every unit of a loop that
is not in the tests' file follows imports only and stays in its file, and a loop along
imports has two units that hold an import among other things. Assumptions: there are
files, finitely many, and a syntax tree has finitely many boundaries
(`PlanningAssumption`).

*Patches, the merge.* A walk over two texts aligns pairs of equal tokens in rising order
(`AlignedFacts`), so the edits of a side follow one another in the base (`EditsCut`).
Applying them to the base gives that side (`EditsRebuild`). Where two sets of edits do
not clash and share none, their union follows one another too, and from the end of the
base backwards the merge and the base hold each token as often as the two sides together
(`CountsAdd`): at an edit of one side the other side keeps what the base has.

*Patches, the projection.* `Passed` and `ChangedLines` are followed to what they leave
out: a line neither reported nor unaligned stands in the old file, beside the same
neighbours where these stay as well (`UnreportedStays`, `FrameExists`). This is where
the two diffs, which break ties differently, must agree, and they do for texts without a
line that occurs twice. Lines that each end in their only newline can be told apart in
the characters of a text (`LinesAreClean`): where a piece of whole lines is found, it
begins within some line and ends with one, and as no line is the end of another it
begins where a line does. `Staged` is what every text on the way is: the lines that
stay, in order, and between two of them either all of the old file's lines or all of the
new one's. A pull request's run of lines fills such a gap, because unchanged lines are
around it (`RunIsGap`); its fragment is what the old file has there, its context the
lines that stay (`FragmentOfGap`); so it occurs once in the text, whatever other pull
requests have been projected before (`OnlyThere`, `FitsOnce`), and exchanging it gives a
text that is `Staged` again (`GapCarried`). When all lines have been carried that text
is the new file (`StagedLast`). `ProjectionInv` carries this along the projection of a
stack. Assumption, for both: files, texts and stacks are sequences, and files are made
of lines as `split_inclusive` makes them (`TextAssumption`).

*SemanticHistory.* `KeepInv` says that commits come after their parents and that each
state is accountable: every Trunk is known by the path it was first seen at, with its
insertion among the operations. States are a function of the commit's tree, its renames
and its parents' states, so a history that grows leaves them alone, and `HistoryKept`
follows from one commit to the next along the shortest path on which it could fail. For
a clone that only imports, `ImportInv` adds that a commit has a state only if its
parents have, that this state is the one its parents' states determine, and that a merge
in progress and the resolutions name states that stay; then every state is the one
`WholeImport` computes, by the condition on roots also for a commit without parents.
Assumption: trees are functions on finite sets of numbers that stand for paths, and
blobs have symbols (`HistoryAssumption`).

Only model-checked: the three liveness properties (`WatchersEnd`, `RetriedAdvanceLands`,
`EveryDeliveryAcknowledged`), which need `ENABLED`.

## 5. What is not modelled

- Cryptography, hashing and serialisation: taken to be injective and sound.
  Key rotation, attestations, memories and validation receipts are stored once and read
  by nothing that changes state; the vault is encryption and file I/O.
- The eight agents' adapters: parsing of payloads and transcripts and installation of hook
  files have no state. What a hook does with what was parsed is in `Capture`.
- The PostgreSQL index (a rebuildable read index, one upsert per row), the ports
  (trait declarations), argument parsing, configuration files, `doctor`, printing, HTTP
  routing, comments and checks on the forge: pure I/O.
- Policy validation commands are external processes.
- `verify_orkia_refs` folds the verification of one state, which is modelled, over all.
- Reading a set of refs is one step, and so is each libgit2 call. A push that returns
  `Ok` is taken to have moved its refs, although the code registers no callback that
  would tell it of a rejected one.
- A policy that asks for two signatures: nothing co-signs, so such a repository never
  publishes a second revision (`QuorumAssumption`).
- Repositories are not told apart in `ChangeSets`; they are in `Status`.

`PROJECT.json` names under `hazards` those that no property covers and why.

## 6. What is left

1. Review publication, delivery and changesets over one set of plans, where a later
   decision drops what an earlier changeset depends on.
2. A decision log that review publication implements, with stacks as its entries.
3. Two clones that materialise different histories and exchange their states.
