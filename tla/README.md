# Varar: specifications, model checks and proofs

Varar turns Markdown documents ("oaths") into tests: a sentence that matches a
step definition is a step, and everything else is prose. This directory holds
TLA+ specifications of the TypeScript implementation (`src/typescript/packages`),
TLC configurations that check them on small instances, and proofs of their main
results for every instance, checked by TLAPS. Paths below are relative to
`src/typescript/packages` unless they start with `src/`.

1. [The system](#1-the-system) – inventory: parts, state, interactions, hazards
2. [Modules](#2-modules) – which module models what, and how it corresponds to the code
3. [Runs](#3-runs) – what TLC checks, the bounds, the fairness
4. [Proofs](#4-proofs) – what is proved, from what, by which argument
5. [Findings](#5-findings) – where code and documentation, or code and intent, part
6. [Limits](#6-limits) – what is only model-checked, what is not modelled
7. [Plan](#7-plan) – what comes next

To use it: `tlc -workers 2 -config X.cfg M` for a run of `PROJECT.json`
(`module` and `cfg` of the run) and `tlapm M_proofs.tla` for a proof module.

## 1. The system

### 1.1 Components

| component | packages | state it keeps | operations | modelled |
|---|---|---|---|---|
| Scanner, sentences, structurer | core | none (pure) | `scan`, `splitSentences`, `structure` | `Scanner`, `Sentences`, `Outline` |
| Matcher and planner | core | an example under construction, the chain of references | `resolveHits`, `planCandidate`, `plan`, `resolveReference`, `buildWorkspace` | `Candidate`, `Planner` |
| Executor | core | per example: one state object per step file, the error thrown, notifications sent | `executePlan`, `collectExamples` | `Executor` |
| Drift | core, vitest, lsp | `varar.lock.json`; baselines parked in a worker; task metadata of a run | `detectDrift`, `deriveOathBaseline`, merge and prune by the reporter, the editor's accept | `Drift`, `DriftGate` |
| Language server | lsp | open buffers, the files on disk, the `writes` and `inFlight` promise chains, a timer, the current index, run results | edits, every request, accept, file events, publishing | `IndexPipeline`, `FreshIndex`, `Diagnostics`, `Rename`; of the read-only requests, hover (`Planner`) and tokens (`SemanticTokens`) |
| Workspace index | language | caches of scans, documents and plans that live as long as the server | `buildWorkspaceIndex` | `IndexCache` |
| Vitest adapter | vitest | the workspace inlined in each virtual module | transform, collect, run, report | `DriftGate`, `IndexCache` |
| Step builder and registry | varar, core | module-scoped: registered steps, parameter types and state factories | `steps()`, `_resetBuilder`, `buildRegistry`, `contextFactory`; `addStep`, `defineParameterType` | `RunWorker` |
| Playground | website | the current worker, timers and listeners, per-editor decorations | `runOath`, typing, accepting; in the worker `onmessage` | `RunClient`, `Playground`, `RunWorker` |
| Editor widgets | website | per view: text, selection, a replay, an affordance; `busyUri`, the tab, the language; tokens and their requests | version button, keystrokes, selections, defining a step, tabs, language; `run()` of the tokens | `EditorViews`, `SemanticTokens` |
| Command line | cli | the directory it scaffolds | `init`: a runner is resolved, seven places are written | `Scaffold` (not `lint`) |
| VS Code extension | vscode | none | the rename provider, "generate step definition" | `Rename` (the first) |
| Results, configuration, tree-sitter scanner, snippets, conformance corpus | several | see `PROJECT.json` | | no, see §6 |
| Ports to Python, Ruby, Go, Java, .NET and Rust | `src/<language>` | | held to the same golden files as core | no |

### 1.2 How they interact

```
 editor ──edits, requests──▶ language server ──writes──▶ files ◀── author, other programs
   ▲                          │   │      ▲                 │
   │ diagnostics, edits       │   │      └─ .varar/*.json ─┤ (file events)
   └──────────────────────────┘   │                        │
                     buildWorkspaceIndex                   ▼
                     (scan, structure, plan)        vitest: plugin ─▶ worker ─▶ reporter
                                                     │  inlines text, workspace, baseline
 playground editor ─▶ runOath ─▶ web worker ─────────┤  collect, drift gate, execute
        ▲───────── answer or timeout ────┘           └─▶ .varar/*.json, varar.lock.json
```

- The *server* is one JavaScript thread: handlers interleave only at `await`, but
  every read and write of a file is an await. Two promise chains impose order
  where it matters; a command that goes around the chain shows what happens
  without (`Next` of `IndexPipeline`, as against `EditNext`).
- The *test run* is three contexts (the plugin in the vite server, a worker per
  file, the reporter) that hand data on through inlined modules and task
  metadata, while authors go on editing and the server may write the lock file.
- The *playground page* talks to a worker that may never answer; the worker runs
  several requests interleaved over module state that is shared between them.
- The *editors of the page* talk to a language server in a worker of its own: texts
  and requests travel one way, tokens and notifications the other. A view is
  written to by its user, by a replay of timers, and by an answer to a request.
- Oaths depend on each other: a reference block splices in a section of another
  document, and what is spliced in is not a test of its own any more. This makes
  planning, caching and drift questions about the whole project.

### 1.3 What is hard about it

`PROJECT.json` lists every hazard at its line under `hazards`. By group:

- *Stale answers*: a request answered from an index older than the edit it is
  about; a cached plan used after something it depends on has changed; an index
  that is read again after an await; records and squiggles that outlive what they
  were about; edits that carry ranges of a document that has changed.
- *Overlap*: two reindexes, two file events, two publishes, two runs, two writers
  of the lock file.
- *Silent loss*: an example that stops matching is prose, and nothing fails. Every
  part from the planner to the reporter can lose an example without a trace.
- *Time*: debounced reindexes and runs, timeouts of runs that hang, results that
  are written when the run is over, replays and selections whose timers fire when
  the text has changed.
- *Breaking off*: a scaffold of seven writes, any of which may throw.
- *Grammar*: what delimits an example, ends a block, is inside a quotation; which
  of several overlapping matches is a step.

### 1.4 What makes each component correct

| component | it is correct if |
|---|---|
| Edit pipeline | answers hold every edit sent before the question, disk and index never go back, every edit is indexed in the end, and no failure stops that |
| Diagnostics | in the end the editor shows exactly what the records and the index say of each document, and records are about the text they name |
| Rename | after a rename the sentences that were steps still are, and the handler takes what the expression captures |
| Index cache | the cache is invisible: each plan is the one made without it |
| Scanner, sentences | every line and character is somewhere, once; fences, tables and quotations stay whole |
| Planner | the steps of an example are the depth-first flattening of its references; every matching paragraph runs somewhere or is reported; resolution ends |
| Candidate | longest and leftmost matches become steps, in order, all or nothing; attachments go to the last |
| Executor | an example passes exactly if all its steps ran and answered; examples share no state |
| Step builder and registry | a run plans with the steps and types of its own files, fails for their faults only, starts from its own state and never meets that of a run before it |
| Drift gate | an example that decays is reported until somebody accepts it; the lock changes only in a run that earned it; accepting settles the matter |
| Playground | answers reach their callers, no dead worker is posted to, an editor shows its own runs, a text that stays is run |
| Editor widgets | what a view holds was asked for or left by its user; a button offers what is selected, and comes back; tokens settle on the texts as they are |
| Command line | `init` clobbers nothing, may be broken off anywhere and run again, and what it leaves runs |

## 2. Modules

`A ▷ B` is "A EXTENDS B". Each module opens with what it abstracts; the line of
code behind every definition is in `PROJECT.json` under `map`. An MC module that
stands for several models is their sum: each of its behaviours is one of theirs,
and in the others nothing happens. A definition under a `Mutant:` comment is a
deliberately wrong form of the one after it: it documents
which bug a property notices, and no specification uses it.

| model | instances | proofs | code |
|---|---|---|---|
| `FreshIndex` (abstract), `IndexPipeline` | `MCIndexPipeline` | `IndexPipeline_proofs` | lsp `server.ts`, `store.ts` |
| `Diagnostics` | `MCResults` | `Results_proofs` | lsp `server.ts`, `run-results.ts`; core `run-diagnostics.ts`; vitest `reporter.ts` |
| `Rename` | `MCText` | `Text_proofs` | lsp `handlers.ts`; vscode `extension.ts`; core `expression-segments.ts` |
| `IndexCache` ▷ `Outline` | `MCProject` | `Project_proofs` | language `index-workspace.ts`; vitest `workspace.ts`, `runtime.ts` |
| `Scanner` | `MCText` | `Text_proofs` | core `scanner.ts` |
| `Sentences` | `MCText` | `Text_proofs` | core `sentences.ts` |
| `Candidate` | `MCText` | `Text_proofs` | core `matcher.ts`, `plan.ts` |
| `Flattening` ▷ `Planner` ▷ `Outline` | `MCPlanner` | `Planner_proofs` | core `plan.ts`, `reference.ts`, `structurer.ts`; lsp `handlers.ts` (hover) |
| `Executor` | `MCExecution` | `Execution_proofs` | core `execute.ts`, `cell-diff.ts` |
| `DriftGate` ▷ `Drift` | `MCResults` | `Results_proofs` | core `drift.ts`; vitest; lsp `store.ts` |
| `Playground` ▷ `RunClient` | `MCPlayground` | `Playground_proofs` | website `run-client.ts`, `editor-mount.ts`, `cm-run.ts` |
| `RunWorker` | `MCExecution` | `Execution_proofs` | website `run-worker.ts`, `run-oath.ts`; varar `internal.ts`; core `registry.ts` |
| `EditorViews` | `MCEditors` | `EditorViews_proofs` | website `editor-mount.ts`, `replay-plan.ts`, `cm-generate-step.ts`, `site-lang.ts` |
| `SemanticTokens` | `MCEditors` | | website `cm-semantic-tokens.ts`; lsp `server.ts` |
| `Scaffold` | `MCProject` | `Project_proofs` | cli `init.ts`, `runners.ts` |

### FreshIndex, IndexPipeline

`FreshIndex` is the promise alone: texts are typed, some are lost when their write
fails, an index moves forward, and a request is answered from an index that holds
every text that was sent, and not lost, when it asked. It has no timers, chains or
files.

`IndexPipeline` is how the server keeps it. A text is its number, so that "older"
is `<`. `buffer` is what `documents` holds, `disk` what the file system port does,
`queue` the links of `writes` that have not settled. A promise of `inFlight` is
how many links must settle before it does: `chain` for its tail, `behind[r]` for
the one a request awaits. `settled()` is `Settled`: it clears the timer and, if the
server is dirty, chains one more link. A link awaits the writes there were when it
started (`LinkStarts`, `WritesAwaited`), then runs `reindex` one await at a time:
list, read step files, read oaths and build, read the lock file. The drift that the last
step appends to the index is not kept: no answer's freshness depends on it.
`varar.acceptDrift` runs a reindex beside the chain; files may vanish between
listing and reading. `EditNext` is the server without accept commands and
vanishing files, about which the comments make their promises; `Next` has them too.
`AcceptSpec` is `EditNext` and the accept commands, in the order of the event loop: a
handler whose promise has settled resumes before the next read or write of a file ends.
`ImplementsFreshIndex` says that every behaviour of `EditSpec` is one of
`FreshIndex` under the mapping of `INSTANCE FreshIndex WITH`: what was sent is in the
buffer, what is known in the index, a request is pending while its handler waits, and
what it is owed is what the buffer held when it came.

### Diagnostics

Run results (`files`), file events that the editor may deliver late, handlers of
`onDidChangeWatchedFiles` suspended at their reads, the records of run-results.ts,
and every `publishFor` between taking the results and sending them. Runs plan from
the texts they read and write results with the texts there are when they end.
A publish of a document that is not open suspends while its text is read
(`Reads`); one of an open document does not.

### Rename

Two oaths of lines, each line a wording with values and perhaps a table below. The
provider asks for values site by site while the user may type in another oath, and
the edits at the end have the lines of the plan. The sites of a plan are a set, and the
order in which the index has them (`Precedes`) says which is next; the answers to the
prompts of a site are a function of the parameter. An expression is `plain` if it is text
and parameters only; of any other `renderExpression` writes the optional and alternative
text verbatim (`Rendered`), a wording that the expression need not match. `HandlerSync` is
`buildHandlerSync`: the parameters of the handler after a rename, each either the
author's own (`Reused`) or one with a fresh name, which counts how often those before it
have claimed that name (`Used`, what `usedNames` holds when the loop comes to it).

### IndexCache

A *plan* is the tuple of everything `plan()` reads, so two plans are equal only if
they were made of the same things; a *key* is the tuple of everything that is
hashed. That the cache is invisible is then a question of whether the key has
enough in it. `RuntimePlan` is the plan the vitest worker makes of the few oaths
inlined for it.

### Scanner, Sentences, Candidate, Planner, Outline

The text pipeline, each stage with the data that the next one can tell apart.
`Scanner` goes line by line, a line being its kind; `Sentences` character by
character, a character being its class; `Candidate` takes the matches of a
paragraph as offsets, and is a machine, one step for each turn of the loops of `planBlock`
(the next sentence) and `resolveHits` (`Keep` or `PassOver` the next match), then one of
what follows the paragraph; `Outline` takes a document as its blocks, each with what
`planCandidate` would make of it. `Planner` is `plan()` as a machine: the host
document, its remaining candidates (`units`), the example that is `open`, and the
calls of `resolveReference` as a stack (`frames`), since nested references are the
code's recursion. `Flattening` has the recursive definition of what the steps should
be (`Flatten`, a function of some places of a document and the sections being
resolved), and `DepthFirst` compares the machine with it. When all is planned, a
reader may hover on one reference of the project (`HoverReference`): the server plans
the referenced document a second time, with everything in it a candidate, and picks
the examples that the section has headings of, whose steps it shows (`StepsUnder`).
`HoverShowsTheSplice` compares these with what the reference splices in.

### Executor

Every example of a plan as a process that is suspended at each await: at the
context factory and at a handler. A handler rejects, or returns what the comparison
can tell apart: nothing, null, a scalar, or an object with an answer for each slot of
its step (a parameter, a table, a doc string) or for the column of a row. `AnswersSlots`
is what the code accepts of it, with its order of checks; `Answered`, in the
properties, is what the document asks. `observed` is what the observer is told.

### Drift, DriftGate

`Drift` is the pure algorithm on names as sequences of words: similarity as an
exact fraction, ties by line. `DriftGate` follows the lock file through a run:
transform (`loaded`), collection in a worker (`pending`), tests (`meta`), merge and
prune in the reporter, each with its separate read and write, while the author
edits oaths and step definitions and the editor accepts.

### RunClient, Playground, RunWorker

`RunClient` is the protocol: a page, workers that are spawned and terminated, a
queue each way, runs that hang the worker or never answer. `Playground` adds
editors that debounce their runs and decorate their text with what comes back, and the
button that accepts drift, which stays up through edits until a later outcome says
otherwise (`drifted`).
`RunWorker` looks inside one worker: module-scoped builder state that each message
clears and refills while the examples of an older one are still suspended; `later`
records which messages came after which, and is read by properties only. Its step
files define steps by expressions and declare types; two of them may clash, one may
use a type that only another declares, and one may throw half-way, and
`buildRegistry` makes a registry of it or an error.

### EditorViews, SemanticTokens

`EditorViews` is one editor: documents as short sequences of characters, a selection
each. A replay is the keystrokes of `PlanReplay`, for every longest common subsequence
that the diff library may choose; each of its ticks moves the caret a step or applies
a keystroke. Typing, inserting a definition and another click cancel it. `busy` is
the one variable that all replays share. `SemanticTokens` is several views and the
server: a text is its number of edits, and tokens are what they were computed from,
so that stale ones can be told. Of the server it has the chain of reindexes, which is
`IndexPipeline`'s with fewer awaits.

### Scaffold

`varar init` as one action for each of its seven places, in the order of `runInit`,
any of which may throw instead. The author edits scaffolded files, pins versions and
adds what init asks for by hand, at any time. `author` is the project as it would be
had init never run: `NeverClobber` and `Converges` are stated against it. A config is
the features that `wireVitest` looks for.

## 3. Runs

A *pass* run must end without error. A *violation* run checks one statement that
the repository makes and that the code does not keep; see §5. Distinct states are
those of TLC's complete search.

| run | states | shows |
|---|---:|---|
| `pipeline_edits` | 72,859 | answers are fresh, disk and index never go back, every edit whose write succeeds is indexed, refinement of `FreshIndex` |
| `pipeline_faults` | 46,537 | with accept commands and vanishing files every request still resumes, by answer or rejection |
| `pipeline_accepts` | violation | an accept command reindexes beside the chain, and an answer lacks an edit |
| `execution` | 392,317 | verdicts are those of a reference definition over the returns alone, handlers get the state of their own example and file; overlapping runs of the worker plan with their own steps and types, fail for their own faults only, start from their own state, and never meet that of a run before them |
| `results` | 2,328,632 | no example stops matching in silence; entries of the lock change only if earned; what a plan records is clean; a name that is still there is recognised; however handlers and publishes overlap, open documents end up showing what the records and the index say |
| `drift_overlap` | violation | the editor's accept and the reporter overlap, and an example decays in silence |
| `page` | 107,160 | the page never posts to a dead worker, editors show their own answers, a text that stays is run |
| `planner` | 1,532,566 | depth-first flattening, end of resolution, nothing lost, examples are longest runs between delimiters, a hover shows what its reference splices in |
| `project` | 419,511 | the cache is invisible, the worker's plan is the build's, nothing loses its highlight; `init`, broken off and run again, clobbers nothing, converges, and leaves a project that runs |
| `editors` | 105,018 | a view holds what was asked for or left in it, the affordance fits the selection, the version button comes back, tokens settle |
| `version_button` | violation | the version button is enabled in the middle of a replay |
| `text` | 1,946,951 | every line in one block, fences whole, sentences cut outside of zones, steps longest-leftmost, all or nothing; after any rename the sentences still match, or keep their values where the expression is not plain, and the handler fits |

### Properties with exceptions

Some properties hold of the code only with an exception. Each is part of the
property, and §5 says what happens in the excepted case.

- `VerdictsAreEarned`: a context factory that rejects, which fails an example whatever its
  fence expects (`ContextRejected`); a handler that rejects with `undefined` (`RejectedEmpty`); a
  table or doc string that a tuple of several slots leaves undefined; the row of a
  bound table, of which only an undefined return and a column that differs count.
- `CutsOutsideZones`: zones after a delimiter that nothing closes (`AfterStray`).
- `StaysRunnable`: sentences bound to a table, and an oath into which a line was
  typed above while a value was asked for. Where the new expression is not `plain`, the
  sentences keep their values and need not match.
- `NoSilentDecay`: a run whose transform read the lock before the entry was replaced
  in the editor answers for the entry it read; an oath whose section is referenced
  meanwhile; and one oath only, since with two a record can be lost (`drift_overlap`).
- `ExamplesRunOn`: an example is the longest run but for references that are reported:
  these bring no steps, may be left out at its ends, and do not end it even where a
  delimiter stands before them. It is named by the first matching paragraph in it that is
  its own: one that another oath (or this one) refers to is planned where it is referred
  to, and may lie between. A delimiter after a reference ends the example, as the code
  has it and a design document does not (§5).
- `NothingLost`: where nothing is reported of any oath and references form no cycle.
- `ExactNameWins` is checked and proved where no two names have the same words.
- `ContextsNeverOlder`: the state that an example starts from is its own run's; that of a
  step file it comes to later may be a newer run's, or empty if a newer run left the file
  out.
- `HoverShowsTheSplice`: a project whose references form a cycle, and a document that
  does not plan without diagnostics.
- `RunsShown` and `ProblemsShown` are of open documents, when all is quiet.
- `ScaffoldRuns`: a run that asks for something by hand, and a config whose own
  plugins, `test` or reporters come later than those that init adds and are no
  literal (`Overridden`); vite then takes the author's.
- `TokensSettle`: a view whose last request was given up.
- The promises of the pipeline but `RequestsGetAnswered` are of `EditSpec`.

### Bounds, and why they are enough

- *Pipeline*: one step file, one oath, two texts each. One file of each kind is what
  `reindex` reads at different moments; two texts let one be in flight while another
  is read. `pipeline_edits` has one request, which finds the chain at every point of
  its progress; the theorems are for any requests, files and texts. `pipeline_accepts` has
  one text of each and one accept command.
- *Execution*: `MCExecution` is the sum of two specifications. Of the executor, two
  examples over two step files, plans of up to three steps and two slots; every
  return and rejection of every handler. Three steps of two files are the least
  with a state that is replaced, left alone and read again. Of the worker, two
  messages, two step files of four kinds (`StepSources`), two examples, two steps each
  (`MaxOathSteps`) and two in all (`OathSize`). One message
  that interrupts another is all there is to interference here, since a message
  leaves nothing but the last builder behind. The two cut-offs bound the oaths that
  are looked at, and no state of theirs.
- *Results*: `MCResults` is the sum of two. Of the drift gate, two paragraphs of one
  oath (which one is the recorded one is the question), with names that sit above and
  below one half. Two runs show what one records and the next finds; two edits and one
  quick-fix fall anywhere between. `drift_overlap` has two oaths with one paragraph.
  Of the diagnostics, an
  oath that is open and a document it references that is not, so that its publishes
  read; two texts, two results, two handlers at once.
- *Page*: two editors and two acts of the reader, edits or clicks, so that there are
  four calls, and as many workers as the calls can spawn: nothing is cut off.
  Workers and calls are taken in a fixed order, since nothing tells them apart.
- *Planner*: 29 thousand projects of two oaths, five or six blocks each: every
  combination of steps, prose, tables, error fences, breaks, and references to the
  own or the other document, to a whole file, to nothing, or to an ambiguous
  heading. References form chains, cycles and diamonds.
- *Project*: `MCProject` is the sum of two. Three oaths, so that a reference can be
  indirect, with chains and cycles; sessions of two edits with a reindex after any of
  them (the proof covers all). 489 directories: every package.json and every form of
  a config with the other files as they are told apart; two runs of init, each ending
  anywhere, and one edit of the author anywhere.
- *Editors*: `MCEditors` is the sum of two. An oath and two step files, the oath and
  one of them with two versions, the oath's with two characters that change places
  behind a line break; two clicks, a key, a selection, a definition, one switch of tab or language
  (two where the button is found enabled: away and back). Two views of the language
  server, one keystroke and one rejection: the views' requests cross anyway, since
  each asks when it is mounted, when its text settles and at every index.
- *Text*: `MCText` is the sum of four. Of `Rename`, expressions of up to two parameters
  of two types, plain or not, three sentences in two oaths, one line typed meanwhile. All oaths of
  up to four lines of every kind (a table needs three, and one more to end it). All
  texts of up to five characters of every class: the longest
  look-around of the code, an abbreviation of two letters, has four. Two sentences,
  the first with up to three matches in three characters, which is every relation
  that two intervals can have, and chains of them. The handlers of `Rename` take what
  the expression captures, fewer or more.

Symmetry is declared only where the constants are interchangeable and only safety
is checked (the handlers of `results`, and the messages, step files and examples of the worker in
`execution`). Deadlock is checked in the pipeline, which always has an
action; all other systems may stop for good (`CHECK_DEADLOCK FALSE`): a plan is made,
a run is over, the bounded author has done all edits.

### Fairness

- `IndexPipeline`: weak fairness of writes settling, of the timer, of the chain's
  next step and of each resumption. They are promises of the file system and
  callbacks of the event loop. Nothing forces a user to edit or ask, and no write
  is forced to succeed.
- `EditorViews`: of the ticks of a replay, which are timers. Nobody need click, type
  or look at the tab.
- `SemanticTokens`: of the timers, of messages being taken in order, and of the
  server's reindexes. An answer is taken or given up.
- `Playground`: of the debounce timer, which fires when it is not re-armed, and of
  `setTimeout`'s timeouts. Workers owe nothing: a run may hang for ever.
- The other specifications have none, and their properties are safety properties.
  Diagnostics states what must be shown as an invariant of quiet states, in which
  no handler, event or publish is under way.

## 4. Proofs

All theorems are about the specifications that TLC runs, for all values of the
constants that satisfy the stated assumptions; `PROJECT.json` lists them under
`theorems`. The assumptions are sizes (`MaxTexts \in Nat`) and kinds
(`Names \subseteq Seq(STRING)`), and TLC evaluates each of them on its instances.

**`IndexPipeline_proofs`** – `TypeCorrect` is of `Spec`; the rest is of `EditSpec`.
`AnswersFresh` is not inductive: why an answer is fresh lies in what has still to
settle. `Inv` says what that is:

- `QueueInOrder`: writes wait in the order of their texts, all newer than the disk;
- `WrittenWithin(Len(queue), buffer)`: what was sent is lost, on disk or queued;
- `MovesForward`: index ≤ what the running reindex will have read ≤ disk ≤ buffer;
- `PromisesOwed`: a promise *d* links away owes the texts of those who await it –
  at 0 they are in the index, at 1 they are among the writes the link awaits, or
  on disk, or read; further away nothing is owed yet, because that link will await
  every write there is when it starts. If the server is not dirty, the tail of the
  chain owes every text there is;
- `ChainInOrder`: the phases of a reindex, and what it has read in each.

`NextInv` has one lemma per action (`EditInv`, `WriteInv`, `TimerInv`, …).
`FreshAnswers` and `NothingGoesBack` follow, and
`Implements` maps each step to a step of `FreshIndex` or a stutter: `RequestResumes`
is `Answer`, whose guard is `AnswersFresh`.

**`Playground_proofs`** – `IInv` (types, an answer is the call's own, the current
worker is alive) gives `PageTypeCorrect`, `PostsToTheLiving` and
`AnswersReachTheirCallers`. A response goes to every
listener of its worker, and runs are answered in any order; the request id, counted
over the whole page, sorts them out. `EditorsShowTheirOwn` needs that a call, once made, is not made
again (`NeverIdleAgain`), and that an outcome is dispatched to the editor that made
the call.

**`Planner_proofs`** – `ChainsAlwaysEnd`: the keys of the frames are distinct
(`Resolve` refuses one on the chain) and are all referenced sections of the project
(`LinkIsReferenced`). Numbering the frames is then a bijection onto the chain, so
there are as many frames as there are sections in it.

`NoParagraphIsLost` needs to know what has been seen to, not only what has run. A set
of sections is *closed* over the places that have run if each of their candidates is
among these or refers to a section of the set (`Closed`). While an oath is planned,
there is such a set (`Progress`) with which every candidate behind the machine is seen
to, and every frame has seen to what it is past, but for the sections above it on the
stack: a frame that returns puts its section into the set. A finished plan leaves a
closed set behind (`PlanComplete`). That references form no cycle then leaves no
matching paragraph outside: the sections from which a lost one would be reached would be
a set closed under being reached from within itself.

`ExamplesAlwaysRunOn`: every example so far, and the open one up to where the machine is,
covers consecutive blocks and begins after a delimiter (`RunsSoFar`, `IsRun`); whatever of
the oath's own the machine has passed since is a reference that was reported, and only
before such a one does a delimiter stand within (`BeginsWell`). Where no example is open,
the next block of the oath's own goes on from nothing but reported references (`Broken`).
What is reported only grows (`DanglingStays`), so that none of this is lost.

`PlansAreDepthFirst` and `HoversShowTheSplice` compare the machine with `Flatten`. That
there is such a function, and what it says of the first of its places (`FlattenAt`), is
known by descent (`FlatteningExists`): it goes from some places of a document to fewer of
them, or to those of a section with one section more being resolved, and `Size` counts the
sections not being resolved first and the places left second. The steps are compared as
the places they were written at. What a frame was called for is what it has spliced in,
then what the frame above it was called for, then the candidates it has left
(`CallsFlat`): so a frame that returns puts into the one below exactly what was owed
there (`ReturnInnerOwes`), and the outermost gives the example what its reference
flattens to (`OutermostBrings`). While an oath is planned, what its places come to is
what the examples so far tell, the open one included, and then what the units left come
to (`Tells`); when none are left, the examples tell all of it (`FinishedFlat`).

Of a hover the same is said of the places of the section alone, which needs that the open
example is under the headings of the last unit that was grouped (`ScopesKept`): only while
nothing is reported, since a reference that resolves to nothing lets an example run on
under the next heading (§5). The hover plans with no section being resolved, while the
reference resolves the section with itself on the chain. That comes to the same
(`Unreached`): were the section in the least set of sections that lead to it (`Leading`),
each section of that set would have one of the set within it, which is a cycle; so nothing
that is read on its behalf refers to it.

**`Project_proofs`** – Of the index cache, `PlansAreFresh`: the substance is
`KeyDecides`, that two projects in which an oath has the same key give it the same
plan, since the key has the document, the step definitions, the set of references and
every document that is referenced, and a plan visits no other. The invariant is that
each cached plan is the fresh plan of *some* files with its key.
`RuntimePlansAgree`: whatever a plan visits is reached by a path of references
(`PathOf`), and the documents that the plugin inlines are closed under them.
`ConsumedStepsHighlighted`: the calls of the reference walk are the paths without
repetition from a block that stands alone (`IsCall`); a section that is reached at all is
reached by one, cut short where it comes to a section twice (`CallGoesOn`), and the walk
labels its steps with the oath they are written in. `MatchesInv` says that an index has
the matches of its plans.

Of `varar init`, `ScaffoldInv` has a part for each of the seven places: what may differ
between the directory and the author's project, in which direction, and what is settled
once a run is past the place (`Past`). All of it must survive an author who edits, adds by
hand and pins in between, which is why it is stated as a relation between `disk` and
`author` and not as what a run has done. `InitNeverClobbers`, `InitConverges` and
`InitScaffoldsRunnable` follow from it without looking at a step again.

**`Results_proofs`** – `RecordsAreClean` rests on `RecordFindsNoDrift`: a live
paragraph is its own best match, since no similarity exceeds 1 and no other
paragraph is at distance 0. `DriftedParkNothing`, under `Isolate = TRUE` (a fresh
worker per file, vitest's default), follows one oath from its collection to the
reporter (`GateInv`); without isolation it is false (§5). `EntriesAlwaysEarned` adds that
what the reporter has read is still what is there (`WriterInv`). It assumes that there
is no second writer (`MaxFixes = 0`) or no second oath for one to undo (`Alone`): with
both it is false, for the reason that `drift_overlap` shows.

`DecayIsNeverSilent` has two halves. Under `Alone`, the lock holds the names that its last
writer recorded (`Vouching`), so a silent decay would be an example that a run compared and
found. And `ExactIsBest`: of the paragraphs of an oath, one with the very name has the
score 1, which another has only if it has the same set of words (`OwnScoreExceeds`, from
a fact about products of cardinalities). `KnownByWords` says that no other name has. Where
one has, the other paragraph may win by being nearer (§5); `ExactNamesWin` is the comment of
`drift.ts` with the condition it lacks.

Of the diagnostics, `RunsAreShown` and `ProblemsAreShown`. That something shows what it
should cannot be inductive, since most of the time nothing does. `ShownInv` says who owes
it: an open document shows what the records have in its text as it is now, or a handler
has it left to publish, or the index is dirty and the reindex to come will publish all.
`ProblemsInv` is the like for the index's own problems. A publish of an open document does
not wait (`Reads`), so that nothing older can land on it later; of the others, which
wait, nothing is claimed. There is no bound on documents, handlers or events in this.
`MCResults` runs the two side by side; `ResultsAreOfBoth` says that each of its behaviours
is one of each, so that what is proved of `Spec` and `D!Spec` holds of it.

**`Text_proofs`** – `TextIsThereOnce`: the blocks so far are disjoint, end before
the one being read, which ends at the line before the next, and cover what is behind
(`ScanInv`). `FencesAlwaysHold` needs one thing more, that a fence ends with the oath
or with a fence that is long enough for it (`FenceEnds`): where none stands between
two, the first cannot have ended before the second.

Of a text, `MarkInv`: the zones that the reference finds (`Zones`, a recursive function)
are those before some character, which are what is marked, and those from it on; there
the marking goes on, or has been ended by a delimiter that nothing closes. `Cut` and
`Whole` say what is cut behind, and that a zone is in a sentence or all of it ahead: a cut is
at no character of a zone, and the white space after it ends before a zone begins.
What is known of the recursive function is known by its least counterexample (`Least`):
that there is one (`ZonesExist`: what is right from a character on can be made right from
the one before), and that its zones lie ahead (`ZonesLieAhead`). `CutsAreOutsideZones`
follows when all is cut.

Of a candidate, `ChoiceInv` says how far `resolveHits` has come: what is left comes after
all it has come to, in the order of the code's comparison; the steps kept are in order,
each ends before the next begins, and `reached` is the end of the last. A match that
is passed over begins before `reached`, so that it overlaps the last step kept, which came
before it: `StepsAreLongestLeftmost`. Where no two matches collide that order is total.
`ReadInv` says the same of the sentences already read and of the diagnostics, for
`NothingRunsInPart`. `BodiesAssumption`, that a match takes at least one character, is the
reason why two matches at one place overlap at all.

Of a rename, `RenameInv` says what the plan, the edits made so far and the documents have
to do with each other until the edits are applied (`SitesOf`): in an oath that was not
shifted by a line typed above, the sites that are left and those already edited are the
lines that the definition matches, those to come hold what is on their line, and those
already edited hold answers of the types asked for where a parameter is new, and what was
there where it is kept. `Render` needs that the first of some sites exists and is one of them
(`FirstIsOne`, by the least number of a set, as induction theorems cannot be instantiated);
an expression that is not plain promises the values only. `SyncFits` is that the new
parameters of the handler have the types of the new expression. `RenamesStayRunnable` and `HandlersFollow` are what is left when `Apply` makes
all edits at once. `RenameAssumption` gives the types, and that a line typed between
sentences is no sentence of the definition.

**`Execution_proofs`** – Of the executor, `IInv` is `TypeOK` and, of each example, that it
is `Sound`: where it is suspended fits its step and what its handlers have returned
(`Underway`), each of its states is of its own making, by the last of its `Replacements`
(`Owned`), and an example that is over has earned its verdict (`Earned`). A step of
one example touches nothing of another, so that what is left is one lemma per action.
`AcceptsWhatAnswers` is where the code's order of checks meets the document: a
table or doc string comes last in a step, by `PlansAssumption`.
`HandlersOwnTheirState` and `VerdictsAlwaysEarned` follow.

Of the worker, `WorkerInv`: the registry of a run is that of its own step files, it is over
with the error that these call for (`OwnInv`), and an example that has begun has a context
for its first step, made by its own run, and none that is older (`BegunInv`). Every message
clears the module-scoped builder, so that it holds what the last one taken left in it
(`LastInv`), whoever looks at it; and the last is a message that came after each of the
others, or the run's own. Hence a step file that a suspended example comes to later has the
factory of its own run, of one since, or, where that one left the file out, none
(`ContextsAreNeverOlder`). That it is the example's own cannot be proved: it is not so (§5).
`RunsOwnTheirRegistry` and `ContextsAreNeverOlder` are for any number of messages;
`RunsAreOfBoth` is `ResultsAreOfBoth` of `MCExecution`.

**`EditorViews_proofs`** – `ButtonAlwaysFits`: what waits for the timer is selected,
too (`SelectionsOK`), because every transaction of the oath starts the timer anew or
stops it. A replay, a keystroke, an inserted definition are all transactions.

`TheUserWins`: between its first keystroke and its last a view holds neither text, so the
invariant (`ViewsInv`) says that the keystrokes a replay has left lead from the text as it
is to the text asked for, by some texts in between (`Makes`, witnessed by `Through`), and
that the caret lies in the text. Three things make it so. A plan leads from one text to the
other for every choice of characters in common, as long as they are in order in both
(`PlanMakes`: `BetweenMakes` follows the deletions and insertions from one such character to
the next, and `RowsMake` puts these together, by `FlattenIs`); that the longest are chosen
plays no part in it. Moving the caret there, row by row, changes no text (`CaretsStay`), and a
keystroke does what the plan has it do (`StrokeKeeps`). Anything else that changes the text
ends the replay. `VersionsAssumption` says that a file has a version to mount, and that texts are text.
What the library's recursion makes of a sequence (`FlattenIs`) is known by its least
counterexample (`Descent`), which is what induction comes to where a theorem with an operator
as its parameter cannot be used.

## 5. Findings

Three runs are *violation* runs: TLC finds the shortest behaviour in which the
code does other than the line of the repository that `PROJECT.json` quotes.
`drift_overlap`: the language server's accept command and the reporter each read `varar.lock.json`, change
it, and write all of it; where they overlap, the later write undoes the earlier, the
record of an example is lost, and when the example stops matching nothing is said
(lsp `store.ts:206`).

`pipeline_accepts`: `varar.acceptDrift` awaits a reindex of its own, beside the chain. It
may have read a file before an edit of it was written, and assign its index after the
chained reindex that read the edit: a request that awaited the chain is answered without
the edit it is about (lsp `server.ts:243`), where the comments at `server.ts:81` and
`server.ts:87` say that no feature can observe this.

`version_button` is the third: all files of an editor share one `busyUri`. A click on
a second file while the first replays takes it over; when the second replay ends, or
at once on the first tab, the first file's button is enabled in the middle of its
replay (website `editor-mount.ts:344`), where the comment at `editor-mount.ts:300`
says that it is disabled.

The models have the following behaviours too, which depart from a comment, a test or
the documentation. They were observed with TLC while modelling, but for two that were
seen in the code alone (the caret of a character of two units, what `init` prints); no
run demands the opposite, and where a property excepts them §3 says so.

| the code | where |
|---|---|
| of two reindexes, one's drift lands on the other's index | lsp `server.ts:243` |
| one rejected reindex poisons the chain for good | lsp `server.ts:112` |
| the squiggle of the last accepted drift stays | lsp `server.ts:206` |
| a slow publish overwrites that of a later clean run | lsp `server.ts:208` |
| two events of one result file are taken in the order their reads end | lsp `server.ts:159` |
| an oath edited during a run gets failures of its old text under the hash of the new | vitest `reporter.ts:145` |
| a line typed elsewhere while a value is asked for shifts what is replaced | vscode `extension.ts:314` |
| a sentence above a bound table loses its values to the header's words | language `index-workspace.ts:237` |
| a reworded sentence no longer names its table | vscode `extension.ts:314` |
| a rename to an expression with optional or alternative text writes that text verbatim, parentheses and all, so that the sentences need not match it; editor-support.mdx:132-138 says "so the oaths stay runnable" | core `expression-segments.ts:149` |
| two parameters of a handler get one name | lsp `handlers.ts:767` |
| a parameter that takes a table is dropped | lsp `handlers.ts:762` |
| `var/renameStep` accepts changed types | lsp `handlers.ts:187` |
| F2 offers the first sentence of the step, not the one under the cursor | vscode `extension.ts:239` |
| a step spliced in from a same-file reference is labelled with the oath that runs it | language `index-workspace.ts:255` |
| an unresolved reference swallows the heading before it | core `plan.ts:142` |
| a paragraph after a reference starts a new example where a delimiter stands between; ADR 0016:95-97 says that it continues the same example regardless | core `plan.ts:174` |
| an error fence in a referenced section makes its host expected to fail | core `plan.ts:250` |
| steps of a same-file reference in a referenced document are the host's | core `plan.ts:251` |
| a cycle all of whose sections are consumed is not reported | core `plan.ts:116` |
| a bound table in a referenced section runs nowhere, unreported | core `plan.ts:250` |
| an error fence below a bound table is neither obeyed nor flagged | core `plan.ts:466` |
| the sentences before the one that names a table run nowhere | core `plan.ts:434` |
| a stray delimiter unprotects every quotation after it | core `sentences.ts:22` |
| a context factory that rejects fails an example whose error fence expects a failure | core `execute.ts:78` |
| a handler that rejects with `undefined` passes | core `execute.ts:217` |
| a recorded example that is still there, word for word, is taken for a nearer paragraph of the same words in another order, though `drift.ts:8-9` says "An exact name match" | core `drift.ts:137` |
| a mismatching row is observed twice | core `execute.ts:231` |
| a row step that returns null or a scalar passes unchecked | core `execute.ts:221` |
| a tuple that leaves its last slot, a table or a doc string, undefined passes unchecked | core `cell-diff.ts:106` |
| a hover on a reference into a cycle shows steps twice | lsp `handlers.ts:490` |
| a replay is planned by code units and types by characters: one of two units leaves the caret one short | website `replay-plan.ts:24` |
| `init` prints "updated" for a config whose own `test` or reporters undo the update | cli `runners.ts:78` |
| without isolation a parked baseline is handed over by a later, drifted collection | vitest `runtime.ts:127` |
| accepting records nothing for an oath with no example left | vitest `plugin.ts:172` |
| referencing a recorded section is drift | core `drift.ts:62` |
| accepting one drift accepts all of the oath | lsp `store.ts:201` |
| a timeout of a replaced worker forgets the new one | website `run-client.ts:50` |
| an older run's outcome replaces a newer one's | website `editor-mount.ts:270` |
| an example still running takes a state factory of the next message | varar `internal.ts:223` |

## 6. Limits

*Model-checked only.* Liveness (`EditsGetIndexed`, `RequestsGetAnswered`,
`TextsAreRun`, `ButtonComesBack`, `TokensSettle`): the prover has neither fairness nor ENABLED.
Every invariant and every action property that a passing run checks is proved.

*Type invariants.* `TypeCorrect` of the pipeline and of the executor, `PageTypeCorrect`
of the page and `GateTypes` of the drift gate are proved; the other proofs carry what they
need of the types in their invariants. The runs spend their properties on the hazards and
do not repeat them.

*Abstracted.* Matching by cucumber expressions is an external library and enters as
data: which expressions match where. Names, messages, ranges and layout are kept only
as far as a property tells them apart. Hashes are what was hashed: collisions are
left out. Similarity is an exact fraction where the code divides floats;
both agree at one half for counts as small as those of a sentence.

Writes are taken to be whole: `Scaffold` breaks a run off between two writes, not
within one, and when `wireVitest` cannot ask a parser it asks the author.

*Not modelled*, with reasons in `PROJECT.json` under `components`: run records and stack
augmentation; definition, references, completion and snippets of the language
server, each a look at one index; the tree-sitter scanner and snippets; the vite
plugin's virtual modules; configuration and discovery; `lint`, which reads and prints;
starting the VS Code extension; the pages and the documentation of the website, its
file system in memory; the conformance corpus; the six other ports; release scripts.

## 7. Plan

Done in this order, most important first: edit pipeline and its refinement, drift
gate, executor, planner, playground, diagnostics, worker, index cache, candidate,
rename, scanner and sentences; then the editor's views and tokens, the registry, what
a handler returns slot by slot, the hover, and `init`. Next:

1. `Accept`: what `acceptDrift` records – a text on disk with the step definitions
   of the last index – as a component of `IndexPipeline` instead of a step.
2. `RunRecords`: the order of examples in a result, anchors and document paths on
   error objects that are thrown twice.
3. `Lint`: orphan steps over the plans of `Planner`.
4. A module that composes `Planner`, `DriftGate` and `Diagnostics` over one edit, from
   a text to the squiggle it ends in.

Theorems to come: an abstract result board that `Diagnostics` implements while every
document is open.
