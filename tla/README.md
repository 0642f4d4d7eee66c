# expiry-radar: TLA+ models and proofs

expiry-radar is a Go command that asks every configured source (TLS endpoints,
RDAP, Kubernetes, Vault, clouds, registrars) for the things that expire, ranks
them and writes one report; a VS Code extension and a Neovim plugin run it and
show its report. This directory models the parts of it that are hard to test:
goroutines, processes and timers; what a run tells its caller when something
fails or is cut short; files that are edited while they are being read; and the
score that decides what is shown first. TLC checks the models on small
instances; TLAPS proves, for every value of the constants, every invariant and
every action property of the passing runs and the refinement.

    tlc -workers 2 -config CollectAll.cfg MCCollectAll.tla     # one run
    tlapm CollectAllProofs.tla                                 # one module's proofs

Runs, mutants, findings, hazards and the code lines behind every definition are
in `PROJECT.json`.

## Inventory

| part | code | state | operations | hard because |
|---|---|---|---|---|
| collection | `internal/source/source.go` | results, semaphore, WaitGroup | `CollectAll` | goroutines finish in any order; one deadline for all; partial failures |
| command line | `cmd/expiry-radar/main.go` | flags, report, sink, exit code | `run`, `pick`, `writeReport`, `breached`, `filter` | many early exits; four exit codes that CI reads |
| ranking | `internal/rank/rank.go` | none | `Rank`, `urgency`, `blastRadius` | ties are common and must be stable; a dozen pieces of evidence add up and clamp |
| TLS probe | `internal/source/tls.go` | two slices under a mutex | `Collect`, `probe`, `mergeIntermediates` | goroutines append to shared slices |
| RDAP and WHOIS | `internal/source/rdap.go` | WHOIS server per TLD | `Collect`, `lookup`, `whoisLookup` | two-stage fallback, failures per domain |
| Vault | `internal/source/vault.go` | none | `Collect`, `pkiCerts` | a cap, and reads that fail one by one |
| paged adapters | GitHub, GitLab, Okta, GCP, Cloudflare, Apple, Harbor, registrars, ... | page, items so far | one loop each | page caps, failures half way |
| units | `source.go` `collectUnits`, AWS and its gaps, Cloudflare, Azure | unit, its items and warnings | `collectUnits`, `-verify-aws` | one denied unit must not hide the others |
| access tokens | `gcp.go`, `azure.go` | token and its expiry, per scope | `accessToken`, `token` | a long collection outlives a token |
| Kubernetes | `k8s.go`, `k8scert.go`, `k8strust.go` | Secrets and namespaces read, CA accumulator | lists, join, trust anchors | what one list says is read against what another said earlier, and any may be forbidden |
| manual items | `manual.go` | none | `ValidateManual`, `Collect` | dates are parsed twice, at load and when reported |
| config | `internal/config` | none | `Load`, `validate`, `Sources` | refusing rather than silently watching nothing |
| renderers | `internal/output` | none | `RenderAt` | the format is looked up after the file was emptied |
| VS Code lane | `scheduler.ts`, `runner.ts`, `collector.ts`, `store.ts` | pending job, timer, promise chain, processes, snapshots | `schedule`, `runNow`, `cancel`, `exec`, `execute` | debounce, preemption, timeouts, late exits |
| VS Code commands | `commands.ts`, `report.ts`, `edit.ts`, `splice.ts` | report and the time it was rendered | add, remove, report | read-modify-write of a file somebody edits |
| Neovim lane | `init.lua`, `run.lua`, `state.lua` | handle, snapshot, timers | `collect`, `cancel`, callbacks | exit callbacks of runs that were replaced |
| views, settings, health | the rest of both extensions | filters | presentation | little |

Who calls whom: an editor's lane starts the command as a process with a timeout
ten seconds past the command's own; `run` loads the config, builds the sources
and calls `CollectAll` under one context with a deadline; each source may have a
pool of its own (`tls.go`); items come back in configured order, `rank` orders
them, `output` writes them, and the exit code (0 clean, 1 breached, 2 usage, 3
partial) and the warnings on stderr go back to the editor, which replaces its
snapshot. Nothing is persisted but the `-out` file and the config file.

## Modules

| module | models | notes |
|---|---|---|
| `Collection` | what a collection promises: each source answers once, the report holds every item in configured order and every failure | abstract specification |
| `CollectAll` | `CollectAll`: spawn loop, semaphore, WaitGroup, merge loop, end of the context | one action per statement that other goroutines can see; implements `Collection` |
| `MCCollectAll` | readings for TLC: empty, whole, partial with an error | |
| `Scoring` | `urgency`, `blastRadius`, `priority` | pure; hundredths and whole days |
| `Ranking` | the order of a report, `filter` | extends `Scoring` |
| `RadarRun` | `run`, from the flags to the exit code, with every early return | the collection is one step that returns what `Collection` promises |
| `MCRadarRun` | three sources whose items tie under 130 command lines; two sources that pair all evidence | |
| `TLSProbe` | the pool of `tls.go`, its mutex, merge and sort | an append is two steps, so that the mutex matters |
| `MCTLSProbe` | shared certificates, a shared intermediate, a root | |
| `SourceUnits` | `collectUnits`, the page loops, what a call site does with a failure or a cap, the cached token | runs a program that is data |
| `Adapters` | one such program for each provider | pure; the part a reader compares with the adapters |
| `AWSVerify` | `-verify-aws`: the checks and the verdict drawn from one collection | extends `SourceUnits` |
| `Kubernetes` | scopes, ingresses, Secrets, cert-manager Certificates, trust anchors | one action per list, forbidden or answered |
| `Domains` | RDAP, the fallback to IANA and WHOIS | |
| `MCSources` | the twenty programs, clusters, domains | one kind of source per behaviour |
| `ConfigText` | `locate.ts` and `splice.ts`, and `edit.lua` in Neovim, over token sequences without escapes; the decoder as the reference, a state and one step a token | pure |
| `ConfigEdit` | the file, the rows an editor shows, add and remove in VS Code and Neovim, the operator's saves | |
| `ConfigFile` | `Load`, `validate`, `Sources`, the guards the sources repeat, manual items | |
| `MCConfig` | ten texts, five of which an operator may save; config files with things missing | |
| `VSCodeLane` | from a trigger to a stored snapshot in VS Code | one action per JavaScript callback with the promise continuations it releases |
| `NvimLane` | the same in Neovim | `vim.schedule` is a queue of callbacks |
| `Ordering` | sorting a finite set, elements of a sequence by position | first-order, so that proofs can use them |
| `SequenceLemmas` | facts about sequences, sorts and finite sets that several proofs cite | TLAPS, like the rest of the table |
| `CollectAllProofs` | theorems about `CollectAll` | |
| `RadarRunProofs` | theorems about `RadarRun`, `Ranking` and `Scoring` | |
| `VSCodeLaneProofs`, `NvimLaneProofs` | theorems about the two lanes | |
| `SourcesProofs` | theorems about `Domains`, `Kubernetes` and `TLSProbe` | three parts |
| `ConfigProofs` | theorems about `ConfigText` and `ConfigEdit`, and about `ConfigFile` | two parts |
| `UnitsProofs` | theorems about `SourceUnits` and `AWSVerify` | |

### Correspondence

In `CollectAll`, `worker[i]` is the program counter of the goroutine of source i;
`blocked` is the send on `sem`, `wrote` the moment between the assignment to
`results[i]` and the two deferred calls, which are two steps in the order Go runs
them. In `RadarRun`, `pc` is the next stage; `sink` is the -out file (or stdout),
which `os.Create` empties before anything is rendered; `Killed` is the SIGKILL an
editor sends.

In `SourceUnits`, `work` is the call stack of a unit turned into a list: the
first element is the page loop in progress, with its page number and what it has
gathered; the rest are the requests the unit will make. What the adapters have in
common is in `SourceUnits`, and what they differ in is in their records:
`stop` is how a loop knows there is more (a short page, a next link, a total),
`capped` whether it gives up, `keeps` whether it returns what it had when a page
fails, `onErr` and `onCut` what the call site does with that (`keep`, `skip`,
`fail`, `return`, `silent`), `by` the rule that gives an entry its deadline
(issuer, policy, either, the sooner, both), `kids` the lists below an entry
(certificates below a mount, keys below a service account). `token` is the age of
a cached access token: `fresh` until a minute before it expires, which is when
the code renews it, then `late`, then `dead`. `unread` and `whole` are history:
lists of which something is missing, and deadlines of lists read to their end.

In `Kubernetes`, `todo` is the rest of `Collect`; `secrets`, `secretNS` and
`anchors` are the fields of the same meaning. In `ConfigEdit`, a command of VS
Code is three steps, `AskRemove`, `RemoveReads` and `Writes`, because it awaits a
prompt and a file (an addition asks first and begins with `AddReads`); in Neovim
the reading and the writing are one callback, `NvimRemoves` or `NvimAdds`. The two
editors splice alike but for two operators, which take the editor: `ElementAt`
(remove_entry of edit.lua stops at the last character of an element, removeEntry of
splice.ts one behind it) and `AddToArray` (of an object without a closing brace
splice.ts writes a text, edit.lua raises an error).
A text is a sequence of tokens in which a string, an indentation and a line end
are one token each, so that a position (line and column) means what it means to
the editors. Whatever is not one of the named tokens (`lbrace`, `comma`, `nl`, ...)
is a JSON string. The decoder (`Start`, `ReadToken`, `Steps`) keeps the brackets that are
open, the kind of the last token, the key it is under and what it has read there:
it is `encoding/json` as far as `Load` depends on it, and the only judge of what an edit
has done; the functions the editors call know nothing of it. In `ConfigFile` a field is a pair of a section and a name; `Required`
(the file's `InFile` and the environment's `InEnv`) is what `validate.go` asks for
and `Guarded` what the sources ask for. They are transcribed separately from the
two places, because whether they agree is the question.

In `VSCodeLane`, `pending`, `timer`, `active` and `chain` are the fields of
`Scheduler` (the promise chain as the list of jobs that wait in it), `procs` the
operating system's processes, and `active.phase` says whether `execute` waits for
the process or for the config to be read again. A process with `dying` set was
sent SIGTERM and its `exec` has settled. In `NvimLane`, `handle` is
`state.handle`, `loop` the callbacks that `vim.schedule` has queued, `told` a
process that was sent SIGTERM.

Abstracted everywhere: texts, layout, logging, notifications, and the content of
items beyond what scores, ordering and filters look at. In `Scoring`, traffic is
a power of ten, and the tokens in a name and the hosts of a certificate are
evidence already read. Variables called history in the comments are not in the
code; they record what a property needs.

## What is checked

| run | instance | shows |
|---|---|---|
| `collect` | 3 sources, 2 slots, fairness | type, bound in flight, no early merge, merge in configured order with every item and failure, the inductive invariant, refinement of `Collection`, termination |
| `collect_starved` | 9 sources, 8 slots (the code's constant) | **violated**: a source still waits for a slot when the deadline passes |
| `radar_run` | 3 sources, 130 command lines; 2 sources, all pairs of evidence | exit 0 is clean, nothing the flags let through is lost, exactly the failed sources are warned about, stable order, the worst breach is named; rows come out in the order the consequences demand |
| `sources` | 19 providers, a cluster, three domains | no list is cut without an error, a failure costs only what it hit, no request carries a dead token, the AWS verdict rests on items, Kubernetes rows are told once and truthfully, every domain is answered |
| `config` | 10 texts, 2 editors, 1 save; files of one or two sections | an edit is one entry more or less, what is removed is what was asked for, a file that loads is a file every source can act on |
| `tls` | 3 endpoints, 2 slots, fairness | no append lost, leaves and intermediates reported once with their hosts, every failure named, termination |
| `tls_order` | 2 endpoints | **violated**: rows of one date come in completion order |
| `vscode` | 1 folder, 4 jobs, 2 saves, fairness | one live process, no lost wake-up, snapshots never go back, every run ends, every save is collected |
| `vscode_twofolders` | 2 folders | **violated**: one pending slot for all folders loses a save |
| `nvim` | 3 requests, 1 save, fairness | the handle is always backed by a process or callback and is given back; one run at a time and snapshots that move forward until somebody interrupts |
| `nvim_process` | same, no fairness | **violated**: a late exit callback clears the handle of the next run |
| `nvim_snapshot` | 2 requests | **violated**: a cancelled run becomes the snapshot |

Every property of a passing run is broken by a mutant of the code it is about
(the operators marked "Mutant of" next to the definition they change).

The properties that say the most about the sources and the config:

* `NeverSilent` is `docs/sources.md`'s "Every list is paged to the end, or says it
  was not" for all twenty programs at once (Cloudflare's without the account's tokens is
  one of its own): when something of a list is missing, because a page failed, the cap was reached, the total is larger or the link leads
  elsewhere, the unit is named in the error; and what a unit without an error was
  told is in the report. Two kinds of call do not say so and are excepted by name
  in the programs: `Single("nothing")`, a single reply the code compares with
  nothing, and the certificates of a Vault mount that cannot be read
  (vault.go:171).
* `DenialIsLocal` is the other half: the deadlines of every list that was read to
  its end are returned, once each, wherever the failure was.
* `VerdictIsEvidence`: an empty account passes no check, exit 0 means that every
  adapter that ran was read whole.
* `MissingWasLookedFor`, `CertificateOnce`, `NeverFalselyCalm`, `AnchorsMerged`: a
  Secret is called missing only where Secrets were listed and it was not among
  them; a certificate is one row although a Secret and a Certificate both
  describe it; a renewal is called managed, which lowers the rank, only of a
  certificate that was read and renews in time; a CA in several places is one row
  that names them all.
* `EditIsOneEntry` compares what the *decoder* reads before and after an edit,
  not the text: an independent reference for the splicing. It is about texts that
  are `Plain`: they load, have each array at most once and nothing behind the object,
  and a key that looks like an array is one. Of a text that has `"manual": [...]`
  inside an entry, or twice, the editors edit another array than the CLI reads. It
  compares what was written with what was read: a save between the two, which the
  model has, it does not see lost (Findings). And like the next one, and the theorems
  about both, it is about texts without escapes.
* `RemovesTheNamed` is about a position that is stale three times over: the CLI
  read the file, the editor placed the row in a later read, and the command waits
  for a prompt. The check the code makes, that the line still contains the name, is
  enough under two preconditions. `Legible`: a line has something of one entry only,
  an entry has one name, and the name that is looked for is nowhere else. And the
  column of the row must still lead onto its line: `offsetOf` does not clamp it, see
  Findings.
* `ConsequenceFirst`: no row comes before one that is as bad on every count, unless
  they tie; a value an operator pins decides among rows of one date; two days left
  beats a somewhat larger blast radius eight days out; and what takes production
  down in 100 days is above what staging loses in 40.

### Bounds

* `collect`: three sources on two slots is the smallest instance in which a
  source waits for a slot while one holds it and one has finished; three readings
  tell "nothing", "everything" and "part and an error" apart. The starved run
  uses the code's own 8 with one source more.
* `radar_run`: the tying items tie on priority alone and on priority and days, lie
  on the boundary of the window (20 days), are expired, and are hidden by each
  filter; three configs include the empty one. The pairs put every kind, override,
  label and piece of evidence, one at a time and in the combinations that clamp,
  against every other at dates before, on and past the urgency curve; the
  `CONSTRAINT` `PairsPlainly` only keeps them from being multiplied with the
  command lines, which do not look at evidence.
* `tls`: two slots and three endpoints make one wait; two endpoints serve one
  certificate, all three may share an intermediate.
* `sources`: `MaxPages` is 2 for the code's 20, 40 and 50, `PageSize` 1 for 100:
  a loop can end on its first page, on the last one allowed, and on the cap with
  more to come. `NParents` 2: a failure under one of two projects. `MaxSurprises`
  2: a reply that is not one ordinary page, a failure or a minute's wait, two of
  them in one run, so a failure can meet a cap or a second failure and a token can
  die. `MaxDenied` 2 of the lists of a cluster with two Secrets in two namespaces
  and two CAs. Three domains: one before and one after the one that fails. `AWSPage` 1 for 100.
* `config`: `MaxBegun` 3 collections and commands, `MaxSaves` 1: a row is placed
  by one collection, the file is changed by a save or by another command, and the
  removal meets it. The names `a`, `b` and `ba` occur twice, in two arrays and
  inside one another. One of the saves has a name at the start of a line that is
  shorter than the column of a row that was placed before. A config file has at most two things missing, which is
  enough because each section is checked by itself.
* `vscode`: four jobs allow one active, one dying, two chained and one pending;
  a snapshot can only go back with two commands after a save after an automatic
  run, which is exactly four jobs. Configs have three versions.
* `nvim`: three commands or sweeps and one save give four runs; a save must fall
  between two runs for a snapshot to go back.

`sources` and `config` each hold parts that share no variable (providers, a
cluster, domains; the editors and the CLI). Their `running` says which part a
behaviour is about; interleaving parts that cannot see each other would multiply
the states and show nothing. That sources do not disturb one another when they do
run at once is what `CollectAll` is about.

Deadlock is not checked where the program really stops: functions return, and the
jobs, requests, saves and commands are bounded in the guards.

### Fairness

* `CollectAll`: the Go scheduler runs what can run; the context's timer fires; a
  source whose context has ended returns, because each hands the context to its
  client. A source may hang as long as the context lives.
* `TLSProbe`: strong fairness for each goroutine, because Go's channels and
  mutexes do not starve a waiter, and each probe has its own timeout.
* `VSCodeLane`: timers fire, the file read returns, `exec`'s timeout fires, a
  process that gets SIGKILL dies. Nothing obliges a process to report or a user
  to do anything.
* `NvimLane`: the debounce timer fires, the main loop runs what it holds, and
  `vim.system`'s timeout ends every process.

The other models are checked for safety only: their loops are bounded by the caps
of the code, and a provider that never answers is `CollectAll`'s concern.

## What is proved

TLAPS proves the theorems below for every value of the constants that meets the
assumptions named with each. The assumptions stand in the modelled modules, so TLC
evaluates them on every run: those about `Programs` on all twenty programs, those
about config files, texts and additions on all that the run `config` uses. Each proof has the same shape:
an invariant stronger than the property, `Init => IInv`,
`IInv /\ [Next]_vars => IInv'` with one lemma or step per action, and `IInv => Property`.

**`CollectAllProofs`** (every number of sources, every positive number of slots,
every set of readings).

* `TypeCorrect`: `sem` and `wg` in Nat is the interesting part.
* `ConcurrencyBounded`, `MergeAfterLastWrite`, `ReportComplete`: the safety
  properties of the run `collect`.
* `NoBudgetUpToConcurrency`: with no more sources than slots the deadline is not
  a budget. `collect_starved` shows the hypothesis is needed.
* `Refinement`: `Spec => Implements`, that is `Collection` under the mapping
  `AnswerMap`, `ReportMap`.

`TypeOK` alone is not inductive, `sem - 1` could be negative. `IInv` says what the
counters count (`sem` the goroutines between Acquire and Release, `wg` those
spawned and not done), which sources are spawned while main is in its first loop,
and that the merge so far is the concatenation of the first `next - 1` readings
(`IsMerge`, by the offsets at which each reading begins). `wg = 0` with everything
spawned gives `NoEarlyMerge`, which keeps `results` fixed while the merge reads
it. `CountIn` and `CountOut` carry the cardinalities over one goroutine entering
or leaving a set.

**`VSCodeLaneProofs`** (every set of folders, every number of jobs and saves).
`TypeCorrect`, `LaneIsOne` (the one process nobody has told to stop is that of the
active run), `WakeUpsKept` (nothing waits that nothing will start) and
`StoreMovesForward` (no run, however late it ends, replaces a snapshot by an older
one). `IInv` is `Lane` (a job is in one place; a process that is not dying belongs
to the active job; the active job that can be cancelled has such a process), `Slot`
(a pending job has its timer, or the active run that will arm it) and `Dated` (a
snapshot is no newer than what the active run read). Every action ends in the same
continuation, `Proceed`, so the induction rests on one lemma, `ProceedKeepsLane`.

**`NvimLaneProofs`** (every number of requests and saves). `TypeCorrect`,
`HandleLives`, `RunsAlone`, `SnapshotForward`. `IInv` is `Typed`, `Counted` (the
runs, the calls of `collect` on the main loop and the debounce were each asked for,
which bounds the run numbers), `Once` (a run is one process or one queued
callback), `Handled` and `Undisturbed` (while nobody has interrupted, every process
and callback is that of the handle and none has read less than the snapshot). The
last two carry the hypothesis `cancelled = {}` of the properties; `nvim_process` and
`nvim_snapshot` show that it is needed.

**`RadarRunProofs`** (every set of configs, command lines, answers and items).

* `ConsequenceRules`: the urgency curve falls from day to day, evidence adds up and
  is clamped, and from that the rules about what may be above what, for all
  evidence, dates and traffic.
* `RankIsStable`: the sort is a permutation ordered by priority and days that
  keeps the order of rows that tie.
* `ReportIsComplete`, `ZeroMeansClean`, `FailuresAreTold`, `WorstIsNamed`,
  `TypeCorrect`. `IInv` says, stage by stage, what has been made of what: the
  sources are what the flags ask for, the warnings are the failures of their
  answers, the rows are the ranked and filtered merge, the sink has them, and the
  exit code is drawn from them.

**`SourcesProofs`**, three invariants for three models.

* `EveryDomainIsAnswered` (every list of domains): `DInv` says that the domains
  before `at` are a row or a failure each, in order, and that somebody else than
  RDAP is asked only after its 404.
* `MissingIsLookedFor`, `CertificateIsOneRow`, `CalmIsEarned`, `AnchorsAreMerged`
  (every finite set of Secrets and CAs, every configuration in which no namespace
  is named twice). `KInv` is about the requests still to be made as much as about
  what they found: they are in the order of the stages, ask for no Secret twice and
  join what they read of Certificates (`Plan`, `Ends`). From that order follows that
  a Secret is known before a Certificate is compared with it (`SecretsListed`,
  `CertificateRows`), that there is one row per key (`RowsOnce`), and one anchor per
  CA with all its holders so far (`Merged`).
* `ProbeTypeCorrect`, and `NothingIsLost` (every number of endpoints, slots and set
  of chains): each leaf once, each intermediate once with all its endpoints, each
  failure once, nothing else. `ProbeInv` says that whoever is between reading a
  slice and writing it back holds the mutex and has seen the slices as they are
  (`Appending`); that the slices hold exactly what those that have appended
  presented (`Gathered`, `Failures`); and that after the wait, the merge and the
  sort keep it (`Finished`).

**`ConfigProofs`**, of two models.

* `OneEntryEdited` (every set of texts and of saves, every set of additions, every
  number of commands). The invariant of the specification is short: what is under
  way and what was written last are made of a text that was once read (`EditIInv`).
  The rest is about two texts. `Sound` is what holds of every state of the
  decoder, whatever it reads. In a plain text the bracket the editors find is the
  one behind which the decoder is in the array (`ArrayFound`), their depth is the
  height of its stack (`LevelIsDepth`), their commas are where it ends an element
  (`CutsAre`), and between two of them is one entry (`ElementRead`). An edit leaves
  the text before it and behind it alone. Before it the decoder is in the same
  state in both texts (`SamePrefix`); behind it in states that expect the same and
  differ by the one entry (`Twin`), and it stays in such states to the end, because
  the key of the array does not come again (`TwinTail`, `NotAgain`). What is left is
  the separator, layout by layout: an element with a comma behind it
  (`RemovedBehind`), the last or only one (`RemovedLast`), an entry on the line, in
  an empty array or on a line of its own (`InlineAdded`, `EmptyAdded`, `LineAdded`),
  and a key that was not there (`KeyReads`).
* `NamedRemoved` (the same constants) adds which entry that is. Every token of
  an array that is no separator is in one element (`InElement`), so the token with
  the name, which `Legible` makes a declaration, is in an element on the line; the
  position is on that line too, and a line has one element, so it is the element that
  goes (`FoundIsNamed`); and the token behind its name field is the one the CLI
  takes for the name (`NamedToken`, `ElementNamed`).
* `LoadedIsWatched` (every config file): `CInv` keeps, of a file that loaded, every
  check it has passed (`Accepted`); `GuardsAreRequired` is the comparison of the two
  lists of checks, and the rest shows that an accepted manual entry has a date when
  it is reported.

The assumptions are that texts are sequences of strings (`TextsAssumption`) and that
what the editors add is one JSON value (`AdditionsAssumption`, for what
`JSON.stringify` and `vim.json.encode` return). The provers do not know of a
literal such as `"nl"` that it is a string; `Tokens` adds the ones that are used,
and every step is proved for sequences of `Tokens`.

**`UnitsProofs`** (every sound program, cap, page size and number of parents, every
sequence of answers).

* `NothingIsSilent`: what was read of the current unit is among its items or will
  be carried there by the page loop, and what is unread is named in a warning or
  an error (`Told`). That needs to know which calls carry entries from page to
  page (`Carrying`).
* `TokensAreLive`: a token is renewed before the request that would outlive it
  (`Aged`).
* `DenialStaysLocal`: the calls still to be made and the items found have ids, list
  and path, that are all distinct (`Tidy`, `Distinct`), so what was read whole is
  kept and kept once (`Kept`); a list whose error drops its unit comes alone, so
  there is nothing to drop.
* `VerdictIsEvident`: what AWS passes is counted from items of that adapter in the
  results (`Tallied`, `Evident`).

What "sound" means is `ProgramsAssumption`: every call site knows how its loop
ends (`SoundList`), lists that are read together have different names
(`NamedApart`), and the two kinds of unit that return nothing on an error, in
cloudflare.go and okta.go, have only that list (`FailsAlone`).

Sums and concatenations over sequences of any length (`FlattenSeq`, the merges) are
functions on numbers here, for which `SequenceLemmas` derives an induction rule
from the well-foundedness of Nat (`LeastNat`, `NatInduct`).

### Only model-checked

* Liveness: `Returns`, `RunsEnd`, `SavesCollected`. TLAPS reasons neither about
  fairness nor about ENABLED.
* The witnesses of the five violated runs.

### What the proofs changed

A property that would not go through was read as a question to the model. `CASE`
with overlapping guards in `AWSVerify`, `ConfigText` and `Kubernetes` left open
which arm the code takes: the guards are now disjoint, in the code's order. A
namespace that is configured twice is reported twice, which the instance of
`sources` does not contain (see Findings). `SelectSeq`, sorted sets and `@@` became
`Ordering` and sets of pairs, with the same reachable states in every run.

The two theorems about edits changed what they are about. The decoder was a fold
with an operator for an argument, of which nothing can be proved; it is a recursive
function over the positions of a text now (`Steps`), and the editors' scans are
sets of positions (`Keyed`, `Cuts`, `Elements`). `Legible` used to speak of the
names an entry declares; a name is declared at any depth, so an entry could be read
under one name and removed under another. `RemovesTheNamed` was
then still false: TLC found the save after which a column leads past the end of its
line. A text with something behind the object, or a key that only looks like an
array, is why `Plain` says more than that the text loads.

## Findings

The five violated runs are disagreements between the code and what it or its
documents say; `PROJECT.json` quotes each. In short: a ninth source can be
starved by eight slow ones; tied TLS rows change order between runs; two VS Code
folders share one pending slot; a late exit callback in Neovim clears the wrong
handle, and stores the report of a cancelled run.

Seen while modelling, without a run of their own:

Command line and ranking
* The -fail-within gate looks at the filtered rows only (main.go:108,113 against
  man/expiry-radar.1:40, "anything").
* rank.go:57 puts the real range of trust anchors at 0.65 to 1.00, but AWS
  Private CA and Okta report anchors with in-use=false, which takes 0.35 more.
  An expired item with no blast radius scores 0.55 and does not lead a report.

Sources
* `docs/sources.md:308` says every list is paged to the end or says it was not;
  Namecheap, GoDaddy, Porkbun, Anthropic, OpenAI, Docker Hub, JFrog and Fastly
  tokens are single requests whose reply is compared with nothing.
* "A failed source returns what it managed to read", but Harbor (registry.go:68),
  GitHub's and GitLab's token lists, Okta and the GCP keys drop the pages read
  before the one that failed. No row is wrong: the error names the unit.
* `docs/sources.md:672` counts three AWS adapters; `checkRanking` sorts what it
  then finds sorted; one failed adapter of seven makes `-verify-aws` exit 1.
* A Secret created between the Secret list and the Certificate list is called
  missing; of two Certificates with one Secret the later wins.
* A namespace named twice in `k8s.namespaces` is listed twice and its Secrets are
  reported twice (`scopes`, k8s.go:419-432, removes nothing). The proof of
  `CertificateIsOneRow` fails there, so `ClustersAssumption` says that each
  namespace is named once.

Config
* A manual entry's labels may contain "name", which is then taken for a
  declaration; of two entries with one name both rows point at the first; one name
  in endpoints and domains: the domain's row cannot be removed.
* Several entries on one line, or a name inside another, defeat the check of the
  line: the precondition `Legible`.
* `offsetOf` (splice.ts:78-82, edit.lua:297-307) does not look at the length of the
  line: when a line has become shorter than the column of a row, the offset is on a
  later line. removeItem has checked the line, that it still has the name, and then
  removes the entry of the next one.
* `addItem` takes any read error for "no config yet" and writes a new file; a save
  between its read and its write is lost; `writeFile` is not atomic.
* edit.lua is not what splice.ts is for strings with escapes. `element_spans` skips
  what follows a backslash by `i = i + 1` in a numeric `for` (edit.lua:316-317), which
  Lua ignores, so `\"` ends the string there; `array_span` has a `while` and is right
  (edit.lua:40,54). A name with an odd number of them merges its element with those
  behind it, and a removal cuts them all; with two, a comma between them splits the
  element. `declared_in` ends a name at `\"` as well (edit.lua:85,103,118).
* Adding to a text that begins with `{` and has no `}`, edit.lua:277-278 raises an
  error and writes nothing; splice.ts:157-163 writes a text that does not load either.
* With two entries or more, a new line gets no indentation although the comment
  says it is indented like its siblings (splice.ts, edit.lua). With a key written
  twice the editors edit the first and Go reads the last.
* edit.lua accepts dates without a zone or with hour 25, edit.ts lower-case t and
  z and 24:00:00; Go rejects them, and with them the whole config. A policy of
  more than 106751 days overflows (source.go:199).

Editors
* A preempted VS Code process is alive for up to three seconds next to its
  successor (runner.ts:266-279 against scheduler.ts:10); cancelling starts a
  manual job that waited in the chain (scheduler.ts:62-67); a run that failed or
  was cancelled counts as landed for the sweep (scheduler.ts:114 against
  docs/editors.md:131-132), and the Neovim sweep looks at nothing at all; dispose
  leaves the pending job.
* A save in Neovim whose debounce ends during a run is dropped (run.lua:123-125):
  one run at a time, which is what the properties of `NvimLane` say, is kept by that.
* The report tab keeps one rendering time for all folders, and a collection that
  lands while it renders leaves an older report marked fresh (commands.ts:136-146).

## Not modelled, and why

* Dialling, HTTP, SDKs, signatures, and parsing of certificates, WHOIS text and
  provider JSON: I/O and libraries. An answer is any of a small set.
* Renderers: layout and escaping, a function from a report to text. When a format
  is rejected and a write fails is in `RadarRun`.
* Views, settings, health, doctor, statusline and export: presentation of a
  snapshot that the lanes model.
* The report tab of VS Code: the two races above were read off the code; its only
  state is a time.
* Which of several config errors is reported first, and all wording.
* Floating point: scores are in hundredths and days whole. `rank` rounds to two
  places, so the order the report has is the order of hundredths.
* Packaging, examples and CI are not program code.

## Plan

Everything whose order of steps matters is modelled, and every invariant of the
runs is proved. What could follow:

1. Escapes and the width of a token in `ConfigText`: `arraySpan` and `elementSpans`
   each skip a backslash and what follows it by themselves, and a column counts
   characters.
2. `docs/editors.md`'s promises about the report tab, if it gets more state than a
   time.
