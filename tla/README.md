# A verification project for the fitctl Python bindings

The repository holds the Python bindings of `fitctl-core`: a Rust extension
module (`rust/src`) that admits Python objects under strict limits, hands owned
values to core without the GIL, and turns the answer back into Python objects;
a thin Python package (`python/fitctl`); and a CI harness (`ci`) that builds the
distributions, runs the installed tests under `strace` and checks the traces.
This directory specifies the bindings in TLA+, checks small instances with TLC
and proves the main invariants with TLAPS.

## 1. Inventory

### The adapter (`rust/src`)

| Part | State | Operations | Correct when |
|---|---|---|---|
| Admission budget (`conversion_budget.rs`) | bytes and nodes of one document, and of the whole request | `document`, `configuration`, `charge` | no count passes its limit; both domains are charged alike; a refusal changes nothing |
| Document conversion (`conversion.rs`) | the budget, the addresses of the open containers, the call stack | `document`, `convert`, the scalar conversions | exactly the finite graphs within the limits are accepted, and become their unfolding |
| Argument binding (`argument_binding.rs`) | one optional value per slot | `bind` | it accepts what Python's own binder would, and binds what was passed |
| Admission of operations (`derive_admission.rs`, `validate_admission.rs`, `batch_admission.rs`, `collection_admission.rs`) | the request total, the values copied so far | `admit`, `state`, `replay` | every limit holds for each part and for the whole before core runs |
| Core calls (`core_calls.rs`, `batch.rs`, `collection.rs`) | the owned request | `derive`, `validate`, `execute`, `replay` | each call happens once, in order, and not after a failure |
| Native call boundary (`panic_boundary.rs`, `attached_boundary.rs`, `value_interface.rs`) | the GIL, the result in flight, a panic in flight | `boundary`, `detached`, `dispose` | Python objects are touched with the GIL only; core runs without it; signals come before results; no unwinding escapes |
| Error translation (`error.rs`) | the exception under construction | `Failure::python`, `structured` | the class tells what failed; an exception is whole or not raised |
| Export (`serialization.rs`, `json_encode.rs`) | the object or buffer under construction | `value`, `text`, `bytes`, `encode` | a value is whole or not returned |
| JSON decoder (`json_decode.rs`, `json_string.rs`) | text position, budget, map under construction | `document`, `decode` | accepts the same documents as the conversion of their objects |
| Values (`values.rs`, `batch_value.rs`, `policy_interface.rs`, `artifact_interface.rs`, `batch_interface.rs`, `identity.rs`) | immutable `Arc`s | `load`, `handle`, `role`, the exporters and accessors | a handle has the role its operation asks for; a value never changes, and what it exports is a copy |

A public operation passes through these parts in one order: `boundary` enters,
`bind` and the operation's admission read the arguments with the GIL held,
`detached` runs core on the owned request, takes the GIL back and runs the
signal handlers that are due, and the result is exported or translated. The
parts share nothing but the request; all concurrency is in the boundary, where
Python code of other threads may run whenever the GIL is free.

### The Python package (`python/fitctl`)

Re-exports and type stubs; it has no state.

### The CI harness (`ci`)

| Part | State | Operations | Correct when |
|---|---|---|---|
| Process supervisor (`native_process.py`) | one child and its group, the tail of its output, deadlines | `run_bounded` | returns all output that was kept, in time, and leaves no process behind |
| Traced execution (`installed_process.py`, `recorded_channels.py`, `recorded_exec.py`) | two pipes, the trace files | `execute`, `Channel.read`, `Channel.finish` | results and markers are complete or refused |
| Trace checker (`recorded_trace.py`, `recorded_descriptors.py`, `recorded_effects.py`, `collection_effects.py`, `collection_processes.py`) | descriptor table, open interval of each thread, children | `parse_trace`, `check_trace`, `Children.parent` | an effect outside its declared scope is never accepted |
| Qualification and release (`gate.py`, `driver.py`, `runner.py`, `verify_upload.py`, the workflows) | the owned mount, the manifest, the published files | `distributions`, `main` | what is published was qualified, bit for bit |
| Build backend, archives, licences, portable audits | files | straight-line | - |

### What is hard here

* Threads: other threads change the arguments of a call while it is open, and
  want the GIL while core runs, possibly for ever.
* Signals that arrive while core runs, against a result that is ready.
* Panics on either side of the boundary, and panics while a panic is handled.
* Failing allocations at every step, with something half built.
* Limits that must hold for parts and for the whole, to the last byte, under
  early returns in the middle of an update.
* Object graphs with sharing and cycles.
* In the harness: deadlines against late output, groups of processes that
  outlive their leader, traces of interleaved threads.

`PROJECT.json` lists each hazard at its line with the properties that cover it.

## 2. Plan

The modules are ordered by what a fault would cost: first what keeps an open
call sound in a program with threads, and what decides which objects reach core.

| Module | Uses | Models | State |
|---|---|---|---|
| `AdmissionBudget` | - | the counters of both domains | done, proved about |
| `Totals` | - | running totals and the total of a sequence | done, proved about |
| `Conversion` | `AdmissionBudget`, `Totals` | the conversion of an object graph | done, proved about |
| `ImmutableValue` | `Conversion` (composition) | a value from its document to its exports | done, proved about |
| `NativeCall` | `AtomicCall` (refinement) | the boundary, for any number of threads | done, proved about |
| `AtomicCall` | - | what an operation promises its callers | done |
| `ArgumentBinding` | - | `bind` | done, proved about |
| `EvidenceCall` | `ArgumentBinding` (composition) | `validate` and `classify_batch` from arguments to core | done, proved about |
| `DeriveContract` | `AdmissionBudget`, `Totals` | admission and core calls of `derive_contract` | done, proved about |
| `CollectionAdmission` | `Totals` | the passes of `collect_state`'s admission | done, proved about |
| `JsonDecode` | `AdmissionBudget` | the decoder over lexemes | done, proved about |
| `JsonToken` | `JsonDecode` (composition) | its lexers of strings and numbers | done, proved about |
| `JsonGrammar` | `JsonToken`, `Totals` | the reference: the grammar of JSON, UTF-16, the totals of a text | done, proved about |
| `Supervisor` | - | `run_bounded`: a command, its processes, the pipe, the deadline, the clean-up | done, proved about |
| `RecordedRun` | `Supervisor` (composition) | `execute` with a bounded channel and those who hold its writer | done, proved about |
| `TraceCheck` | - | the traces of interleaved threads and the verdict about them | done, proved about |

Abstract specifications worth stating: `AtomicCall` (an operation reads its
arguments at one moment and answers once), the reference definitions beside the
conversion, the decoder and the admissions (totals of an unfolding, the grammar
of JSON, totals of a request), for the values that an export is a copy, and for
the trace checker "no effect outside a declared interval".

Left to do: the descriptor table of the trace checker, which needs a model of
paths; `survey` and `replay`.

## 3. Modules and code

### AdmissionBudget

`Budget` is a record; `Option<Counts>` is a set of at most one element. `Fits`
is `add`, with the machine word (`WordSize`) and the limit; `Admits` and
`Charge` are the two halves of `charge`, all tests before any update, as in the
code. `Remaining` is the unsigned subtraction of `scalar_string`, modulo the
word: that it never wraps around is a property, not an assumption.

### Totals

`Sums` is the running total of a sequence of numbers and `Total` its end. It
models no code: the reference definitions of `Conversion`, `DeriveContract`,
`CollectionAdmission` and `JsonGrammar` are made from it. It is a recursive
function, so that it can be proved about.

### Conversion

`heap` is the graph the caller passes. `convert` is recursive in the code and a
stack machine here: `frames` is its call stack, `ancestors` the vector of
addresses, `out` the value built so far as a sequence of tokens.

| Action | Code |
|---|---|
| `Document` | `document`: exact dict, reservation, the beginning of `convert` |
| `ConvertLeaf` | a key or a scalar: tests in their order, charge, push |
| `LeafAllocationFails` | the copy of a string or the growth of a list fails after the charge |
| `EnterContainer` | cycle test, depth, charge, push of the ancestor |
| `LeaveContainer` | pop, the value goes to the caller, which may fail to grow |

The GIL is held and only exact built-in types are read, so no foreign code runs
between two steps: the heap is constant (`NativeCall` carries that argument).
A scalar is a record of what the code tells apart (bytes, surrogates, range,
finiteness); its digits and characters are left out. The test seams
(`faults.rs`, `assertion_mutants.rs`) are left out everywhere.

The last section is the reference the conversion is compared with, said without
a stack, a budget or an order of evaluation: `Below` (the least closed set of
containers below one), `Cyclic`, `Defects`, `Shallow` (no more than n levels
high), `Unfolding` (the tokens an object stands for) and its `Size`; a document
is `Admissible` if it is a dict without cycle or defect whose unfolding is
within the limits. `Admissible` of `DeriveContract`, `CollectionAdmission` and
`EvidenceCall` stands beside those modules in the same way.

### ImmutableValue

It continues `Conversion`: `out` is the document a value keeps (for an Artifact
or a report, what core renders is taken to be the document it was loaded from).
`docs/recorded.md:49` promises that "`to_dict()` returns an independent
dictionary"; here that is put against callers who keep the dictionaries and
change them.

| Action | Code |
|---|---|
| `Load` | `from_dict`, `from_json`: core's validation and `Py::new`, each may fail |
| `ToDict`, `RenderFails` | `to_dict`, `rows` and the summaries, `batch_value::value` |
| `ExportLeaf`, `ExportOpen`, `ExportClose`, `ExportFails` | `serialization::value`, one item after the other |
| `ToJson`, `Write`, `ReservationFails`, `SerializerFails`, `EncodeFails`, `Encoded` | `json_encode::encode` without the GIL, then the `str` |
| `ToText` | the hash, the canonical bytes, the CSV views, the accessors: one object |
| `Assign` | `__setattr__`, `__delattr__` |
| `Change` | a caller changes a dictionary it got (external) |

`Spelling` is the document that each Python container spells, the reference for
what a result must be. A part of a report may here be any list in it (`IsPart`),
of which the code exports three, two levels down. A key waits in a local until its value is built; with the GIL held the model
puts it into the dictionary at once. What a finalizer may do when an allocation
within an export makes Python collect is not modelled.

### NativeCall and AtomicCall

One program counter per thread, a GIL, pending signals, and containers that any
thread running Python code may change. No step of the adapter tests the GIL, as
no line of the adapter does: it is taken and released where `Py::detach` does,
and mutual exclusion is an invariant.

| Action | Code |
|---|---|
| `Begin`, `Read`, `Refuse` | `attached_boundary::arguments`, `bind` and the admissions |
| `Detach`, `Finish`, `PanicDetached`, `Reattach` | `py.detach(..)` in `detached`; what core does in between is its answer only |
| `RunHandler`, `HandlerReturns`, `HandlerRaises`, `NoSignalDue` | `py.check_signals()?` |
| `StayAttached` | `Policy.to_dict` and the accessors, which never leave the GIL |
| `Publish`, `ExportFails` | `Py::new` and `serialization.rs` |
| `RaisePlain`, `SetField`, `RaiseStructured` | `Failure::python`, `structured` |
| `PanicAttached`, `Dispose`, `DisposePanics` | `boundary`, `dispose` |
| `Acquire`, `Release`, `Mutate`, `Arrive`, `Handle` | the interpreter and the rest of the program (external) |

`began`, `owed`, `raised`, `panics` are history; only `panics` is read by an
action, where it stands for "this panic happens while another is being handled".
The arguments are read during admission only. A finalizer that the garbage
collector runs during an export may let other code in, but the adapter's own
step goes on with the GIL and its request is complete by then.

`AtomicCall` is the promise: a call sees its containers at one moment, the one
at which it is made, and is answered once. `ImplementsAtomicCall` maps the
program counter to `idle / open / answered` and the request to what was seen.

### ArgumentBinding

`Place`, `BindKeyword`, `CheckRequired` are the three parts of `bind`. A key is
the slot it names (0 for none) or a reason why it cannot be read. The same
keyword cannot come twice, because Python passes a dict.

### EvidenceCall

`Program` is the straight-line code of the two admissions as a sequence of
checks, and `Step` runs one: `ValidateProgram` follows `validate_admission.rs`,
`BatchProgram` `batch_admission.rs`, `CheckErrors` and `HandleErrors` are what a
check refuses, `Skip` the checks of arguments left out (`None` is one, but not
for the mode), `Do` and `Call` what is done with the admitted values without the
GIL. A handle is its role; a text its size, a surrogate and the mode it names.
Documents inside handles were admitted when the handles were made.

### DeriveContract

`AdmitTypes`, `AdmitAt`, `AdmitPacks`, `AdmitPack`, `AdmitContext`, `AdmitNotes`
follow `derive_admission::admit` line by line; `LoadPacks`, `LoadContext`,
`Resolve`, `BuildBasis`, `Derive` follow `core_calls::derive`. A document is
converted in one step, of which only the size, the depth and the defect matter:
the theorems about `AcceptsExactlyAdmissible` and `DomainsAgree` of
`Conversion` are the reason.
When a document has several faults the step may report any of them, because
which one conversion meets first depends on the order of its items.

### CollectionAdmission

`AdmitTypes`, `AdmitCounts`, `AdmitShape`, `ChargeText`, `Reserve`, `Copy` are the
passes of `collection_admission::state`; `next` is the place of the loop in the
pass. The dicts are read anew in each pass, as in the code; that they are still
the same is the snapshot property of `NativeCall`, which alone covers a change
between two passes: here the request is constant. A path is a size and a
surrogate, since core owns what it means.

### JsonDecode

`Document` is the entry, `ReadScalar`, `Open`, `Close`, `ReadKey`, `ReadColon`,
`ReadNext`, `ReadEnd` are what `value`, `object` and `array` do with the next
lexeme; `frames` is their call stack. The text is chosen while it is read, which
is no restriction: the decoder is deterministic up to memory and looks one lexeme
ahead. So no bound on the length of a text is needed, the node limit ends it. A
string or a number is one lexeme with its faults; `JsonToken` spells it. A text
longer than `DOCUMENT_BYTES` is refused before it is read (`long`): an object near the byte
limit can be admitted by `from_dict` and have no admissible JSON text, because
punctuation counts for the text and not for the object.

### JsonToken

`BeginString`, `ReadCharacter`, `ReadUnit`, `ReadLow` and `EndString` are `decode`,
`hex` and `escape` of `json_string.rs`; `BeginNumber`, `ReadNumber`, `EndNumber`
and `BreakNumber` are `number` and `digits` of `json_decode.rs`. Where a value is
expected, after one of the texts `SpelledAfter`, a token is read part by part,
and it is the last thing read: what follows a lexeme is `JsonDecode`'s matter.
An escape is a part with its code unit, so surrogates pair or fail as in the
code. Whether a float is finite is decided by `serde_json`, which is external and
looks at every digit (`1.7976931348623157e308` is one, `1.7976931348623159e308`
is not): `EndNumber` may refuse any number with a fraction or an exponent as not
finite, and no property says which. `char`s and code units are those of Rust and
of UTF-16, `NumberSize` stands for 2^64.

### JsonGrammar

It models no code: it is what the decoder is compared with, said without a
stack, a place or a budget. `Values(t)` is the set of pairs of places between
which `t` is a value (a scalar, or brackets around items or members with commas
between them), a recursive function on them; a text is `WellFormed` if it is one
as a whole, and `Viable` if one of four fills and the brackets that are missing
make it so. `Within` and `Repeated` are the limits and the keys of each map. For
a token there are the grammar of numbers (`IsNumber`, by slices of the token),
the sum of the digits by their weights (`Absolute`), and UTF-16 (`Utf16`,
`PairedUp`). The four properties of the decoder stand here.

### Supervisor

| Action | Code |
|---|---|
| `Spawn`, `Arm`, `Launch`, `Spawned` | `Popen` with `parent_death_signal`: fork, prctl, the look at the parent, exec |
| `Late`, `WatchDue`, `WatchReturns`, `WatchFails`, `NoWatchDue` | the head of the loop |
| `Select`, `Read`, `Poll`, `Repoll`, `Return` | the rest of a turn, each system call a step |
| `Term`, `WaitGrace`, `Kill`, `Reap` | the `finally` clause |
| `Interrupt` | the signal handlers of `gate.py`, which raise wherever the supervisor is |
| `SupervisorDies` | it is killed; the command gets the signal it asked for |
| `Start`, `Write`, `CloseOutput`, `LeaveGroup`, `Exit`, `Die`, `DeadlinePasses` | processes, kernel and clock (external) |

A process may do anything at any time and ignore SIGTERM; SIGKILL ends it, but
later. A byte is its author, and `written` remembers the last of them. No caller
in the repository passes a session or asks for an interactive run, so those
branches are left out. A watch that is due may be late: whether it is due is a
free choice. `events` and the two calls of `poll()` are kept apart because the
loop is sensitive to their order.

### RecordedRun

It adds the channel to `Supervisor` and takes its actions over: `senders` are the
processes with a copy of the writer, `writer` the supervisor's own copy, which
`finish` closes; `WatchReads`/`WatchDrained` are `Channel.read` within the watch,
`BeginFinish`, `FinishReads`, `Finish` are `Channel.finish`, `Refuse` every way
out without a receipt. `Send` and `CloseSender` are the processes (external). The
second channel behaves like the first and is left out.

### TraceCheck

First the run (external) writes its traces, one event after the other, then the
checker reads them. `Enter`, `Leave`, `Effect`, `Spawn`, `Returns`, `Appear`,
`Exit`, `Kill`, `Wait` are the run; `odd` counts what is out of the ordinary in it:
an effect, a spawn outside a scope, an equal time, a child that does what it may
not, a `waitid` that finds the child alive and returns 0 all the same, which the
checker counts as a wait. `Record` gives an event the time at which its call began and the place at
which it ended, which is how `parse_trace` joins an interrupted call.
`CheckEnter`, `CheckLeave`, `CheckEffect`, `CheckSpawn`, `CheckWaitOrKill`,
`EndOfTrace` and `Decide` are `check_trace`, with `Children.parent` and
`Scope.finish`; `trace` is the match of a spawn and a trace, made from times alone.

A run in good order can be refused all the same: when the threads start children
in another order than the one they are checked in, when a child ends by itself
just as it is killed, and when two lines have the same time. `HonestIsAccepted`
says that there is no other way. Times are taken never to go back from one trace
to another. Paths, descriptors, argument vectors, the import interval, the
marker texts and the bound on workers are left out; the exit status of a child
is part of `clean`.

## 4. Runs

| Run | Instance | What it shows |
|---|---|---|
| `conversion` | all graphs of a dict, a list and a dict with up to two items each, and every kind of scalar and key in up to two entries; a document budget, an empty and a nearly spent request; depth limit 2, node limit 8; then the values of the three classes, two results at a time | cycles, sharing, depth, bytes and nodes: accepted exactly when the unfolding is finite, representable and within limits, the result is the unfolding, each error has its cause; every export is an independent copy, whatever fails and whatever callers do |
| `native_call_safety` | 2 threads, one of them the main thread, 2 containers, 1 signal, 3 shapes of operation, 2 fields | all safety properties of the boundary and the refinement |
| `native_call_live` | 2 threads, 1 container, core never answers one thread | every other call returns |
| `evidence_call` | `validate` and `classify_batch` with each argument at its limit, past it, of another type, `None` or left out; 5 other signatures with up to 3 positional and 3 keyword arguments in all orders | exactly the well-formed calls are bound and exactly the admissible ones reach core, as passed; the handles looked at are bounded |
| `derive_contract` | requests with 0 to 3 packs, context and notes around the limits, and each wrong type in turn | exactly the admissible requests reach core; its calls come in order; refusals have their cause |
| `collection_admission` | up to three checks (cap 2), two pairs (cap 2) and two configs (cap 1), texts at and past each limit, each fault of a type, a name or a shape | exactly the well-formed requests are admitted; refusals come in the promised order; the copy is the request |
| `json_decode` | every text over 19 lexemes; node limit 5, depth limit 2, byte limit 11; after three of them every token of up to five parts, with integers of 22 values for those of 64 bits | exactly the JSON objects within the limits are read; each refusal is at the first lexeme at fault and of its class; the value is what is written and is charged as conversion charges it; a spelled token is the lexeme it spells |
| `recorded_safety` | a command and one child, one interruption, the death of the supervisor | tail, result, clean-up, orphan, and accepted receipts |
| `recorded_live` | the same without interruption; the processes may hang, write and send for ever | a sender that waits is relieved or the run ends; once the deadline has passed `run_bounded` returns and `execute` decides |
| `trace_check` | 2 threads with at most 4 events each besides kills, 2 children, one odd event | accepted runs are matched rightly and confined to their intervals; runs in good order are accepted |
| `supervisor_output` | a command and one child, nothing goes wrong | fails: output that is not truncated is not all of the output |
| `supervisor_cleanup` | the same with one interruption | fails: a return that leaves the group alive |

The two runs that fail document what the code does against what it says:

* `supervisor_output`. `select` returns nothing after 50 ms; the command writes
  its last output and exits; `poll()` finds it ended and, as there were no
  events, the loop leaves (`native_process.py:102`). The output stays in the
  pipe and `truncated` is false, which `runner.py:49-50` takes for completeness.
  `NothingSeenIsLost` is what does hold: nothing written before the last
  `select` is lost.
* `supervisor_cleanup`. A handler of `gate.py:43-46` raises within `Popen`, or
  within the `finally` clause, of which `process.wait(timeout=grace)` catches
  `TimeoutExpired` only; the SIGKILL is skipped and members of the group that
  ignore SIGTERM go on. `CleanedUp` is what does hold.

Why the bounds are enough. The conversion looks at one item and one path at a
time: three containers give a cycle of each length up to three, a container
shared on and off the path, and, with a depth limit of two, a path that is one
too long; the node and byte limits lie inside the range of sizes, so each is
met exactly and passed by one. Two threads are what it takes for one to act
while another is in core, waits or holds the GIL; `MaxChange = 1` is enough to
tell a container read before a change from one read after it. A second signal
of a kind adds nothing, since a pass handles each kind once. `Fields` is 6 in
the code (the constructor and five attributes); 2 has a first, a last and a
middle state. In `DeriveContract` the limits are such that two packs fit alone
and not together, or together and not with the notes. `WordSize = 1024` keeps
the machine word above all limits, as 2^64 is, and makes a subtraction that
wraps around visible.

Two processes are a leader and one that outlives it, leaves the group, or holds
a pipe. `PipeCapacity = 2` with `ReadSize = 1` lets a read leave something
behind, `OutputLimit = 1` is passed by the second byte; `TailKept` is proved for
all sizes. `ChannelLimit = 1` is met by the first byte and passed by the second.
One interruption meets every step; a second one during the clean-up adds only
what `abandoned` already is. In `collection_admission` each list can be one entry
too long and the total is passed by texts that fit one by one; in `json_decode`
five nodes are a map with two entries, or nesting past the depth limit; five
parts are a pair of surrogates with a character on each side, or a sign, a digit,
a point and an exponent, and 22 values put the ends of both integer types (21 and
-11) within two digits of 0, 1 and 2; the decimal value is proved for all.

Two results are one that is changed and one that must not notice; `Change` is
once per result, since the second change adds nothing to what is shared. Once a
value is loaded the run looks at `VIEW Loaded`, which drops the graph the document
came from: no action after `Load` reads it. In `evidence_call` the lists can be
one too long and the product can exceed its limit with both lists within
theirs. Two children in two threads are what it takes to match one to the
other's trace; the theorem `ChildrenCorrect` is for any number.

Every behaviour may end (a conversion returns, a process is aborted), so the
runs do not check for deadlock; that calls return is the property of
`native_call_live`, and of `recorded_live` for the harness. Termination of the conversion is not a property of its own:
every step charges a node or leaves a container, and both are bounded.

### Fairness

`LiveSpec` assumes weak fairness of the adapter's own steps, which nothing
disables; strong fairness of taking and giving up the GIL, since the
interpreter asks its holder to release it after the switch interval and does
not let the same thread have it again at once; that a signal handler ends; and
that core answers, except in the threads of `Hung`. Nothing is assumed about
threads changing containers, calling or receiving signals.

`RLiveSpec` assumes that the supervisor runs and that the child of the fork gets
to its `exec`; nothing of the command, which may hang or write
for ever. That the deadline passes is not assumed: `RunEnds` begins when it has.
Strong fairness of calling the watch is, since the code calls it at the first
turn that is half a second after the last one.

## 5. Proofs

Eight modules hold theorems; each proves `Spec => []Inv` for one or more
inductive invariants and reads the properties off them.

* `TotalsProofs`. A set of naturals that is not empty has a least element
  (`LeastNatural`); from it come induction over a set (`Induction`) and the
  existence of a function with `f[0]` given and `f[n]` a function of `f[n - 1]`
  (`Recursion`), both free of operator parameters. `SumsAre` and `SumsGrow` say
  what `Sums` is, `TotalJoins` what it makes of two sequences, and
  `SomethingFollows` gives, for a sequence of sequences, what follows each of
  them in the flattened one (`FlattenAppend`, `FlattenGrows` and `FlattenFolds`:
  what becomes of it when a sequence is added, continued, or joined to the one
  before).
* `ImmutableValueProofs`, about `Conversion` first. `IInv` is the type
  invariant, the budget invariants and the path: the ancestors are the stack's
  containers, pairwise distinct, each the item before its frame's next position,
  and the stack is as high as a charge has admitted (at most `DEPTH`). The path
  is needed for the pop to leave a path, the height for the reservation.
  Theorems: `TypeCorrect`, `PathCorrect`, `ReservationSuffices`, `BudgetCorrect`,
  `DomainsCorrect`.
  `DocInv` says what has been achieved: what is written, followed by what is
  left of each open container (`Pending`, innermost first), is the unfolding of
  the root; every item behind a frame's position has no defect, nor has anything
  below it, and is low enough (`PathGood`); what was charged is the size of what
  is written; and a refusal has its cause. Accepting is then immediate:
  containers that are low enough have no cycle (`ShallowHasNoCycle`) and what is
  charged is the size of the unfolding. A refusal is by cases: an ancestor met
  again is below itself (`AncestorIsCycle`), a charge that is not admitted is for
  a token of the unfolding that follows what is charged (`OverLimits`), a level
  too many shows that the root is too high (`PathIsShallow`, `ContainerRefusal`),
  and a leaf is refused for its own defect (`LeafRefusal`). Theorems:
  `DocInvariance`, `AdmissionCorrect`, `UnfoldingCorrect`, `ErrorsCorrect`.
  Then `ImmutableValue`. Every step of `VNext` is a step of `Conversion` or
  leaves it alone, so `VSpec => Spec` (`ValueRefinesConversion`) and the theorems
  above carry over (`AncestorsCorrect`). `VInv` is the form of the objects, that
  the open containers of an export are stacked in the order they were made
  (`Stack`), that nothing holds one of them yet and what was there before does
  not hold what the export makes (`Refs`), `NothingShared`, and what the open call
  has done so far (`Calls`). An export that fails drops every object from its
  first on, which is sound because of `Refs`. Theorems: `ValueCorrect`,
  `SharingCorrect`, `AnswersCorrect`.
  That an export is a copy needs two more invariants. `OutInv`: the document
  under construction leaves as many containers open as frames are, so that an
  accepted one, and every part of it, is balanced. `Exports`: containers are made
  before what they hold (`Ascending`), and those made before a result hold
  nothing of it (`Separate`), so that what a caller may change in one result is
  not what another is spelled from (`ResultsApart`); and while an export runs,
  what its open containers have begun to spell, one after the other, is what has
  been read of the view (`Exporting`). An item, an opening and an end each add
  their token to it (`LeafExports`, `OpenExports`, `HoldExports`); when the last
  container ends, it spells the view (`ResultExports`). `Ascending` is also what
  makes the recursive function `Spelling` what its definition says
  (`SpellingIs`). Theorem: `ExportCorrect`.
* `NativeCallProofs`. `IInv` joins the types, `GilInv` and: while a thread is
  admitting, the heap is as it was when its call began. The last is preserved
  because only the holder of the GIL changes the heap and an admitting thread
  is the holder. Theorems: `TypeCorrect`, `GilCorrect`, `SnapshotCorrect`.
  `CallsInv` says what is true of a call at each place of it (`CallInv`: where
  there is an outcome, where signals are owed, where a panic can have been), that
  signals owed are pending or handled until the answer (`Owing`), and that an
  aborted process has met two panics of one call (`AbortedByTwo`). A step of a
  call leaves every other one as it was (`Elsewhere`), so each step is proved
  for its own call. Theorems: `SignalsCorrect`, `PanicsCorrect`, `AnswersCorrect`.
  `Refinement` is a step simulation: `Begin` maps to the abstract call,
  `Publish` and the steps that raise to its answer, `Return` to its end, an
  abort to a crash, and every other step of a call to none (`Alike`). That the
  answer is of the arguments at the time of the call is `RequestIsSnapshot`.
* `DeriveContractProofs`. The running total stays within the request because a
  document is admitted under that total; before the notes it is at least what
  it was. `Called` gives the calls made at each place in terms of the packs and
  the context (`Loads`, `Loaded`, `Resolved`, `Based`), which begin one another
  (`StagesAre`). `AdmittedInv` says what each place in the code has already
  tested: the texts (`TextsFine`), the documents (`DocumentsFine`), and that the
  request total is the sum of the sizes admitted so far (`Charged`), with a cause
  for each refusal; at the end that is `Admissible`. Theorems: `TypeCorrect`,
  `CombinedCorrect`, `CallsCorrect`, `AdmissionCorrect`, `RefusalsCorrect`.
* `AdmissionProofs`, about `CollectionAdmission` first. `CopyInv` says that the
  passes that are over found no fault (`Found`), how far the open one has got and
  what it has added up (`Reached`), that what is copied is of the request
  (`Copied`), and `RefusalsInOrder`, which is inductive because a pass begins only
  when those before it found nothing. Theorems: `AdmissionCorrect`,
  `RefusalsCorrect`, `CopyingCorrect`, `CopiesCorrect`.
  Then the decoder, against the grammar, for texts of any length. `Moved` is its
  automaton as a function of the open brackets and of the place, with a place
  "failed"; `Sites` are the places that a text passes. What a place means is said
  in the terms of the grammar (`Stands`: which entries of the innermost container
  are whole, what is due next) and every lexeme keeps it (`StandsMoves`), so a
  text that leads to the end is a value. The other way round, every value leads
  from a place where one is due to the one after it (`ValueRuns`, by induction
  over the length, through `ItemRuns` and `ContainerRuns`). Together
  (`WellFormedIs`): a text is well-formed exactly when its place is the end. It is
  viable exactly when its place is not "failed" (`ViableIs`): one fill leads
  from each place to one where the brackets can be closed, and nothing leads
  away from "failed". `Decoding` is the invariant: while the decoder runs, it is
  at the place of its text, its frames are the open brackets with the keys of
  their maps, `out` is what the text says and the budget has been charged the
  totals of the text (`Gone`, `BudgetOf`), and the three properties hold. Each
  action is proved to be `Moved` with the charge and the refusal that the
  lexeme is due. Theorems: `DecoderIsExact`, `DecoderIsTruthful`, `DecoderWrites`.
  Last the tokens. `Spelling`, for strings: the characters got so far are, in
  UTF-16, the code units read so far but for a high surrogate that waits for its
  other half, and the budget has been charged their bytes in UTF-8, half of a pair
  for each surrogate. `Counting`, for numbers: the place is the one at which every
  number that goes on from here is (`Tracked`, so where no part is consumed no
  number goes on), what was read is a number but for the digit that is missing
  there (`Formed`, so nothing is read that could become none), and the value of
  an integer is the sum of its weighted digits (`Valued`, so what is refused as
  too large is out of range, and nothing else is). Theorem: `TokensAreLexemes`.
* `SupervisorProofs`. `IInv` is the type invariant, `TailKept`, that members of
  the group have been started, that from the SIGKILL on none of them can run
  again, and `NoOrphanCommand`. `TailKept` needs lemmas about the end of a sequence, and of
  a sequence with another after it, because the history is itself cut to what
  can still matter. That a reaped leader and a killed group stay so rests on
  processes being born in the group only from members that run. `SeenInv` says
  what the loop knows of the pipe: once the end of the output was read nobody
  holds the pipe, so it stays empty, and what a select did not find was written
  after it. Theorems: `Invariance`, `TypeCorrect`, `TailCorrect`,
  `CleanupCorrect`, `OrphanCorrect`, `NothingLostCorrect`. A step of `RecordedRun`
  is a step of `Supervisor` or leaves it alone (`Supervised`), so all of this
  holds within `execute` (`RecordedIsSupervised`). `ChannelInv` adds that a run
  is decided only after `run_bounded` has returned, with the supervisor's own
  writer closed, and that from an accepted end on nobody holds the channel:
  the end of it is read only when the last writer is gone, and a process gets
  a writer only from one that has it. Theorem: `ReceiptCorrect`.
* `EvidenceCallProofs`. Of the binding alone, `IInv` says which slots are filled
  after the keywords read so far. That a call with more keywords than slots is
  not well-formed is a pigeonhole argument (lemma `TooManyIsMisfit`). Theorems:
  `TypeCorrect`, `BoundCorrect`, `BindingCorrect`. The operation binds as the
  binding alone does
  (`BindingKept`), so what is proved of that holds within it. `EInv` says which
  lists have been typed and counted at each check and that what was copied is
  one of them. `CoreInv` says what each slot holds, from a table of the checks
  that type, copy and clone it (`Planned`), to which both programs conform
  (`ValidatePlan`, `BatchPlan`); the steps are then proved once for both.
  `CheckedInv` says that the checks passed so far pass and that a refusal is by
  one that does not; that all checks of a program pass is `Admissible`, shown
  for each program (`ValidatePasses`, `BatchPasses`). Theorems: `BindingKept`,
  `EInvariance`, `WorkCorrect`, `CoreCorrect`, `AdmissionCorrect`.
* `TraceCheckProofs`. The invariant says of the run that a spawn began before its
  child's trace and that no two spawns have a child in common (`SpawnsPrecede`,
  `SpawnsDiffer`), that the lives of children are in order (`LivesInOrder`), and
  that all are over when the check begins (`AllOver`); of the checker that what
  is matched was spawned (`MatchedWereSpawned`), and that each trace is matched
  to its own spawn or was left over by an earlier one (`OwnOrLeftOver`). When all
  traces are matched, none was left over.
  `Confined` follows each thread along its trace: where the checker is, the
  thread was (`MarkersTell`, `IntervalIsWhere`), no effect was passed over
  (`EffectsOutside`), spawns, and what is said of their children, are in their
  scope (`SpawnsConfined`, `RowsTell`), and the matched traces do not overlap
  (`OneAtATime`). `Heard` is the converse: in a run in good order the checker
  finds all it asks for (`RowsHear`, `UnendedAreOpen`) and matches each child to
  its own trace (`OwnIfHonest`). Theorems: `ChildrenCorrect`,
  `ConfinementCorrect`, `HonestyCorrect`.

The assumptions are those of the modules: the limits are at least 1 and below
the machine word, keys of a dict are leaves, a keyword names a slot once, the
main thread is a thread. TLC evaluates them in every run.

The provers cannot use the library's induction theorems, which take an operator
as a parameter. Where induction is needed, over the levels of a graph, the items
of a request or the entries of a trace, it is by `Induction` of `TotalsProofs`,
and what is recursive in a module with a theorem is a function.

Only model-checked: liveness (`CallsReturn`, `BackpressureEnds`, `RunEnds`) and
everything with ENABLED, which the provers cannot treat. Every safety property of
the passing runs is stated by a theorem.

## 6. Not modelled

* `fitctl-core` is outside the repository: it answers, fails, panics or hangs.
* Messages, codes and the text of exceptions; the schemas of artifacts.
* `survey` and `replay` of `collection.rs` and `redact`: bounded texts, then one
  call of core, in the manner of `derive_contract`'s `at`.
* Of the trace checker: paths, descriptors, argument vectors, the import
  interval, the texts of the markers and the bound on simultaneous workers.
* Finalizers run by the garbage collector within an export.
* Qualification and release (`gate.py`, `driver.py`, `runner.py`,
  `verify_upload.py`, the workflows): one process that calls docker, mount and
  GitHub's steps one after the other. What may go wrong lies in those, and they
  are not in the repository; the handlers of `gate.py` are in `Supervisor`.
* Of `execute`: the descriptor shuffle of `recorded_exec.py` and the size of the
  trace files. A complete receipt may be refused while a killed process has not
  yet closed its copy of the channel; the model has that behaviour, and it is on
  the safe side.
* The build backend, archives, licence and portability checks: straight-line
  file processing without state.
* Test seams and tests of the adapter: what they inject is a failure branch of
  a model.
