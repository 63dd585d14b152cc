# Verification of the GLM-5.3-Flash two-rank runtime

TLA+ models, TLC runs and TLAPS proofs for the C++ runtime in this repository:
text generation by the greedy and the DFlash2 decoder, on one rank, on the two
of one host and on two hosts; the forward pass operator by operator; the check
that a directory holds the expected checkpoint, and the store that serves it;
the deployment contract and the execution plan; the packed weight view and the
JSON scanner. Paths are those of the repository; `text_forward.cpp`,
`checkpoint_binding.cpp` and the other `.cpp` files named without a directory
are in `src/`, `dflash_loop.hpp` is `include/ninfer_glm53/dflash_loop.hpp`.

## 1. Inventory

| Component | State it keeps | Operations | Interacts with |
|---|---|---|---|
| commit rule (`speculative.cpp`) | two `RankRecord`s | `commit_same_tokens`, `commit_dflash2` | called by the DFlash loop and by `generate_text` |
| `TextModel` (`text_forward.cpp`) | KDA conv and recurrent state, MLA latents, `seen_`, `final_`, taps, rank and link descriptor | `step`, `argmax`, `prime_capture_kda`, `set_capture`, `save`, `restore` | reads tensors from `Store`, exchanges rows through `gather_rows` |
| greedy decoder (`greedy_tokens`) | emitted tokens | one call per request | `TextModel` |
| DFlash loop (`dflash_loop.hpp`) | emitted tokens, last proposals, accounting | one call per request | `TextModel`, the draft (`propose_dflash`), the commit rule |
| rank link (`generate_text`) | socket pair, child process, reported token lists | fork, `gather_rows`, report, reap, compare | parent and child run the same decoder |
| two-host session (`generate_text_peer`, `open_peer_socket`) | a TCP connection, deadlines | bind/accept, bind/connect with retries, exchange of ids | the greedy decoder on each host |
| forward pass (`TextModel`, `propose_dflash`) | scratch vectors, taps, logits, caches | the operators of a step, an argmax, a proposal | looks tensors up in `Store`, gathers halves of rows from the other rank |
| `router_select`, `argmax`, candidate scan, `causal_conv_silu` | none; convolution history | one call each | called by the forward pass |
| `Store` | mapped shards, tensor table | open, `get`, `load`, `scalar` | `TextModel`, the draft |
| checkpoint binding (`checkpoint_binding.cpp`) | counters, error list, receipt; reads a directory that may be changing | index, shard headers, catalogue matching, verdict | parameter schema, JSON scanner, `Store` |
| JSON scanner (`json_scan.hpp`) | cursor, nesting depth | `skip_value`, `find_key_value` | binding, `Store` |
| parameter schema, model spec | constant tables | expected tensors, validation | binding, plan, and, only by spelling the same names, the forward pass |
| NVFP4 view (`nvfp4_decode.cpp`) | spans and strides of a view | construct, slice, dequantize, packed product | its callers' buffers |
| deployment contract, execution plan | the file's assignments, the deployment, the plan | read, validate, build, validate again | model spec, the plan program |
| scripts | manifest and receipts on disk, host facts | download checks, preflight | the file system |

Hard behaviours, and what makes each component correct:

* **Speculation.** DFlash steps tokens it may have to take back. Correct means:
  the output is target-only generation's, the caches never keep a rejected
  token, and nothing is decided from `final_` after it became stale. `restore()`
  does not put `final_` back, so this depends on the order of calls.
* **Boundaries.** The budget, a stop token and the end of a round can fall on
  the same position or one apart.
* **Exceptions.** Every step can throw (a rank is gone, a tensor is missing, the
  indexer bound is passed), in the middle of the layers. The verify phase
  promises a roll-back.
* **Two processes.** The ranks alternate sends and receives of shards that may
  exceed the socket buffers. Either may be slow, fail or, the child, be killed;
  a failing child writes a `-1` into a stream whose reader may be expecting rows.
* **Two hosts.** Each is started on its own, with its own `new_tokens` and its
  own copy of the checkpoint; rank 1 dials and retries while rank 0 listens, and
  nothing on the connection tells a row from a count or an id.
* **Shared scratch.** A step calls some three thousand operators on five scratch
  vectors; only the order of the calls keeps an operand from being overwritten,
  and the number of gathers depends on each rank's own cache length.
* **Two spellings.** The forward pass and the catalogue name and shape every
  tensor independently; contract and plan check the same fields independently.
* **Decision from evidence.** `ok`, a rank mismatch, a complete checkpoint and
  an exception must each mean what they say. Binding counts every defect it
  meets, and looks at each file twice; the verdict must be that of the files it
  really read.

The full list, with lines, is `hazards` in `PROJECT.json`.

## 2. Plan

The order in which the modules were written; all of it is done.

1. `Commit`, `RankCommit`: the commit rule.
2. `TextModel`, `TargetContinuation`, `GreedyDecode`, `DflashLoop`: the
   decoders and the promise both keep; inductive invariant and proofs.
3. `RankLink`: the link of modes `tp2` and `dflash`.
4. `PeerSession`: connection attempts and retries, differing budgets, the
   final exchange.
5. `LayerPrograms`, `RankedForward`: the forward pass as a program of operators,
   and two ranks running it, the gathers depending on the cache length.
6. `CheckpointBinding`, `ShardHeader`, `CheckpointStore`: the verdict, and what
   is served after it.
7. `ModelSpec`, `ParameterSchema`, `ForwardCatalog`: the tables, composed with
   the forward pass.
8. `DeploymentContract`, `ExecutionPlan`, `PlanProgram`.
9. `PackedView`, `ConvHistory`, `Selection`, `JsonScan`: pure algorithms against
   reference definitions.
10. Proofs: all of `DflashLoop`, `RankLink` and `PeerSession` but their
   liveness, both decoders' refinement of `TargetContinuation`, the commit rule,
   the kernels, the forward pass on two ranks, shard headers, the binding pass,
   the store and the plan (section 5).

Worth doing next: a proof that `ForwardCatalog` finds its tensors, which needs
the catalogue's names followed through `ParameterSchema`.

## 3. Modules

### Commit, RankCommit (`speculative.cpp`)

`Commit` holds the acceptance rule as operators: `CommonPrefix`, `Accepted`
(matched draft tokens, then the target's next one), `SameTokens`, `Write`. They
are used both by `RankCommit`, where arbitrary views, drafts and targets are
committed one after the other into the same two records, and by `DflashLoop`.

### TextModel (`class TextModel`)

A cache is abstracted to the list of tokens it was built from. `kda` is never
shortened except by being replaced, `mla` can be cleared; `final` records which
caches the last completed step left, i.e. what `argmax()` will look at. The
logits of a step are `Predict(checkpoint, kda, mla)`, an arbitrary function, so
two states give the same token for certain only when both histories are equal.
`BestRow` adds that `argmax()` returns row 0 when nothing compares greater
(NaN). `Torn` is what a step that throws may leave behind.

`Greedy(weights, toks)` is the yardstick: what the checkpoint predicts after the
primed prompt and `toks`. `IsContinuation` says a list is target-only
generation's output within a budget.

### TargetContinuation

The abstract specification of a generation: tokens only grow along the
continuation, the run finishes exactly where target-only generation does, with
the right reason, and hands over a sequence state that covers all tokens but the
last; or it throws.

### GreedyDecode (`greedy_tokens`) and DflashLoop (`generate_dflash_continuation`)

One action per call that changes the model or per exit of the loop.

| Action | Code |
|---|---|
| `PrimeCaptureKda`, `StepPrompt` | `prime_capture_kda`, the prompt loop |
| `ExitLoop`, `StopAtEos`, `StopAtBudget` | the while condition and its two early exits |
| `Propose` | `propose`, size check, `save` |
| `VerifyStep` | one `step` and `argmax` of the try block |
| `CommitRound` | `commit_dflash2`, `restore`, truncation, stop-token cut, bookkeeping |
| `MaterializeStep` | one `step` of the final loop; the last one also sets `finish` |
| `Throw`, `VerifyThrows` | an exception outside or inside the try block |

The draft is external to the loop: proposals are any list of K tokens, which is
stronger than what `propose_dflash` can do. `MCDflashLoop` and `MCGreedyDecode`
give `Predict` a table indexed by a hash of both histories; every table over the
chosen size is a checkpoint.

### RankLink (`generate_text`, modes tp2 and dflash)

Parent and child with program counters, the transfer each is at, the cells moved
of it, the two directions of the socket pair and who holds which descriptor.
The decoder is reduced to its sequence of transfers: two per `gather_rows`, then
the child's report. Cells are tagged with the transfer they were sent for, which
the code cannot see; the tag only feeds `dirty`, the fact that a rank consumed
foreign bytes. Deadlines may pass, a rank's own computation may fail and the
child may be killed at any point. `Agreed` uses that ranks whose rows were never
mixed up compute the same ids (they run the same code on the same gathered
vectors); a parent that took marker bytes as rows may have other ids.

### PeerSession (`generate_text_peer`, `open_peer_socket`)

Two hosts, each with its own budget and possibly another checkpoint (`odd`).
`phase` follows the opening (rank 0 `start`, `listen`; rank 1 `dial`,
`dialing`), the gathers (`rows`) and the final exchange (`ids`). A connection
attempt is a number: rank 1 may give one up and dial again while the first still
waits in rank 0's backlog (`queue`), and rank 0 closes the listening socket,
which resets whatever is left there, once it has accepted one. The link carries
words, each tagged with what its sender meant by it; a receiver looks at the tag
only to set `dirty` and, in the final exchange, to know the value of the word
(row data is assumed never to be the bits of an id or a count that matches).
The kernel's parts, handshake and buffers, are marked external.

### CheckpointBinding (`bind_checkpoint_directory`, `bind_catalog`)

One action per phase of the pass, one per shard in the reading loop, in the order
of the shards' names (`First`). What an access finds is chosen when it is made, so a file that was missing at
`StatShards` (`late`) may be there for `ReadShard` and the other way round. A
tensor's dtype and shape are one value; the fields of `config.json` one verdict.
`Flawless` is the reference definition: it speaks of the headers that were
read, the index and the receipt, and of no counter.

### ShardHeader (`read_shard`)

The validation of a header: sizes computed in wrapping unsigned integers
(`Times`), offsets against payload, then the sorted neighbour comparison. The
reference definitions use unbounded products (`TrueBytes`) and all pairs
(`Apart`).

### CheckpointStore (`Store::Store` after a binding pass)

Extends `CheckpointBinding`: when the pass is over, the store reads the index
and the headers once more, and maps shards in the order of a hash table, any
order here, then parses their headers in that order, one a step. Of a name that
two headers hold the first entry stays (`Emplaced`).
Binding's checks are not repeated, so that `CompleteIsServed` is about what the
verdict is worth.

### LayerPrograms, RankedForward, ForwardCatalog (the forward pass)

`LayerPrograms` writes a step, an argmax and a proposal as sequences of
instructions, one per operator call: which buffer it writes and how much of it,
which buffers it reads and what it expects there, whether its rows are shared
between the ranks, and the tensors it looks up. The value an operator computes
is its name. `RankedForward` lets two ranks run these programs; a buffer has a
lower and an upper half, a rank computes one and a gather brings the other.
What is decided after an argmax is an arbitrary function of the logits
(`verdict`), the same on both ranks only when both hold the same whole logits.
A gather is one step here; its bytes are `RankLink`'s. `ForwardCatalog` runs the
same programs once against the catalogue.

### ModelSpec, ParameterSchema (tables)

The pinned model, vision and draft specifications with their validators, and
both catalogues tensor by tensor. Names are tuples (`<<"layer", i, part>>`).

### DeploymentContract, ExecutionPlan, PlanProgram

A deployment file is a sequence of assignments, one `ReadLine` each; a value is
a number or a text of a class (empty, a word, a path, forty hex digits). The
contract's errors and warnings are sets of names of failed checks. The program
reads, checks, builds, and checks again; between the last two, another caller of
the library may change the plan in one place (`Edit`).

### PackedView, ConvHistory, Selection (kernels), JsonScan

`PackedView` follows addresses: spans in a small address space that wraps,
slices of slices, and outputs that may lie over the weights. `ConvHistory` runs
one token per call, channel by channel, over an array in which output and input
may be the same stretch. `Selection` compares scores of a few levels or NaN, one
candidate a step: `Look` and `Pick` are the inner and the outer loop of
`router_select` and of the candidate scan, `ScanRow` is `argmax`.
`JsonScan` reads lexemes: a text is a sequence of brackets, commas, colons,
names, scalars and malformed scalars, and the reference definition is the grammar
(`Values`). It declares a RECURSIVE operator and is only model-checked.

### Slips

Modules also define variants of some operators under a comment starting with
"Slip": plausible mistakes in that piece of code. They are not part of any
specification. Each property is shown to notice one of them (`mutants` in
`PROJECT.json`).

## 4. Runs

| Run | Question | Bounds |
|---|---|---|
| `RankCommit.cfg` | Do the records change alike, in one go and truthfully, through any sequence of commits? | records of 3 slots, drafts up to 2, two token ids; both over-long lengths are offered, and a partial match, a full match with bonus and a stale slot occur |
| `DflashLoop.cfg` | Is DFlash output target-only output, do the caches follow it, does the loop implement `TargetContinuation`, roll back and end? | K = 2, budgets 0..6, 3 ids with one stop id, all 256 tables of 4 rows including rows that do not compare, indexer bound 7: exactly the lookahead of budget 5, exceeded by budget 6 |
| `GreedyDecode.cfg` | Does the greedy decoder implement it? | a prompt of two tokens, budgets 1..5, 256 tables, indexer bound 5 |
| `RankLink.cfg` | Does every run of two ranks end in a truthful outcome with nothing left behind, without a mutual wait, even if a value arrives in parts? | 3 gathers of 5 rows (shards of 2 and 3), 2 cells per value, buffers of 3 cells, smaller than both shards; with and without a draft list of 2 tokens |
| `PeerSession.cfg` | What does a verdict of two hosts mean, and do both always reach one? | budgets 1..3 chosen independently, a stop id, equal or differing checkpoints, one gather per token with halves of 1 and 2 words, buffers of 2 words, 2 connection attempts that may both be waiting |
| `CheckpointStore.cfg` | Is a checkpoint called complete exactly when it is, and is it then served as bound? | 2 expected tensors and a stranger, 2 shards and an unsafe name, every index over them, headers of up to 2 entries (right, wrong or unsupported layout, repeated, foreign), 4 receipts |
| `BindNamesDoc.cfg` | Does a complete verdict imply that headers were read? (violated) | the same with `--names-only` |
| `ShardHeader.cfg` | Is a header accepted exactly when it is sound? | sizes that wrap at 16; every single tensor of 3 dtypes and up to 2 dimensions out of 6 values and every pair of offsets, and every header of up to 3 one-byte tensors |
| `Forward.cfg` | Does every operator read what it should, where it should, as the type it is stored in, and do the ranks gather the same values? | the real layers, widths and catalogues; of 288 experts the first and the last; indexer bound 2, so that the second step after the prompt is refused; 3 argmaxes with every decision after each |
| `PlanProgram.cfg` | Does the plan check accept exactly built plans, and is every refusal announced? | the example deployment followed by up to 2 more lines, each of the known keys with values on both sides of its checks, and every single-field edit of a plan |
| `JsonScan.cfg` | Is exactly one value skipped, and a member found? | every text of up to 10 lexemes that the scanner can still be reading, 3 nested containers |
| `Kernels.cfg` | Are the bytes, inputs and scores read the right ones? | views of up to 32 by 32 in an address space of 512 bytes, slices two deep; 3 channels, kernel 4, 6 tokens, 7 places; 5 scores of 3 levels or NaN, 3 picks |

K = 2 gives every case of a round: nothing, something and everything accepted,
and a cut by the budget or a stop token at the anchor's successor, inside the
drafts and at the bonus; budget 6 leaves room for a full round (3 tokens more
than the anchor) with a second one behind it, and for several short ones. Two
gathers are enough for a rank to be one transfer ahead in either direction; a
rank can never be further ahead because each gather needs the other's rows. The
real sizes (K = 7, 154880 rows, budgets 1..8, any buffer) are covered by the
proofs, for the decoders and for the link.

In `PeerSession` two tokens' gathers plus the final exchange already let one
host be in the exchange while the other is in any transfer of a later token, and
a shard of two words can be filled by a count and an id; two attempts let the
dead connection be accepted before or after the live one. In `CheckpointBinding`
two shards and two expected tensors give every relation between index and
headers (right place, other place, both, neither), and four entries' worth of
headers one defect that could hide another.

In `RankedForward` the programs are the real ones, so that there is nothing to
bound but the run: one latent and two give different numbers of gathers, and the
third step is refused; every sequence of two decisions
(step, rewind, propose, stop) occurs, a rewind to a snapshot after a proposal
among them. `ConvHistory` takes two tokens more than the kernel is long, so that
every kept input has been shifted out once. In `Selection` five scores of three
levels give ties of two and three and every position of a NaN. Two slices are
the first that can confuse a slice's own stride with its parent's, and the
address space is small enough for a buffer to end at its last byte.

The properties of `Kernels.cfg` and of `Forward.cfg` are about parts that share
no memory: their MC modules choose, in the initial state, which one runs, and
the others stand still.

**Finding.** `BindNamesDoc.cfg` shows a directory with an index that names
exactly the expected tensors and no shard at all: `--names-only` reports
`complete` (`checkpoint_binding.cpp:641-647, 698-709`), while `README.md:42-43`
says that a complete receipt requires the shard headers. A reader of the receipt
must look at `shapes_checked` as well.

**Fairness.** `PeerSession.cfg` assumes weak fairness of each host's next step
and nothing of the network: a handshake may never complete, and every wait has a
deadline that is one of the waiting host's steps. `DflashLoop.cfg` assumes weak
fairness of the loop's next step: it is one thread that always has a next
statement; refused steps and failing calls end in `Throw`. `RankLink.cfg`
assumes weak fairness of each process's next step and none of the kill signal:
both are ordinary processes, and one that waits on the link is released by its
own 30 s deadline (`text_forward.cpp:108-130`), which is one of its enabled
steps. No run disables the deadlock check: a stopped program stutters explicitly
(`Stopped`, `Rest`).

## 5. Proofs

Every theorem holds for all values of the constants that satisfy the `ASSUME`s
of the modules it is about, and from nothing else: every set of tokens, stop ids,
prompt, checkpoint set and `Predict`, every K up to the longest draft the commit
takes, every set of budgets and every indexer bound for the decoders; every
number of gathers and rows, report, value width and buffer for the link and,
with budgets and attempts, for the session of two hosts; every matrix, address
width and nesting for the view; every indexer bound, number of argmaxes and
sequence of decisions for the forward pass of the pinned model; every number of
channels, kernel width and place of the output; every number of scores and
picks; every header, payload and integer width for the shards; every catalogue,
receipt, set of names and shards for the pass and the store; every deployment
file for the plan. Six assumptions say something a reader may want to know: a
gathered vector has at least three rows (hundreds in the code), so that rank 1
sends two words or more for a gather and its count alone cannot pass for a whole
shard; the forward pass is the pinned model's, the only one the program accepts
(`LayerProgramsAssumption`); a payload is counted in the same bounded integers
as the sizes (both are `uint64_t`); there are finitely many tensor names, an
expected catalogue is not empty, and its layouts have dtypes that the store
supports (the catalogues of `parameter_schema.cpp` use BF16, F32, U8 and F8_E4M3
only).

`SequenceLemmas` has the facts about prefixes and concatenation,
`TextModelLemmas` those about caches and `Greedy`. `DflashInductive`,
`RankLinkInductive` and `PeerSessionInductive` are the inductive invariants of the
three largest modules; those of the kernels, of the forward pass, of the binding
pass, of the store and of the plan stand before their proofs. Each was an
invariant of a TLC run on the bounds of section 4 before it was proved, except
those of the forward pass, which speak of traces of its programs.

| Module | Theorem | Says |
|---|---|---|
| `DflashLoopProofs` | `InductiveHolds` | `Spec => []Inductive` |
| | `TypeInvariant` | every variable keeps its type |
| | `DflashMatchesTarget` | gate 3 of `README.md:51`: the tokens are target-only generation's |
| | `CachesFollow` | no rejected or unstepped token stays in a cache |
| | `ArgmaxIsLive` | `final_` is live wherever the loop decides from it |
| | `FinishTruthful` | the reported reason is the real one |
| | `VerifyRollsBack` | an exception in the verify phase restores the caches |
| | `LookaheadFits` | no step is refused when prompt + budget + K - 1 fits under the bound |
| | `AcceptanceAddsUp` | `accepted_drafts`, `verify_rounds` and the number of tokens are consistent |
| | `DflashKeepsContract` | the loop implements `TargetContinuation` |
| | `CommitIsAllOrNothing` | the two records stay equal and a refused commit leaves both alone |
| | `CommittedDraftsFollowTarget` | a commit reports a prefix of the target's tokens, which stops early only behind a rejected draft |
| `GreedyDecodeProofs` | `GreedyKeepsContract` | so does the greedy decoder |
| | `GreedyCachesInStep` | after the prime step the KDA state is one primed token ahead of the latents |
| `RankLinkProofs` | `LinkInductive` | `Spec => []LinkInvariant` |
| | `RanksNeverDeadlock` | the ranks never wait for each other, however small the buffers |
| | `PeerIsNeverMissedSilently` | a rank whose peer is gone is told so at once |
| | `RowsAreNeverMixedUp` | a cell is taken by the transfer it was sent for, a failing child's -1 excepted |
| | `LinkVerdictIsTruthful` | ok means two complete runs, a mismatch a failed child |
| | `LinkIsAlwaysReleased` | on every way out the child is reaped and the descriptors are closed |
| `PeerSessionProofs` | `PeerInductive` | `Spec => []PeerInvariant` |
| | `PeersAgree` | ok means that both hosts ran to their ends with the same tokens |
| | `PeerVerdictsAgree` | the two hosts' verdicts do not contradict each other |
| | `PeersComeApartUnlike` | only hosts whose budgets or tokens differ mix up words or wait for each other |
| `ForwardProofs` | `ViewsLieInTheirMatrix` | a slice of a slice lies in the validated matrix |
| | `SlicesReadTheirElements` | an element is read from its own byte and scale |
| | `AcceptedOutputsSpareTheWeights` | an accepted output meets no byte an element is read from |
| | `WindowsHoldTheirInputs` | a convolution's output is computed from its channel's own last inputs |
| | `PicksFollowTheScores` | experts, candidates and argmax order equal and incomparable scores alike |
| | `RanksStayTogether` | the two ranks meet in the same gathers, whatever is decided and wherever a step is refused |
| | `OperandsStay` | every operator finds its own operands, whole, in the shared scratch |
| | `AccessesStayInside` | no operator leaves the vector it works in |
| `AcceptanceProofs` | `AcceptedHeadersAreDisjoint` | in an accepted shard header no two tensors overlap and none leaves the payload |
| | `AcceptedSizesAreExact` | a tensor of an accepted header has the bytes its dtype and shape give, products that wrap included |
| | `VerdictsAreExact` | complete means that every expected tensor, and nothing else, was read once, where the index says |
| | `StoreLeavesVerdictsExact` | the same with the store behind the pass |
| | `CompleteCheckpointsAreServed` | the store of a complete indexed checkpoint opens and serves each tensor from its indexed shard |
| | `OnlyTheBuiltPlanPasses` | an edited plan is accepted only if the edit changed nothing |
| | `PlanCheckIsExact` | of all records with a plan's fields the checker accepts the built one alone |
| | `NoRefusalUnannounced` | a plan refused after a clean contract was warned about, or its draft is no commit |

None of the properties is inductive alone.

**DFlash.** That the committed tokens are the
target's needs to know, while verifying, that each argmax so far was taken after
exactly the emitted tokens, the anchor and the proposals before it (`InVerify`);
`AcceptedSpec` then says that the accepted tokens coincide with what was stepped,
so that the argmaxes are predictions along the accepted path (`RoundSpec`), and
`CutSpec` that truncation and the stop-token cut keep a prefix of at least two
tokens with no stop token inside. That the caches follow needs the snapshot to
cover the emitted tokens while verifying, and, while materializing, that caches
plus pending tokens are what is due (`InMaterialize`). `InductiveStep` has one
lemma per action.

For `DflashKeepsContract` the abstract outcome is `finish` once the run is done
and the abstract sequence state is the MLA cache's tokens. `StepRefines` sorts
the calls: a committed round is one `Emit` however many tokens it brings
(`CommitEmits`), an anchor without a round, the loop condition and the last
materialize step are `Finish` (`EndFinishes`), an exception is `Abort`, and the
rest is invisible. Besides `Inductive` it needs that the reason is set by the
step that ends the run (`FinishOpen`) and `EndIsDue`, which follows from both.

**Greedy.** The invariant says at each point of the loop which tokens the caches
were built from: the prompt's, then the prompt and all emitted tokens but the
last after a token was pushed, all of them after it was stepped. A step that
throws may leave any `Torn` state, which the contract allows only to a run that
reports the exception.

**Commits.** The two records are equal after every call because each check comes
before the first write (`SameRecords`); the accepted tokens are then described by
what the longest common prefix of draft and target is.

**Link.** A cell is named by its transfer and its place in it. `Sent` and `Taken`
are the cells of a direction before the position its sender, or its receiver, has
reached; `Inbound` says that a wire carries exactly the difference, in order
(`Carries`), with markers behind it. `SendMoves`, `RecvMoves` and `NextMoves` say
how the two sets change with a cell and with a transfer; `InboundSend` and
`InboundRecv` that the wire keeps up, the latter because the first cell on a wire
is the least one in flight and the receiver has taken everything before the cell
it asks for. A failed child resets its counter, so that what it had sent is an
existential (`ToParent`) until the parent takes a marker; from then on only
markers are left and the child is not ahead of the parent (`Streams`). Two ranks
that both send into full buffers would each be behind the other
(`SenderIsBehind`), two that both wait for an empty wire at the same transfer
(`InboundOver`), where exactly one of them sends. A truthful ok needs that a rank
that is past the last transfer has taken all there was to send (`WiresRunDry`).

**Two hosts.** Here nothing names a word on the wire and the two lists may differ
in length, so the invariant follows the streams: `Place(p, r)` is how far rank r
is in rank p's stream, by r's own opinion of what the stream is, and `WordAt` is
what p puts at a place of it. `Inbound` says that a wire holds the words between
the two places, `Streams` that none is lost while both are on one connection. As
long as neither is beyond the other's list the opinions agree; `Beyond` is the
only case where they do not, and the only one in which `dirty` can be set
(`Reading`). What the count and the ids were taken for is then settled word by
word: a row read as an id is no id of any list, so that an ok needs the true
count and the true ids. `Following` adds that hosts started alike produce the
same tokens, so that neither is ever beyond the other. A mutual wait needs both
to be at different places of the same stream, or two sends into full buffers,
which again puts one of them beyond.

**Packed view.** A view's origin is a row and a group boundary of the matrix that
was validated, its strides are that matrix's, and its offsets add up
(`ViewInvariant`), so that each address is the one the validated matrix gives the
element; no address of a span wraps. Two ranges that pass the overlap test are
disjoint, also at the end of the address space.

**Convolution.** What a channel keeps is defined from the inputs it was given,
not from the array: the invariant (`KeepsRecent`, `CellsInvariant`) says of every
cell which input it holds, also while the channels of one call are half done and
the outputs of the first ones have replaced the inputs of none of the later ones.

**Selection.** The invariant describes a scan that is under way: the best held so
far is not used and no unused id before `nextId` beats it (`ScanInvariant`), the
picks made are in order (`PicksInvariant`), and argmax holds the first two of the
rows it has passed (`TopInvariant`). With NaN among the scores none of the order
is left but that picks differ and that argmax and the first pick go the same way,
which is why both scans are followed in one invariant.

**Two ranks in step.** `Control(r)` is what decides which program rank r runs and
which comes next: stage, cache length, snapshot, steps and argmaxes. Two ranks
are at the same program with no gather between their positions, or one has gone
on to the next program, the same decision taken on the same logits, and has not
come to that program's first gather (`Pair`). This is inductive because every
program has a gather (`EveryProgram`): a rank cannot be two programs ahead. Where
the indexer bound refuses a step it refuses it on both, since a refused
instruction lies between the same two gathers on both (`Refuses`, `Ahead`). That
both decide alike needs the logits whole from the head's gather on (`Whole`).

**Operands.** The invariant says that what a rank's buffers hold follows a trace
of its program (`Follows`, `Trace`): before instruction p they hold what the
first p - 1 instructions have left, except that the rows a gather is bringing
are one instruction behind. So an operand is right in every reachable state if
it is right along one run of each program on its own (`Runs`), and that is a
statement about straight-line code, proved part by part (`KdaRuns`, `MlaRuns`,
`MoeRuns`, `DenseRuns`, `LayerRuns`, `StepRuns`, `HeadRuns`, `ProposalRuns`): each part is entered with
one value in one buffer and spares what the parts after it read. Parts that
repeat (cached latents, experts, layers, slots) are flattened sequences, whose
length is any number for the latents; `FlattenRuns` carries an assertion through
them. Between programs `Entry` asks for the hidden states of the last step and
for the taps of the prompt, which a step taken back and a proposal both leave
alone. When two ranks meet in a gather they compute the same value
(`RanksStayTogether`), so that a half received is the half that was missing.

**Shards.** `AcceptedHeadersAreDisjoint` needs an invariant that ties the code's
positions to tensors (`Progress`): the ones validated so far lie in the payload,
and the sorted order is a bijection onto the tensors with bytes.
`EarlierEndsFirst` then takes any two places of the order, uses the neighbour
test at the first and sortedness from there to the second.
`AcceptedSizesAreExact` compares the products that wrap with those that do not,
dimension by dimension: one that is not refused is exact (`TimesIsExact`), and
if the last one is not zero and fits, so did all before it (`ProductsThatFit`).
This uses that the payload is itself counted in the wrapping integers: a payload
above `MaxUint` would make the second half false, and `HeaderAssumption` rules it
out, as `payload_bytes` is a `uint64_t`.

**Binding.** The code decides by a counter, the specification by what was read.
`BindingInvariant` joins the two at every step: the counter is 0 exactly when
`Clean` holds, all that has been looked at so far was right. `Clean` needs the
catalogue to be described by the headers (`CatalogInvariant`: its names are those
read, each with the layout and shard of an entry that was), so that
`DuplicatesCount` and `MergeKeeps` can turn a number of duplicates into
`NoRepeats`, and `IndexErrorsCount` a number of differences into `AsIndexed`.
`VerdictFollows` is then without steps: no repeats and the right names and
layouts are `EachOnce`, as many entries as names (`PlacesCount`) the receipt's
count, and an entry that was read shows that its shard was listed under a safe
name.

**Store.** Of a complete indexed checkpoint each header holds only expected
tensors that the index places in that shard (`CompleteFacts`); so whatever the
order, the table of the headers parsed so far is what the index promises of their
names (`ServesThePromise`), which `emplace` cannot spoil, and all names are there
when the last header is parsed.

**Plan.** `AcceptablePlans` writes the checker's records of checks out as one
conjunction. From it the built plan passes (`BuiltIsAccepted`), and a record that
passes agrees with the built one in every field, layer by layer, so that the two
are equal (`AcceptedIsTheBuilt`); only the record's fields are assumed, not what
is in them, and `EditIsPlan` shows that an edit leaves those alone. That the
pinned model has no errors (`ModelIsFlawless`) needs its layers to be counted,
eleven of sparse attention being the multiples of four.

**Induction.** The library's induction theorems take an operator as a parameter
and cannot be used here. `EveryNat` says the same of a set of naturals, from the
least element of its complement (`LeastNat`); with it `RunExists` and
`RunIsUnique` say what a function defined by recursion over a sequence computes,
which is all that the flattened programs need, and `FoldExists` the same of the
folds of the community modules, by which `ProductsAre` follows a tensor's size
through a shape of any rank.

**Only model-checked.** `ForwardCatalog` (`ForwardFindsItsTensors`,
`EveryWeightIsRead`: one constant program against two constant catalogues, which
TLC evaluates once and for all) and `JsonScan` (a RECURSIVE operator). Liveness
(`Terminates`, `Returns`, `BothReturn`) stays with TLC: fairness and ENABLED are
out of the prover's reach.

## 6. Not modelled

* Floating-point arithmetic (the operators, NVFP4 decoding, the recurrences,
  `text_forward.hpp`'s rounding): outside TLC's reach, and the agreement with
  the reference logits is a numeric question.
* `logit_margin` of a result: no document says which position it belongs to in
  mode `dflash`. How `argmax()` computes it is in `Selection`.
* Wording of messages, dumps and the JSON printed by the applications, the
  applications' argument parsing, the texts of the first 24 errors of binding
  (nothing reads them), `weight_bytes`, warnings of binding, the catalogue's
  hash: no property is about them.
* Conversions: SHA-256, JSON escapes and digits, comments, quotes and digits of
  the deployment file. The places where a malformed one is refused are modelled.
* `checkpoint_manifest.py` and `preflight_dgxspark.sh`: they run before the
  program, and nothing of theirs is read back but the receipt, whose content is
  an input of `CheckpointBinding`.
* The descriptors of `open_peer_socket` one by one: `address()` throws for a
  malformed bind host after the listening socket was opened
  (`text_forward.cpp:1719`), and the socket stays open until the program exits.
* `tiny_layer.cpp`: a numeric fixture.
