# PETAce-SetOps in TLA+

PETAce-SetOps computes functions of the intersection of two parties' sets of
keys without showing either set to the other. Each party runs the library in a
process of its own; the two talk over one connection. This directory models the
protocols of `src/src/setops/` in TLA+, model-checks them with TLC and proves
the main results about ECDH-PSI, KKRT-PSI, Circuit-PSI, the serialisation of
keys and the CSV provider with TLAPS. Paths below are relative to
`src/src/setops/` unless they start with `src/`.

## 1. The system

| component | code | state it keeps | operations |
|---|---|---|---|
| roles and parameter checks | `util/parameter_check.h` | none | `check_consistency`, `check_equal`, ... |
| shuffle | `util/permutation.h` | none | `generate_permutation`, `permute_and_undo` |
| PSI interface | `psi/psi.h` | none | `init`, `preprocess_data`, `process`, `process_cardinality_only` |
| ECDH-PSI | `psi/ecdh_psi.{h,cpp}` | role, `obtain_result_`, `remote_obtain_result_`, secret key | the interface's |
| KKRT-PSI | `psi/kkrt_psi.{h,cpp}` | role, `epsilon_`, `num_of_fun_`, `sender_obtain_result_`, `common_prng_`, the base transfers | the interface's |
| Circuit-PSI | `pjc/pjc.h`, `pjc/circuit_psi.{h,cpp}` | as KKRT-PSI, two hash configurations, an MPC engine | `init`, `process` |
| CSV provider | `data/*.{h,cpp}` | stream position, `cur_line_idx_`, `rows_num_`, `columns_num_`, `items_columns_num_` | four `get_next_batch*`, `seek_begin`, `write_data_to_file` |
| serialisation | `util/serialize.h` | none | key vectors to bytes and back |
| factories | `memory_psi_factory.h` | map of constructors | `build` |
| examples | `src/example/` | none | read keys, `init`, one call, write, exchange statistics |
| external | PETAce-Network, -Solo, -Verse, -Duet | connection, tables, transfers, shares | not in the repository |

**Interaction.** The only thing the two processes share is the connection, two
byte streams. `send_data` and `recv_data` block and carry no message boundaries
or types: a read of 8 bytes takes the next 8 bytes, whatever they were sent as.
All of a protocol's correctness on the wire is that the two programs, each
branching on its own `is_sender_`, its own configuration and what it has read,
always agree on what comes next. Inside a process everything is sequential,
apart from two OpenMP loops whose iterations touch separate elements
(`psi/ecdh_psi.cpp:201`, `:212`).

**What is hard.**

- *Staying in step.* Sizes of 0 change which messages exist
  (`ecdh_psi.cpp:283`); a flag decides whether a result is sent, and each side
  uses its own (`kkrt_psi.cpp:180`, `:263`); a call may throw half-way
  (`:130`, `:204`).
- *One party ahead.* A party may be in its next call, its first frame already
  in the network, while the peer is still finishing the last one.
- *Shared randomness.* KKRT-PSI and Circuit-PSI draw the seeds of their hash
  tables from two copies of one stream. A draw too many on one side, for
  example on the way to an exception, spoils every later call without an error.
- *Permutations and positions.* Keys travel shuffled, results are read off by
  position.
- *The file under the index.* The CSV provider counts rows and reads lines, and
  an exception moves one and not the other.

**What makes each part correct.**

- *PSI, both schemes*: the entitled get exactly the common keys (or their
  number), the other gets nothing; calls that both make end, alike on both
  sides; a finished session leaves the connection empty and usable.
- *ECDH-PSI*: also, a party that is not to obtain the result is never sent
  what it could compute it from; an `init` that fails does so on both sides.
- *KKRT-PSI*: also, after a call, failed or not, the common streams agree.
- *CSV provider*: however a file is read in batches, each row comes once, in
  order, with its own payloads, and none is missing at the end; a written table
  reads back, unless empty texts in it are lost (section 3).
- *Circuit-PSI*: the shares add up, bin by bin, to a bit for each of the
  receiver's keys that says whether it is common, the sender's features if it
  is, and the receiver's; the common streams agree after a call, failed or not.
- *Serialisation*: what comes out is what went in.

The hazards, each at its line with the properties that watch it, are in
`PROJECT.json`.

## 2. Modules

| module | models |
|---|---|
| `Parties` | the two ends and the order `is_sender_` puts an exchange in |
| `Permutation` | `util/permutation.h` |
| `Selection` | the loop that copies the marked keys to the result; the CSV provider passes over blank lines with it |
| `PSIIdeal` | what `psi/psi.h` promises, without wire or cryptography |
| `EcdhPSI` | `psi/ecdh_psi.cpp` |
| `EcdhPSI_inv` | its inductive invariant |
| `KeyVectors_proofs` | facts about permutations, marked positions and vectors without repetitions |
| `EcdhPSI_theorems` | the proofs about `EcdhPSI` |
| `KkrtPSI` | `psi/kkrt_psi.cpp` |
| `KkrtPSI_inv` | its inductive invariant |
| `KkrtPSI_theorems` | the proofs about `KkrtPSI` |
| `JoinIdeal` | a session of Circuit-PSI without wire or cryptography: calls pair up and end in shares of one table, the join the code makes (not the narrower one of `pjc/pjc.h:56`, see section 3) |
| `CircuitPSI` | `pjc/circuit_psi.cpp` |
| `CircuitPSI_inv`, `CircuitPSI_values` | its inductive invariants: where messages come, and what shares add up to |
| `CircuitPSI_proofs`, `CircuitPSI_steps`, `CircuitPSI_theorems` | the proofs about `CircuitPSI` |
| `Serialize`, `Serialize_proofs` | `util/serialize.h` as `psi/kkrt_psi.cpp` uses it, and its proofs |
| `CsvDataProvider` | `data/csv_data_provider.cpp` |
| `CsvDataProvider_inv`, `CsvDataProvider_theorems` | its inductive invariant and its proofs |
| `Statistics` | the exchange of numbers that ends each example |
| `CircuitExample` | `src/example/circuit_psi_example.cpp`: the library, the columns of shares, the statistics, over one network |
| `MCEcdhPSI`, `MCKkrtPSI`, `MCCircuitPSI`, `MCCircuitExample`, `MCSerialize`, `MCCsvDataProvider` | instances for TLC |

`EcdhPSI` and `KkrtPSI` instantiate `PSIIdeal`, `CircuitPSI` instantiates
`JoinIdeal`, each under a refinement mapping; `CircuitExample` extends
`CircuitPSI` and instantiates `Statistics` on the same channels.

**Processes.** A party is `"sender"` or `"receiver"`; every variable of a
protocol module is a function of the party, but for the local variables only
one role has. `stage[p]` names the exchange or message party `p` is at, `io[p]`
where in it (writing, reading, done), so that one action is the code from one
blocking call to the next. `Process(p)` is the application's call, with any
input; everything else a party does is in `Step(p)`. `calls[p]` and
`results[p]` record what the application passed and got.

**Network.** `chan[p]` is the sequence of messages on their way to `p`, at most
`Capacity` of them, so that a full direction blocks a writer as a full socket
does; delivery is in order, once and reliable, which is what a connected socket
gives. Since `recv_data` knows only lengths, the models do not let types
protect anyone: in `EcdhPSI` a read that finds another kind of message has no
step, and `WireSync` says that this never comes up; in `KkrtPSI` and
`CircuitPSI` a read takes any message of the right length, which is how a count
can be mistaken for a size, and `WireSync` says that it was sent as what it is
taken for.

**Cryptography** is symbolic. An ECDH point is the key hashed to it and the set
of parties that encrypted it, so encryptions commute and points are equal only
if the keys are. A mask of an oblivious transfer is the key, the hash function
and the seed of the table, so masks are equal only if all three are: a receiver
and a sender whose common streams have come apart find nothing in common, as in
the code. False positives of the truncated masks and digests are left out.
Cuckoo hashing is a nondeterministic choice of a function for every key, or of
a failure with a stash; equal keys need different functions, and there are no
more keys than bins.

**Circuit-PSI** adds a second table and an MPC engine. The receiver's table
gives each key a bin and a mask. The sender puts every (key, function) of its
own in the second table and fills the bins with hints: whoever knows the mask
of an item can open the content of its bin, a random word, and the item's
feature, blinded by that word; everyone else gets something unrelated. A
comparison of contents, and the multiplexer that keeps a feature where it
holds, are one exchange each and leave additive shares modulo `Modulus` (2^64
in the code), the sender's being any word of `Randoms`. A column is added up
over the hint functions, as the code's loops do, with the wrap-around. Either
table may fail to take all its items, the receiver's in the first half of a
call, the sender's in the second. `SharesCorrect` says which rows the two sets
of shares add up to, bin by bin, and `JoinIdeal` says the same of the results
alone: some placement of the receiver's keys in rows makes the sum the join.

**The ideals.** In `PSIIdeal` a session opens or throws on both sides, a party
invokes calls, and its `n`-th call returns when the peer's `n`-th has been
made, with one of `Outcomes`. Both schemes implement it under a mapping of
their stages to `init`, `open` and `threw`, and its fairness too: opening and
returning are obligations. ECDH-PSI does so as long as no input is empty,
KKRT-PSI as long as no input repeats a key and the two configurations agree on
`sender_obtain_result`. (With repeated keys the sender of KKRT-PSI gets the
receiver's occurrences, not its own: `ResultCorrect` of `KkrtPSI` says exactly
what each gets.) `JoinIdeal` has the same shape; there the first of the two
parties to return may get anything, and what the second gets makes the table.
It is not the promise of a header: `pjc/pjc.h` says too little of the table,
and the little it says, "input features corresponding to intersection keys",
is not what the code does with the receiver's features. The rows of
`JoinIdeal` are those of the code, which the tests and the example open. What
the refinement shows is the rest: that the two ends of every call agree, on
one table for the two inputs of that call or on an exception, and that calls
end.

**Serialisation.** One action is one round of one of the two loops: a key
written with its NUL, a key cut out up to the next NUL. The sender's vector is
its caller's and holds what the call before left in it.

**The example.** `CircuitExample` runs `init` and one call as `CircuitPSI` has
them, and then the program's own exchanges: each side writes all its columns,
then reads as many, then the two exchange the numbers of bytes sent. Nothing on
the wire separates these from each other or from the messages of the library,
so they share `chan`. `Opened` is the table of the end.

**CSV.** A file is a sequence of lines, a line a sequence of fields, any of
which may be `Empty`, the empty text; a line of one empty field is the blank
line, `<<>>`, and `LineOf` writes it as that. `ColumnsNum` counts, as the code
does, the fields of the first line that are not empty. The state
of the stream is the line it is at and its eof bit, and `Seen` gives what
`std::getline` leaves in its argument, at the end of the file and behind it
too. A caller scans: it reads batches by one of the four methods into the same
vectors until it seeks the beginning. A payload that is no number ends the
batch in the middle of its row, with the stream moved and the index not.
`RowsInOrder` says that the vectors hold exactly the rows the stream has
passed; `ReadsAll` says what is missing after a whole scan, which is nothing
unless there are blank lines between the rows. `RoundTrip` says that a table
comes back as it was written, for the tables `ReadsBack` describes: no empty
text on the first line of the file, header or row, and no empty item in a table
of one column.

## 3. Runs

| run | what it asks | instance | result |
|---|---|---|---|
| `ecdh_safety` | types, step, results, entitlement, failures, the inductive invariant | two calls, inputs of 0 to 2 keys with none, one or all in common, 2 curves, all flags and shuffles, `Capacity` 1 | passes, 949,580 states |
| `ecdh_ideal` | implements `PSIIdeal`; `init` and calls end | two calls, no empty input, `Capacity` 1 | passes, 134,268 states |
| `ecdh_empty_peer` | `psi/ecdh_psi.h:101`, "The intersection corresponding to input keys." | one call, empty inputs | violated |
| `kkrt_safety` | types, step, retry, results, exceptions, the inductive invariant | two calls, `epsilon` 1.27 or 0.5, 1 or 2 functions a party, a repeated key, equal flags, `Capacity` 1 | passes, 119,696 states |
| `kkrt_ideal` | implements `PSIIdeal` | two calls, distinct keys | passes, 37,832 states |
| `kkrt_flags` | `psi/kkrt_psi.h:109`, "number indicates the cardinality" | two calls, any flags | violated |
| `circuit_safety` | types, step, retry, shares, exceptions, the two inductive invariants | two calls, either table may fail, 0 to 2 keys and 0 to 2 features a party, 2 configurations that may differ, `Modulus` 4, two random words, `Capacity` 1 | passes, 514,596 states |
| `circuit_ideal` | implements `JoinIdeal`, calls end | two calls, the receiver's table may fail | passes, 2,662 states |
| `circuit_apart` | `pjc/pjc.h:51`, "stores secret shares in output shares for both parties" | two calls, either table may fail | violated |
| `circuit_example` | what the program opens and prints, and that it ends | one call, a feature a party, `Capacity` 3 | passes, 25,936 states |
| `serialize_keys` | round trip, bounds, the inductive invariant | three calls into one vector, empty keys among them | passes, 133 states |
| `csv_read` | order, completeness, round trip, the inductive invariant | 16 files, 11 tables, empty fields among both, batches of 1, 2 and 5 rows | passes, 1,176 states |

**Bounds.** Two calls a party are enough for what outlives a call to matter:
the flags of `init`, the common stream, unread messages, a party one call
ahead (for ECDH-PSI the proof shows that it is never further than one
exchange). Two keys are the fewest with a shuffle that moves something; with
two a shuffle is its own inverse, so that a permutation undone the wrong way
would pass the runs, and no key is repeated in `ecdh_safety`. It does not pass the proof: `UndoPermute` and
`ResultsCorrect` hold for vectors of any length, with repeated keys too. `Capacity` 1 makes writers
wait as early as possible; 2 lets a header and a body travel together; the
example needs 3, a whole table in each direction. `epsilon` 0.5 has fewer bins
than keys, so the stash is forced; with 1.27, the default, it may or may not
happen. The repeated key is placed by two functions, or makes the table fail
with one. `Modulus` 4 with features up to 3 makes every sum wrap, and two
random words, neither of them 0, make a share that is taken for a value, or a
random added twice, show up. In `circuit_ideal` the second table does not
fail, since sessions do not survive that (`circuit_apart`).

**Deadlock** is checked in the safety runs of the protocols, in
`circuit_example`, `serialize_keys` and `csv_read`: `Terminated`, both parties
at rest with all calls made or both out of `init`, is the only way to stop. The
liveness runs of the protocols and `kkrt_flags` switch the check off: there an
application that makes no further call is a normal end.

**Fairness** is weak, and on `Step(p)` only: a thread inside `init` or a call
goes on whenever it is not blocked, since nothing in the library waits for
anything but the network. `Process(p)` has none: an application may stop
calling. `CallsReturn` therefore speaks of calls both parties make. In the
example the application is the program itself, which goes on too.

**What the violations show.**

- `ecdh_empty_peer`: `process` uses `output_keys` as its working vector
  (`psi/ecdh_psi.cpp:103-110`), and `calculate_intersection` returns early when
  the peer sent nothing (`:228`): the caller gets all its keys, shuffled, as
  the intersection. `process_cardinality_only` returns 0 there (`:251`).
- `kkrt_flags`: `check_params` compares `epsilon` and `fun_num` but not
  `sender_obtain_result` (`psi/kkrt_psi.cpp:446-449`). With TRUE at the sender
  and FALSE at the receiver the sender reads the receiver's next message, the
  data size of its next call, as the count. A test runs with unequal flags, the
  other way round (`src/test/psi/kkrt_psi_test.cpp:340`); there the count stays
  unread.
- `circuit_apart`: the sender draws the seed of the second table before it
  knows whether the table takes all items (`pjc/circuit_psi.cpp:194`), the
  receiver after it has read that it does (`:380`). A call that throws there
  leaves the two streams one draw apart, and the next call of the same session
  ends normally, with shares of an empty join. This is why `ReadyForNext` and
  `SharesCorrect` are stated for sessions in which the second table has not
  failed.

**Other differences between the code and what is written about it**, met while
modelling; the models do as the code does:

- `data/csv_data_provider.h:46` says "Reads batch_size items". `rows_num_`
  counts rows, a batch consumes lines (`csv_data_provider.cpp:48-53`): each
  blank line before the last row makes one batch short, and at the end a row
  is out of reach. `ReadsAll` bounds the loss by the number of these lines.
- `write_data_to_file` takes any items and names, and the reader does not give
  all of them back. `count_rows_and_coulmns` leaves empty fields of the first
  line out (`csv_data_provider.cpp:196`), so an empty name in the header, or an
  empty item in the first row of a table without one, costs the last payload
  column; and a row of one empty item is a blank line, which is skipped. Each
  part of `ReadsBack` is needed: without it TLC finds one of the tables of
  `csv_read` that is read back short. Empty items elsewhere do come back. No
  document says which texts may be empty.
- `pjc/pjc.h:56` speaks of the features "corresponding to intersection keys".
  The receiver's features are added for all its keys
  (`pjc/circuit_psi.cpp:481`), only the sender's are filtered. `SharesCorrect`
  and `JoinIdeal` state the table of the code, not that of the header; the test
  multiplies the features by the bit
  (`src/test/pjc/circuit_psi_test.cpp:303`), the example prints them as they
  are.
- `util/serialize.h:50` ends a key at a NUL; a key that contains one comes out
  as two.
- `kkrt_psi_example.cpp:92` reads the flag from `kkrt_params`, while `init` and
  the configurations use `kkrt_psi_params`.
- `ecdh_psi_example.cpp:81` processes one batch, however many rows the file has.
- `circuit_psi_example.cpp:152` prints the number of columns as the
  cardinality.
- Nothing compares `is_sender` (`util/parameter_check.h:136`). Two receivers
  wait for each other in `init`; two senders get through the `init` of ECDH-PSI
  and wait for each other in the base transfers of the other two.

## 4. Proofs

### ECDH-PSI

The theorems hold for every set of keys and curves, every set of
inputs, empty ones and repetitions included, every number of calls and every
capacity. They assume what `EcdhPSI` assumes of its constants:
`CurvesAssumption` (the supported curve is a curve), `InputsAssumption` (inputs
are finite sequences of keys) and `BoundsAssumption` (a bound on the calls, at
least one message fits in the network).

| theorem | module | says |
|---|---|---|
| `UndoPermute`, `NthType` | `KeyVectors_proofs` | undoing a permutation restores the vector; every rank up to the number of marked positions has its position |
| `TypeCorrect` | `EcdhPSI_theorems` | `[]TypeOK` |
| `InLockstep` | `EcdhPSI_theorems` | `[]IInv` |
| `ResultsCorrect` | `EcdhPSI_theorems` | `[]ResultCorrect` |
| `WireInSync` | `EcdhPSI_theorems` | `[]WireSync` |
| `NothingLeftUnread` | `EcdhPSI_theorems` | `[]NothingUnread` |
| `ThrowsAgree` | `EcdhPSI_theorems` | `[]ThrowAgreement` |
| `OnlyEntitled` | `EcdhPSI_theorems` | `[]OnlyEntitledReceive` |
| `ImplementsPSI` | `EcdhPSI_theorems` | `NoneEmpty => (Spec => Ideal!Safety)`: with no empty input, ECDH-PSI does what `PSIIdeal` allows |

**The argument.** None of these properties is inductive: that a result is right
depends on what was received, that on what was sent, possibly when the sender
of it was elsewhere, and so on back to the flags exchanged in `init`. `IInv`
(in `EcdhPSI_inv`) makes this explicit:

- `LocalControl`: where one party alone can be, and how many calls it has
  made and finished there;
- `Lockstep`: where the two can be together. `Clock` counts the exchanges a
  party has completed; the two clocks differ by at most one, and for each
  difference the positions of both are listed;
- `ToReceiver`, `ToSender`: the channels are a function of the positions. The
  contents are the frames of the exchange the sender is in, computed from the
  histories of the two parties (`Frame`, `ItemsOf`, `Returns`);
- `Announced`: a party in the body of an exchange has one of the announced
  length;
- `Knows`: what a party has read is what the peer had to say: its curve, its
  flag, its items;
- `ResultCorrect`.

`EcdhPSI_theorems` has one lemma per action: it moves the pair of positions to
another listed pair, and its effect on the channels is the difference between
the two contents. The one action that computes is
`Finish`: with `Knows`, the party holds its own keys under both secrets, in
shuffled order, and the peer's; undoing the shuffle (`UndoPermute`) lines them
up with the input (`UndoneMatches`), while the cardinality is invariant under
the shuffle (`ShuffledMatches`). TLC checks `IInv` in `ecdh_safety`.

For the refinement every step is a step of the ideal or is not seen there: the
end of `init` opens or throws the session, `Process` invokes a call, `Finish`
of the last exchange returns one, and nothing else moves `calls`, `results` or
the status. `InLockstep` gives the guards: a party that leaves `init` has the
peer's curve, and the peer of one that returns has made the same call. That
the result is one of `Outcomes` is `ResultCorrect` after the step. With an
empty input it need not be, which is `ecdh_empty_peer`; hence `NoneEmpty`.

### KKRT-PSI

The theorems hold for every set of keys, every set of inputs, repetitions
included, every two configurations that differ in `epsilon` or `fun_num` or do
not, every way a hash table may turn out, and every number of calls and
capacity. They assume what `KkrtPSI` assumes of its constants
(`KkrtInputsAssumption`, `KkrtParamsAssumption`, `KkrtBoundsAssumption`), and
each has the hypothesis `FlagsAgree`: the two configurations have the same
`sender_obtain_result`. The code compares the other two parameters and not this
one, and `kkrt_flags` shows that the hypothesis cannot be dropped.

| theorem, all in `KkrtPSI_theorems` | says |
|---|---|
| `MessagesInPlace` | `FlagsAgree => (Spec => []KkrtInv)` |
| `KkrtTypes` | the same for `TypeOK` |
| `KkrtWireInSync` | the same for `WireSync` |
| `NextCallCanWork` | the same for `ReadyForNext` |
| `KkrtResultsCorrect` | the same for `ResultCorrect` |
| `KkrtThrowsAgree` | the same for `ThrowAgreement` |
| `KkrtImplementsPSI` | `FlagsAgree /\ NoneRepeats => (Spec => Ideal!Safety)`: KKRT-PSI does what `PSIIdeal` allows |

**The argument.** Here the parties write without waiting for an answer and may
be several messages apart, so a list of joint positions, as for ECDH-PSI, would
be long. `KkrtInv` (in `KkrtPSI_inv`) numbers the messages instead: those of
`init` from 1 to 4, those of the `n`-th call from `6n` on. Where a party is, its
own inputs and flags settle which number it reads next, `In`, and which it
writes next, `Out`.

- `InOrder`: the channel to a party holds the messages from its `In` to its
  peer's `Out`, in rising order, each followed by the number the one before it
  announces, and each saying what `Carries` says it does;
- `Control`: where a party alone can be, how many calls it has made and ended
  there, and how many seeds it has drawn from the common stream: one a call,
  whether the call ends or throws;
- `Knows`, `SenderKnows`: what a party has read is what the peer had to say;
- `TableOK`: the receiver's table is one of its keys, and what it has found is
  the intersection;
- `Ended`: calls end alike on both sides;
- `ResultCorrect`.

`KkrtPSI_theorems` begins with the facts about what is computed: masks have the seed of
the stream, and a receiver that searches the sender's masks with the same
stream and the same functions finds exactly the common keys (`FoundIs`).
Then come the facts about order: a write adds the message the
writer's `Out` names, a read takes the one the reader's `In` names, and what a
message says outlives later steps. The rest is one lemma per action.
The step a test would hardly reach is the one in which the receiver gives up:
it skips numbers, and is right to do so because the sender, in the same call,
has written its size and nothing else and reads the stash next.

The refinement is laid out as for ECDH-PSI. What is new is the outcome: the
ideal gives each party its own common keys, in some order, while the code gives
the sender the receiver's. `PickOfOther` (in `KeyVectors_proofs`) shows that in
vectors without repetitions the two are the same but for the order, which is
what the hypothesis `NoneRepeats` is for.

### Circuit-PSI

The theorems hold for every set of keys, every set of calls that are well
formed, every set of configurations, agreed or not, tables that fail or do
not, every number of calls and capacity, and every word length. They assume what
`CircuitPSI` assumes of its constants: `CircuitCallsAssumption` (a call's keys
differ, a feature has a value for each, and the receiver has keys),
`CircuitParamsAssumption` (parameters are positive) and
`CircuitBoundsAssumption` (more than one word, and the generator gives words).

| theorem, all in `CircuitPSI_theorems` | says |
|---|---|
| `CircuitInvariant` | `[]CircuitInv` |
| `TypeCorrect` | `[]TypeOK` |
| `WiresInSync` | `[]WireSync` |
| `ReadyAgain` | `[]ReadyForNext` |
| `ThrowsAgree` | `[]ThrowAgreement` |
| `SharesInvariant` | `[]SharesInv` |
| `SharesAreCorrect` | `[]SharesCorrect` |
| `ImplementsJoin` | `~HintMayFail => (Spec => Ideal!Safety)`: if the second table never fails, the calls of the two pair up and end alike, in shares of a join or in an exception, as `JoinIdeal` says |

**The argument, where messages come.** Numbers, as for KKRT-PSI, do not fit: how many messages a call
has depends on its features and on how it ends. `CircuitInv` (in
`CircuitPSI_inv`) gives each message a place instead: the call, the stage and
the feature it is sent at. Every message has one before it, `Previous`, and
where a party is settles the last one it has read and the last it has written,
`Last`.

- `InOrder`: the channel to a party starts after the last message it has read
  and ends with the last one the peer has written, each following the one
  before it, and each saying what `Says` says it does: sizes are those of the
  call, a stash is 0 if the writer goes on and 1 if it has thrown, hints have
  as many words as the reader will ask for and are made for the sender's masks;
- `Control`: where a party alone can be, how many calls it has made and ended
  there, how many columns it has, and how many seeds it has drawn from the
  common stream;
- `Knows`: what a party has read is what the peer had to say: its parameters,
  the sizes of its call, and that its table took all items;
- `SenderLocals`, `ReceiverLocals`: the tables are tables of the party's own
  keys, and there are as many contents and opened features as the stage says;
- `Ended`: calls end alike on both sides.

`Drawn` says what a call has cost: two draws, one if the first table failed,
and, if the second failed, two at the sender and one at the receiver. From it
`ReadyForNext` follows with the difference that `circuit_apart` is about.
`CircuitPSI_proofs` has the facts about order, that what a party knows of the
other lasts, and the actions up to the second table; `CircuitPSI_steps` has the
rest of the actions. TLC checks
`CircuitInv` in `circuit_safety`.

**The argument, what the shares add up to.** `CircuitInv` says that the messages
are the right ones and not what is in them. `SharesCorrect` compares columns
that two parties have made at different times, from values one of them has
sent and forgotten since, so that it says nothing of a call under way.
`SharesInv` (in `CircuitPSI_values`) follows the values from the hints to the
columns. It numbers the comparisons of a call: 0 is that of the contents of the
bins, `f` the one that keeps feature `f`.

- `Turns`: a party is past a comparison only if the other has written its part
  of it. A comparison that is on its way to the receiver holds what the sender
  still has, since the sender waits for the answer. Without this a party one
  comparison, or one call, ahead would have overwritten what its peer needs;
- `ContentSent`, `HintsHeld`: what the receiver has of a feature is, for each
  hint it has opened, the sender's feature less the random content, and the
  content is what the sender puts into the multiplexer;
- `AllOpened`: as long as no second table has failed, the two seeds agree and
  there is an opened hint for each common key; none is opened for another key
  (`CircuitInv`);
- `Shaped`, `SenderDone`: columns have a word for each bin, and the sender's
  share of the receiver's features is 0;
- `Fits`: from when the receiver has heard a comparison, the receiver's column
  and the sender's, made or still to be made (`Column`), add up in each bin to
  what the receiver has opened there: a bit, or the sender's feature;
- `Joined`: when the receiver has returned, the columns add up to the row of the
  join, and go on to when the sender returns too.

`CircuitPSI_steps` ends with the arithmetic of words, that the shares of every
hint function add up to the feature once (`MapThenSumSet` over at most one
opened hint in a bin), and that `Joined` and `SenderDone` for a call both have
ended make `SharesCorrect`. `CircuitPSI_theorems` goes through the actions: most
leave the comparisons in place and keep `SharesInv` by a few common lemmas; the
ones that open hints, send and read a comparison, or add a column need a proof
of their own. TLC checks `SharesInv` in `circuit_safety`.

**The refinement.** `Process` invokes a call, the end of `init` opens or throws
the session, and the step in which a party returns or throws returns its call;
every other action leaves `calls`, `results` and the status as they are. The
ideal wants three things of a return. The peer must have made the same call:
`Control`. It must not return a table if the other has thrown, nor throw if the
other has returned: `ThrowAgreement` after the step. And the second of two
parties to return must complete the shares of the first to the join: that is
`SharesCorrect` after the step, for which no second table may have failed
before. `HintsTaken`, an invariant under `~HintMayFail`, says so: the
sender's stash is always 0, and none of its results is an exception for the
second table. Without the hypothesis
the theorem is false, as `circuit_apart` shows.

### Serialisation

| theorem | module | says |
|---|---|---|
| `LaidOut` | `Serialize_proofs` | `NulFree => (Spec => []IInv)` |
| `KeysRoundTrip` | `Serialize_proofs` | the same for `KeysArrive` |
| `CutsInBounds` | `Serialize_proofs` | the same for `InBounds` |

They hold for every alphabet, every set of vectors of keys and every number of
calls, under `KeyVectorsAssumption`, `SerializeBoundsAssumption` and the
hypothesis `NulFree`: no key contains a NUL. Without the hypothesis the first
two are false.

The invariant says where each key is: there are `starts`, one for each key
written and one for the end, each a key's length and a NUL after the one
before, and from each on the characters are the key's (`Layout`). While the
sender cuts, it is at one of the starts and has exactly the keys before it
(`Cut`). Writing a key adds a start and moves none; the first NUL from a start
on is the one behind its key, since the key holds none, so that a cut moves to
the next start. `InBounds` follows, because the last start is the end.

### CSV provider

| theorem, all in `CsvDataProvider_theorems` | says |
|---|---|
| `CsvInvariant` | `[]CsvInv` |
| `TypeCorrect` | `[]TypeOK`, and with it that the index never passes the number of rows |
| `BatchesInOrder` | `[]RowsInOrder` |
| `ScansReadAll` | `[]ReadsAll` |
| `WrittenTableReadBack` | `[]RoundTrip`: a table with no empty text on the first line and, if it has one column, no empty item, reads back as it was written |

They hold for every set of texts and numbers, the empty text among them, every
file, with blank lines, empty fields and short rows anywhere, every table and
every size of batches; the last for the tables `ReadsBack` names, which is a
part of its statement. `FilesAssumption` says that a file is a sequence of lines
of texts, `StoullAssumption` that some texts denote numbers, `EmptyAssumption`
that the empty text is a text and denotes none, `ColumnsAssumption` that numbers of item columns and sizes
of batches are positive. `TablesAssumption` says what `write_data_to_file` may
be called with: columns of one length, a header for every column if there is
one, and numbers that have a text. Without the first the code reads past the
end of a column (`data/csv_data_provider.cpp:153-169`).

**The argument.** `RowsInOrder` compares what the caller holds with the part of
the file the stream has passed, and the index with nothing; it is inductive only
with what ties the index to the stream. `CsvInv` (in `CsvDataProvider_inv`) adds

- `Counted`: the number of rows is that of the file, the item columns are among
  its columns, and both are those of the table if the file was written from one;
- `InStep`: unless a batch of this scan has thrown, the stream is at the first
  row plus the index; and the eof bit is set only behind the last line. The
  second half is what makes the lines a batch sees the next lines of the file
  (`SeenIs`): `getline` leaves nothing behind once the bit is set, and the bit
  is set a line early if the last line has no newline;
- `Shaped`: the caller has the columns of the method;
- `WrittenFile`: a file that was written is the lines of its table.

Three lemmas carry the steps. `RowsConcat`: the rows of two parts of a file, one
after the other, are the rows of both, so that a batch adds exactly the rows it
sees (`PassedGrow`). `RowsCounted`: there are as many lines as rows are counted,
so that an index within the number of rows is a line of the file. And
`BatchWithPayloadsStep`: if no line of the batch is bad, all texts of the
payload columns denote numbers, and the batch adds items and payloads of the
same rows; if one is, the scan has thrown and nothing is claimed until
`seek_begin`.

At the end of a scan `ReadsAll` needs a count: the scan has taken as many lines
as there are rows, each blank line among them has cost a row, and a row it has
not come to lies behind them all, so that these lines are `BlanksBetween`
(`EnoughRows`). `RoundTrip` is the same without blank lines. The lines of a
table are its header and one for each item (`LinesWritten`). If the table is one
of `ReadsBack` none of them is blank and every column is counted
(`RowReadsBack`, `LinesReadBack`), so that a scan to the end passes all rows
(`WrittenRows`), and the field at an item or payload column is what was written
there (`TableRowIs`).
TLC checks `CsvInv` in `csv_read`.

**Model-checked only.** Liveness (`CallsReturn`, `InitEnds`, `ExampleEnds`), and
with it the fairness half of `ImplementsIdeal`, which needs ENABLED: what is
proved of the three refinements is that they imply `Ideal!Safety`, the ideal's
initial condition and steps. And the example: `OpenedIsJoin` and `TotalsAgree`
follow from what is proved of `CircuitPSI` only for a network that also carries
the program's own messages behind those of the library, which the invariants of
`CircuitPSI` do not allow for; this would need the proof that the library's
part of `CircuitExample`, with the program's messages left out of `chan`, is a
behaviour of `CircuitPSI`.

## 5. What is not modelled

- What the libraries outside the repository do: the network's behaviour when a
  peer dies or after a timeout, hash tables with no bins, the base transfers'
  and the engine's messages, cryptographic strength and collisions.
- Configurations without the expected keys, which nlohmann::json makes
  undefined behaviour in KKRT-PSI and Circuit-PSI (`const json&` indexing);
  ECDH-PSI merges defaults first.
- The factories, clocks, logging and random test data, which hold no state that
  matters; failures to open files.
- CSV texts with a comma or a newline in them, which the file cannot tell from
  separators, and a provider asked for more columns of items than are counted,
  whose unsigned difference wraps around. Between an exception and `seek_begin`
  the properties say nothing of the caller's vectors but their types.
- A network that holds less than a message a direction (the schemes) or than a
  table a direction (the example): `Capacity` assumes the room.
- Sessions of two senders or of two receivers: they hang, as described above.
- The programs around ECDH-PSI and KKRT-PSI in `src/example/`: one call each,
  between reading and writing a file; only their last exchange is modelled.
- In KKRT-PSI, empty inputs and two applications that call different methods:
  the first is up to the libraries, the second nothing in the code detects. In
  Circuit-PSI, an empty input of the receiver and a key twice in one input.

## 6. Plan

Done: everything above, in the order of section 2: the two schemes of `psi.h`
and their common promise, Circuit-PSI and its own, the serialisation, the CSV
provider and the example, then the proofs in the same order. Left:

1. What the example opens and prints, from `SharesAreCorrect`, along the
   refinement named at the end of section 4.
2. The other two example programs around their one call.
