# Verification of computer_enhance

The repository holds two 8086 decoders and a simulator, a profiler built on the time
stamp counter, a repetition tester, and a data generator with two readers. This
directory holds TLA+ models of its core, TLC runs that check them on small
instances, and TLAPS proofs about them for every value of the constants.
`PROJECT.json` maps each definition to the lines it models.

## The system

| Component | Source | State | Operations | Interacts with |
|---|---|---|---|---|
| Decoder library | `libdecoder_8086/libdecoder.c`, `libdecoder.h`, `instruction_bitstream.h` | none: a table of 16 rows and the caller's buffer | `decode_bitstream`, `parse_instruction`, `print_decoded_instruction` | called with a pointer into the buffer of the decoder program or the memory of the simulator; never uses the length it is given |
| Decoder program | `libdecoder_8086/decoder.c` | buffer, decode pointer, bytes left | read a file, decode until the bytes are used up | the library; exits on a failure |
| Simulator | `simulator_8086/simulator.c` | 64 KB memory (program and data), registers, segment registers, flags, `ip`, clock total | one handler for each of mov, add, sub/cmp, jnz/loop; the main loop | the library decodes at `memory + ip` |
| Block profiler | `rdtsc/rdtsc_utils.h`, `.c` | `profile_index`, `profile_data[]` | `TAG_PROGRAM_START/END`, `TAG_(DATA_)BLOCK_START`, `TAG_BLOCK_END` | macros inside the functions of a client |
| JSON parser | `data_gen/json_data_parser.c` | read pointer and remaining bytes, the row being read and its flags, list or array of points | scan to a character, extract to a character, one row after another; store; average | profiler macros; reads what `data_gen.c` writes |
| Repetition tester | `rep_tester/reptester.c` | loop counter, start ticks | `rep_tester_run` calls the client's callbacks in rounds until a time or a predicate ends the test | profiler's ticks; the callbacks of its clients |
| Repetition tests | `rep_tester/rep_test*.c`, `inspect_loop_assembly/fileread_reptest.c`, `asm_linking/asm_link_test.c`, `page_faults/page_faults1.c`, `2.c` | a context for each test: buffer, file, minimum and maximum | allocate, open, rewind, measure, release in the callbacks | called by the tester |
| First decoder | `decoder_8086/decoder.c` | buffer of one chunk, decode pointer, `bytes_available` (a `size_t`) | read a chunk, decode it, read the next | none: the predecessor of the library, with its own chain of tests and handlers |
| Data generator | `data_gen/data_gen.c` | statistics of the draws, origin and threshold of the cluster, sum | draw a point, write it to the JSON file and, with its distance, to the binary file | the two readers, through the files |
| Binary reader | `data_gen/bindata_reader.c` | the row being read, sum | read five doubles, check the distance, add it up | reads what `data_gen.c` writes |
| Others | `data_gen/haversine.c`, `page_faults/page_faults3.c` to `6.c`, `rdtsc/perf_test*.c` | floating point data, counters of the operating system | a formula, experiments, clients | the profiler and the repetition tester |

Everything is single threaded. What is hard is not interleaving but long
sequences in which a small slip shows late: a byte too many in one instruction
shifts all that follow; a flag, a half register or an address that is slightly
wrong shows after thousands of instructions; a call stack is folded into one
global and one index per block; a flag that is not reset shows in the next row; a
callback relies on what another one did a round ago. Input that is cut off, a full
memory and reads beyond the end of a buffer are the limits the code meets.

What makes each component correct:

- *Decoder library*: it consumes exactly the bytes of the instruction, names the
  operands the encoding names, and stays within the types of its structure.
- *Decoder program*: the listing tiles the input; an instruction cut off by the
  end is reported; a listing that ends normally depends on the input only; it
  terminates.
- *First decoder*: its lines are decoded from the file's own bytes, chunk after
  chunk; an instruction that the end of a chunk cuts never leads to a normal exit;
  it reads an instruction as the library does, but for five shapes it misreads.
- *Simulator*: fetch, decode and execute of the bytes is the execution of the
  program's text on an 8086, with the recorded final states and the images drawn.
- *Profiler*: the globals are the client's call stack, each outermost call is
  measured once and charged to its own block, no total exceeds the program's time.
- *JSON parser*: it keeps the points of the document in their order and sums exactly
  those, the list is linked from head to tail, and it comes to an end on a file
  that is cut anywhere.
- *Data generator and its readers*: the statistics are those of the draws, the
  clusters share the points evenly, and, as far as the files reach, the binary
  reader and the parser find the generator's points, all of them and no others;
  the array the parser allocates from the size of the file has room for them.
- *Repetition tester and tests*: when a measurement starts its buffer and its file
  are there, nothing is left between tests, the statistics are those of the rounds
  of this test, and a test ends when its time or its sweep is over, no earlier and
  no later.

## Modules

| Module | Models | Reads as |
|---|---|---|
| `InstructionTable` | `instruction_bitstream.h` | one `Row` for each C initialiser, its true members as a set; `op_cmds` in the order of the C array |
| `Libdecoder` | `libdecoder.c` | `parse_instruction` as a chain of operators, one for each block of the C function, on the six bytes at the pointer |
| `DecoderReference` | - | the 8086 encoding written independently, from opcode classes |
| `DecoderDriver` | `decoder.c` | actions `DecodeOne`, `DecodeFailed`, `Exit`: one iteration of the while loop each; the bytes after the input are an arbitrary `residue` |
| `DecoderChecks` | - | the properties that compare `DecoderDriver` with `DecoderReference` |
| `FirstDecoder` | `decoder_8086/decoder.c` | one operator for each handler on the six bytes at the pointer, `DecodeLine` for the chain of tests; actions for the two loops of `main`; memory is the buffer and what follows it, with an end |
| `FirstDecoderShapes` | - | the property that compares the lines of `FirstDecoder` with `DecoderReference` and the library; `Misread` names the shapes it misreads |
| `Simulator` | `simulator.c` | one step is one iteration of the main loop; each handler is an action on the decoded instruction |
| `Machine8086` | - | what the simulator promises: an 8086 that executes program text |
| `SimulatorListings`, `SimulatorDrawings` | listings in `simulator_8086/tests` | the bytes of the listings, their recorded final states, and the image the drawing programs must leave |
| `Profiler` | `rdtsc_utils.h` | one action for each branch of each macro; the client is its call stack |
| `CallTimes` | - | what the profiler promises: a stack of open calls and the sums of their times |
| `JsonText` | the text of a file of points | a sequence of tokens (characters, names, numbers) with their widths, as the generator prints it |
| `DataGenerator` | `data_gen.c` | `WriteRow` is one iteration of its loop, with the draws of `get_random_data`; `Stop` and `CloseOutput` leave files that may lack their end |
| `BinaryReader` | `bindata_reader.c` | one action for an `fread` that returns a double, one for the check of a row, one for the end of the file |
| `DataPipeline` | the three programs of `data_gen` | the generator, then the reader and the parser, each on the file that is there |
| `JsonParser` | `json_data_parser.c` | `advance_until` and `extract_until` on the tokens of `JsonText`; actions for the header, the start and end of a row, a name, a value, each store and each step of the average; an error path is an action of its own |
| `PointReader` | - | what the parser promises: a document's points, kept one by one and then summed one by one |
| `RepPrograms` | the clients of the tester | a program is the sequence of its tests; a test is a record of what its callbacks do with buffer, file and statistics |
| `RepTester` | `reptester.c` | one action for each callback in the order the tester calls them, with `EndRound` and `EndTest` for its decision; `Failure` is any callback that exits |
| `LibdecoderProofs`, `DecoderDriverProofs`, `FirstDecoderProofs`, `SimulatorProofs`, `ProfilerProofs`, `JsonParserProofs`, `DataPipelineProofs`, `RepTesterProofs` | - | the theorems, each module about the one it is named after |
| `MC*` | - | instances for TLC; `MCSimulator` also has its refinement mapping |

`DecoderDriver` and `Simulator` EXTEND `Libdecoder`, as the programs link the
library. `DataPipeline` EXTENDS `DataGenerator` and instantiates `BinaryReader` and
`JsonParser`, whose document is the generator's file. `FirstDecoderShapes` instantiates
the reference, and through it the library, to compare the two decoders.
`MCSimulator` instantiates `Machine8086`, `Profiler` instantiates `CallTimes` and
`JsonParser` instantiates `PointReader`, with the refinement mapping in the `WITH`.

A sequence is folded by a function on the numbers up to its length, as in `Joined`,
`Width`, `TrackedAll` and `Scanned`, because its values can then be proved by induction
over a set. Guards of a CASE exclude each other, so that it has one value.

A process that calls `ERROR` ends with `status = "error"`. Undefined behaviour is
a nondeterministic choice: the pointer read beyond `instruction_name[]` for an
unassigned operation may print anything or crash (`"crashed"`); the bytes read
beyond a buffer are any of `Residues` or `Spill`; the flags of the parser's rows,
which it declares without a value, are any set of names; a value that fills its
buffer reads as any number; a store beyond the parser's array may crash or go on. 16-bit quantities are kept
modulo 65536 wherever the C type does (registers, `ip`, `total_clocks`,
addresses, displacements); an `int16_t` is the unsigned word with the same bits.

## Runs

| Run | Question | Instance and why it is enough |
|---|---|---|
| `decoder` | Is every line of the listing what the encoding says, and the listing sound at the end of the input? | every opcode with register bytes of each MOD, four values of the register field and three of R/M, the opcodes of the moves between registers and memory with all 256 register bytes, every opcode with data that is positive, negative and -1; every file of up to four bytes over eight bytes, one of each class of rows, a register byte of MOD 01 and one of MOD 11. The buffer has three bytes, so files longer than it occur; the two residues differ in every byte and give a positive and a negative displacement with distinct low and high bytes, so that every byte order and extension shows |
| `first_decoder` | Where does the first decoder differ from the encoding and from the library, and what does it do over several chunks? | the same opcodes and register bytes with two tails; every program of up to four instructions of two to six bytes, whole or without its last byte, over chunks of eight bytes, so that chunks end with an instruction and within one; memory ends three bytes behind the buffer and holds instructions or none; any read may fail; the count has 64 values, far more than the memory has bytes, as a `size_t` has |
| `sim_templates` | Is a step of the simulator a step of an 8086? | every program of three templates out of 27 after a prologue: moves in all register widths, segment registers, memory, arithmetic with carries and sign changes, forward jumps, unsupported instructions |
| `sim_programs` | Do whole programs end as recorded? | the eleven listings with a recorded final state; both drawing programs for images of 1..5 (3..5) pixels, since 64 by 64 only repeats the rows; one program of 65536 bytes |
| `profiler` | Do the globals follow the call stack? | three blocks, so that a block has a parent and a child, each called twice so that it is re-run and calls itself; ticks advance by 1 at each read, which makes every duration distinct from every other start |
| `json_parser` | Does the parser keep and sum exactly the points of the document? | with list and array; generated files of one to three rows, of the shortest and longest numbers the generator writes; two rows in every order of their items; a file of two rows cut behind every token and inside every number; ten files with one fault each, one for each error path; three rows of short numbers, which exceed the estimate |
| `data_pipeline` | Do the generator, the binary reader and the parser work on the same points? | no points, two and five: below the number of clusters, and more than its multiple; uniform and clustered; draws that give the shortest rows (with zeros), the longest rows, and both signs; the generator stops after any row, and the files lack nothing, some closing text and a double, or a row and more; the parser with a list and with an array |
| `rep_tester` | Do the callbacks and the tester fit each other? | all eight programs; a round takes one to three ticks and a second has two, so that a test of a second has two to four rounds, the time is reached exactly or passed, and the least and the greatest round differ; an `int` holds the bytes of ten pages, so that sweeps fit it, wrap to fewer pages, to none or to a negative size, from positive and negative arguments; any callback that may fail does |
| `decoder_direction`, `sim_load`, `json_rows`, `rep_zero` | Does the code do what a comment, a test or a recording says? | the smallest instance with the case; each finds a counterexample, described under `findings` in `PROJECT.json` |

`ImplementsMachine` holds for the programs of the templates, which leave out what
the simulator does not do as an 8086 does: words of 256 and above in memory (it
moves the low byte only), loads with a displacement, arithmetic on byte registers
(flags from bit 15), arithmetic on memory (flags untouched), `loop` (flags from
cx). These are listed as hazards or findings; whole programs with some of them are
in `sim_programs`, where the recorded states happen not to depend on the
difference.

`OperandsMatchReference` leaves out the stores to a direct address, where the
decoder swaps the operands or names the wrong register; `decoder_direction` shows
that case.

The profiler's client may call a block that is open only when it is the
innermost one. A block re-entered through another block (A, B, A) overwrites its
own start and parent; the comment on the macros claims recursion only for the
direct case, and no client in the repository does it.

A document of `json_parser` carries the points whose rows are complete in it and
whether it was cut or has a fault; the parser does not see either. For a document
that is cut, `PointReader` allows one point more: the parser keeps the last row when
its flags were left set or its last number was cut, and `json_rows` shows the
first of the two.

`MisreadsTheseShapesOnly` names what the first decoder misreads (module
`FirstDecoderShapes`): the displacement of an instruction with data when W gives another
width than MOD; a direct address that is not a source, and one of a segment move,
which has one byte; the base of a displaced segment move; the accumulator moves of a
byte; and immediate moves to a register (printed between brackets), to a direct
address (printed with `bp`) or of a word to memory without a long displacement
(printed as `byte`). It is an equivalence: each of these is misread whatever the
operands are, and nothing else is.

The number of pages of a sweep is any `int`. Its product with `PAGE_SIZE` is an `int` as
well, which the build without optimization wraps, and becomes a `size_t`: `buffer_size` is
that size in pages, with the negative numbers for sizes beyond any address space, which
`mmap` refuses as it refuses a size of 0. `SweepIsComplete` therefore speaks of the pages of
the buffer, and of those asked for when their bytes fit an `int`. It also says that no round
touches a page behind the buffer, which may be smaller than what was asked for.
`MAP_FAILED` is the failure of the Linux build.

The estimate of the parser's array is computed with `float` (`json_data_parser.c:366`), in
the model with integers. Up to 13 MB both are the same; beyond, rounding changes it by one
part in millions, and it counts 101 characters for a row that has 102, one part in a
hundred.

`StatsAreOfTheDraws` says of `neg_min` what `get_random_data` does, which is not what
its name says: a draw of exactly 0 is taken for a negative one and erases it.
`ClustersAreOfEqualSize` likewise allows the fifth cluster of a count that is not a
multiple of four, and the second that all points of a count below four are in.

More divergences are known and have no run of their own. A negative displacement is printed with two
minus signs (`libdecoder.c:289`), so that the text assembles to another instruction. `loop` sets the
flags from cx (`simulator.c:736`), which the recorded run of listing 55 does not. The count of a
block leaves out its recursive calls (`rdtsc_utils.h:54`), and `RecursionIsCounted` states what it
does count. A block that runs twice in a parent is charged to it with its first run again
(`rdtsc_utils.h:58`), so that the children of a block can have more ticks than the block. The
parser's row loop takes an object behind the array for a row (`json_data_parser.c:202`). Its
estimate is meant to be high (`json_data_parser.c:358`), but short numbers written by hand make it
too low, and a generated file of the shortest rows that is cut just behind the brace of a row makes
it too low by one; the model then stores beyond the array. A sweep of 1048577 pages, whose bytes wrap
as an `int` (`page_faults1.c:68`), has a buffer of one page and ends after one row, although the
usage promises the number given with `-n` (`page_faults1.c:158`). The comments of the first decoder
say that MOD 01 has an 8-bit displacement (`decoder.c:866`), where W decides.

### Fairness

`FairSpec` adds weak fairness of the program's own step (`DecodeFailed`, `DecodeOne`, `Exit` of the
decoder; `Step` of the first decoder; `Execute`, `Fail`, `Exit` of the simulator; `Run` of the
parser and of the tester). The programs are single threaded and never wait, so a process that is
scheduled takes its next step. With it the `Terminates` properties are checked: the decoder ends on
every file, the first decoder as well (when its count has wrapped it runs to the end of the memory,
or to a byte it does not know), the simulator ends normally on each of the whole programs that does
not fill the memory, the parser ends on every file, whole or cut, and every program of the tester
ends, since every round takes time. The profiler has no liveness of its own: its steps are its
client's.

## Proofs

All hold for every value of the constants under the stated assumptions:

- `DriverAssumption`: files are sequences of bytes, residues give six bytes, the
  buffer size is a natural number.
- `FirstDecoderAssumption`: files and memory hold bytes, a chunk is not empty and fits
  the memory, and twice the memory is less than a `size_t` holds, as a process has at
  most half of the addresses: a count that has wrapped is beyond the memory.
- `SimulatorAssumption`: programs are sequences of bytes, what lies behind the memory
  is bytes.
- `ProfilerAssumption`: block indices are below 4096, ticks and byte counts are natural
  numbers.
- `JsonAssumption`: a document is a sequence of tokens with a size and points; what an
  unreadable number gives is not one of the values.
- `GeneratorAssumption`: counts are natural numbers, random numbers are at most
  `RAND_MAX`, which is positive, a seed gives a number for every call of `rand` (a
  point takes six at most), and the files may be whole.
- `HaversineIsNumber`, a hypothesis of the four theorems that name it: the distance of
  points with whole coordinates is a number of the model's kind. It speaks of all
  integers, which TLC cannot enumerate, and so is not an assumption of the module.
- `RepAssumption`: a program has tests, which all use a buffer of the program or none
  does, `test_main` takes at least one tick, and an `int` has an even number of pages
  of values.

The theorems:

- `DecodedInstructionIsWellFormed`: for any six bytes that a row matches, the decoded instruction
  has every member in the range of its C type, names a register where an operand is one
  (`ProperOperand`), and is one to six bytes long. The argument is about the table first
  (`RowsAreSound`: what the flags of a row imply), then one lemma for each operator of the parse, in
  order. The run `decoder` checks this for two tails; the theorem is for all.
- `DecodedInstructionIsItsBytes`: what is decoded depends on the bytes the instruction
  consumes alone, although the decoder looks at any byte it likes and is not told where
  they end. Each stage of the parse adds to the count the bytes it has read, so that
  bytes which agree up to the final count agree for every stage before
  (`OpcodeBytesLocal` to `ShortDataLocal`, `ParseLocal`).
- `DriverTypeCorrect`, `DriverListingTilesInput`, `DriverOverrunIsReported`: from
  one inductive invariant `DriverInv`, type, tiling and overrun together with the
  relation of `status` and the remaining count: while the program runs the count
  is not negative, which is what lets the overrun check catch every case. The step
  of `DecodeOne` rests on the theorem above: without the bound on the length the
  pointer and the count could not be added up.
- `DriverListingDependsOnInputOnly`: after a normal exit no line overran the input
  (`DriverInv`), each line is the instruction at its place (`LinesAreDecoded`), and by
  `DecodedInstructionIsItsBytes` it would be the same with other bytes behind the input.
- `DecodedInstructionIsEncoded`, and from it `DriverSanityChecksUnreachable`,
  `DriverLengthMatchesReference` and `DriverOperandsMatchReference`: the decoder against
  the independent encoding, for all bytes. A row that matches is the only one
  (`FirstMatchIsRow`, from the values of the masked bytes), so its flags are known and the
  chain of the parse can be followed: one lemma for each class of rows
  (`RegMemFaithful`, `ImmediateFaithful`, `ToRegisterFaithful`, `ToAccumulatorFaithful`,
  `SegmentFaithful`, `AddressFaithful`, `ShortFaithful`) says that length, operands and
  immediate are those of the encoding. Every line is such a decoding and an error stands
  at an instruction that is not (`LinesAreEncoded`, `ErrorIsOfTheInput`).
- `FirstDecoderTypeCorrect`, `FirstDecoderListingIsOfTheFile`, `FirstDecoderCutIsFatal`:
  from `FDInv`. The count of bytes left is either exact or has wrapped, and once it has
  wrapped it is larger than the memory and stays so: this is why a cut instruction
  never ends in a normal exit. While it is exact, what is in the buffer is the chunk of
  the file (`ChunkInMemory`) and the lines tile what was read (`Tiles`).
- `FirstDecoderMisreadsTheseShapesOnly`: every line is `DecodeLine` of the bytes it is
  listed with, and these start with an opcode that a handler takes (`DecodedLines`), so
  that the property is one about single lines, for all register bytes and all bytes
  behind them.
  The name of the operation is the library's because its first matching row is known
  (`FirstMatchIsRow`, `OpIsOfTheRow`, `OpIsKept`). One lemma for each class of opcodes says
  exactly when the handler's length, operands and data are those of the encoding
  (`RegMemShapes`, `SegmentShapes`, `GroupShapes`, `ImmediateMoveShapes`,
  `AccumulatorShapes`) or that they always are (`ToRegisterAgrees`, `ToAccumulatorAgrees`,
  `JumpsAgree`); `MisreadIs` says what `Misread` is for an opcode of the class, and
  `LineShapes` puts the two together.
- `SimulatorTypeCorrect`, `SimulatorFullMemoryNeverEnds`: from `SimInv`. A handler may
  read a register an operand names only because the decoder's operands are proper; a
  store keeps the memory within 64 KB because addresses are taken modulo its size; `ip`
  is below 65536 after every handler, and a normal end leaves it at or behind the end of
  the program (`EndsBehindTheProgram`), where it cannot be when the program fills the
  memory.
- `ProfilerTypeCorrect`, `ProfilerIndexFollowsCalls`,
  `ProfilerRecursionIsCounted`: from `ProfilerInv`. The parent chain alone is not
  inductive: when a block ends, `profile_index` becomes its parent index, and this
  is the block below it on the stack only because the open calls of a block are
  adjacent (`CallsAreRuns`) and the recursion count tells whether another one is
  open. `StartedBefore` keeps the ticks of an end non-negative.
- `ProfilerTicksFitTheProgram`: from `TicksInv` with `ProfilerInv`. The bound at the end
  needs one for every moment: the total of a closed block fits between the start of the
  program and now, that of an open one between the start of the program and its own
  start (`TotalsFit`); and nothing starts before the program (`NothingBefore`,
  `StartsInOrder`).
- `ProfilerMeasuresOutermostCalls`: the profiler implements `CallTimes` under the mapping
  in `Profiler`. The abstract stack is what following the parent indices from
  `profile_index` visits. Some sequence of blocks nests (`Nesting`: they differ, each has
  the one before it as its parent, the client has called them all), and each step keeps
  that. The blocks of a nest are as many as there are blocks at most (`NestingFits`), and
  following the parents visits exactly these, in order (`OutwardsIsNest`, by the least
  place where the two would differ), so that the open blocks are the nest
  (`OpenIsNest`). Each action then is an `Enter`, a `Leave`, a `Wait` or a stutter of the
  abstract profiler (`StartBlockEnters` to `EndBlockLeaves`).
- `ParserTypeCorrect`: the search for a character ends at the first place that holds it
  (`Least`), so that the parser never moves beyond the text or back (`AdvanceUntil`,
  `ScanTypes`), and each of its steps keeps the row, the array and the list of their
  types (`TypeNext`, with `ParserInv`).
- `ParserListIsComplete`, `ParserAverageIsOfTheStored`: from `ParserInv`, for any
  document: the list links every stored item once, in order, and what the walk of the
  average has added up is the items before the one it stands at, all of them at its end.
- `GeneratorClustersAreOfEqualSize`: from `ClusterInv`, whose `ThresholdInv` relates the
  threshold to the number of clusters and of points, also for a count below four, where
  the threshold stays 0.
- `PipelineTypeCorrect`, `GeneratorStatsAreOfTheDraws`: from `PipelineTypeInv`, whose
  `GeneratorInv` holds the statistics against all the draws in the form that one more
  draw keeps (`StatsOf`, `TrackedStep`), and that the seed still has six numbers for
  each point to come.
  A row tracks its four or six draws by one recursive function; that such a function
  exists and what it gives (`Recursion`, `TrackedAllStep`) is proved by induction
  over a set of numbers (`Induction`), and the greatest and the least of the draws are
  identified by their bounds (`MaxIs`, `MinIs`).
- `GeneratorFilesFit`: the text of the JSON file is described token by token, for any
  number of points (`JoinedIs` for items and rows with their separators, `RowIs`,
  `FileIs`): a row with what separates it from the next is thirty tokens, among them four
  names of two characters and four numbers of at least 18. Summed up (`WidthAtLeast`, by
  induction), the text up to any of its tokens has at least so many characters (`Low`),
  102 for each row in it. On the other side
  the parser starts a row at a brace, which behind the opening is one of a row
  (`BraceIsOfARow`), and never moves back: `FitInv` says that its position is behind as
  many braces as rows were started. The rows it keeps are thus no more than the file has
  characters for, of which the estimate counts 101 for one (`EstimateFits`,
  `WholeFileFits`). One of the rows may be cut off in a file without its end, which is
  where the one item too many comes from.
- `GeneratedPointsSurvive`: the same description of the file says what each scan of the
  parser finds in a row that the file has whole (`NameScans`, `ValueScans`, `BraceScan`).
  `ReadInv` then follows the parser token by token: in such a row its position is the one
  behind so many items (`PlaceInv`), the coordinates read so far are those of the point
  (`SameUpTo`), and what is kept are the points in their order, up to a row that the file
  has in part (`TextInv` says which are whole). That the points are summed as they are
  kept, in the array or along the list, needs nothing of the file (`StoreInv`, `SumInv`).
  For the other reader, `ReaderInv` relates its position, the fields of the row it is in
  and the rows it has read to the numbers of the file. The sums are recursive functions,
  which agree on the points they have in common (`TotalIs`, `TotalOfFirst`). In a file from
  which nothing was lost every row is whole (`TextInv`), and the parser keeps no more rows
  than were written (`FitInv`), so that the three programs sum the same points.
- `TesterTypeCorrect`, `TesterMainHasItsResources`, `TesterNothingIsLeft`,
  `TesterStatsAreOfTheRounds`, `TesterStopsWithItsTime`, `TesterSweepIsComplete`:
  from `RepInv`, for any programs and any number of rounds. The properties speak of
  single moments; `BufferInv` and `FileInv` say for every phase who holds a buffer
  or a file (`HoldsBuffer`, `HoldsFile`), and the counters stay natural numbers only
  because a resource is released while it is held. That a program shares its buffer
  with all its tests or with none is what carries them from one test to the next.
  `MinInv` and `MaxInv` hold the statistics against the rounds so far: 0 stands for
  no minimum because no round takes 0 ticks. `TimeInv` says that no round before
  the last had reached the time, `SweepInv` what a
  sweep has written so far, and that a buffer that was mapped has pages: `buffer_size`
  is any number an `int` of pages can be, of which only the positive ones get that far.

Only model-checked:

- the refinements `ImplementsMachine` and `KeepsThePoints`: the first compares whole
  states of two machines for the programs of the templates only, and the second needs
  the meaning of every scan over a well-formed document, cut anywhere;
- termination, which rests on fairness;
- `FinalStateMatchesListing` and `ImageIsDrawn`, about the particular programs of
  `sim_programs`.

## Not modelled

Command lines, log output, the wording of the printed text, the floating point
arithmetic of reports and of the haversine programs, the rounding of a coordinate to
the 16 decimals of the JSON file, and the counters of the operating system. A file of
`data_pipeline` that lacks its end is cut between two tokens; cuts inside a number are
in `json_parser`. The components marked `not_modelled` in `PROJECT.json` say
why.

## Plan

In this order:

1. The core: decoder library, decoder program, simulator, profiler, with the
   abstract machine and the abstract profiler, and their first proofs (done).
2. `JsonParser` with `PointReader`, and the completeness of its list (done).
3. `RepTester` with the programs of `RepPrograms`, and its proofs (done).
4. The first decoder against the same reference and against the library, over several
   chunks, and its proofs (done).
5. The data generator and its two readers as one pipeline, and the clusters (done).
6. Proofs for the simulator's state, for `ListingDependsOnInputOnly` and for
   `TicksFitTheProgram` (done).
7. The refinement of `CallTimes`, the decoder against the encoding, the types of the
   parser and of the pipeline, the statistics of the draws, the estimate of the array
   against the files of the generator, the points through the files and both their
   readers, and the shapes the first decoder misreads, as theorems (done).
8. Open: the refinement of `PointReader` for any well-formed document, for which the scans
   have to be followed through its white space and the order of its items; and the flags
   and words that `ImplementsMachine` leaves out, should the simulator come to support
   them.
