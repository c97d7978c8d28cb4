# Specifications of sea-pkg

sea-pkg is the utility library of a blockchain: a WebAssembly virtual machine
for contracts (`wagon`), a logger, a key-value store interface, an RLP codec and
cryptography. This directory holds TLA+ models of its core logic, the TLC
configurations that check them on small instances, and TLAPS proofs of what
matters most for instances of any size. References such as `file.go:97` are to
the Go sources.

## Inventory

| part | state | operations | hard behaviour | what makes it correct |
|---|---|---|---|---|
| wagon verifier (`wagon/validate`) | operand types, block stack, polymorphic flag | one per operator | unreachable code, block results | accepts what is typed, and only that |
| wagon disassembler (`wagon/disasm`) | stack depths, block indices | one per operator | depth after a branch, dead code | depth and maximum depth are those of the running code |
| wagon compiler (`exec/internal/compile`, `sea/compile.go`) | byte code, open blocks, patches | one per operator | forward jumps, discards, branch tables | flat code behaves as structured code |
| wagon VM (`exec/vm.go`, `call.go`, `func.go`, `interpreter.go`) | context, stack, call depth, abort | ExecCode, call, host call, Terminate, ResetContext | traps inside calls, termination, reuse of one VM | callers are resumed as they were; the limit holds; Terminate stops |
| wagon linear memory (`exec/memory.go`, `sea/memory.go`) | bytes, allocation map, two slices of one array | load, store, grow, Set, Get, Resize | wrap-around, a slice kept over a reallocation | accesses stay in bounds; blocks do not overlap and are read back |
| wagon numeric instructions (`exec/num.go`, `conv.go`, `reinterp.go`) | slots of the stack | one per operator | signs, widths, shifts, infinities | the slots WebAssembly prescribes |
| wagon module reader (`wagon/wasm`) | index spaces, tables, memories, shared between modules | DecodeModule, ReadModule: imports, population, segments | malformed sections, overlapping segments, refused modules | an index names the same thing everywhere; a module leaves others alone |
| leb128 (`wasm/leb128`) | none | read, append | signs at a boundary of seven bits | a number is read back |
| logger file adapter (`logger/file.go`) | open file, counters, open date, directory | LogWrite, rotation, deleteOldLog, Init | goroutines, failures of the file system, restart, change of date | no line lost or misfiled, bounded files |
| logger front end (`logger/log.go`), `elastic.go`, `console.go` | outputs, shared adapters | SetLogger, DelLogger, writeMsg, Close, Reset | reconfiguration while others log, asynchronous sending | a line reaches every output that is configured |
| logger network adapter (`logger/conn.go`) | connection, flags | LogWrite, connect, Init, Destroy | servers and links that fail and return | nothing leaks, one message is lost, the next gets through |
| RLP stream and codec (`util/serialize/rlp`) | cursor, list stack, header ahead, buffers | Kind, Bytes, Raw, Uint, List, ListEnd, Reset, Encode, Decode | sticky errors, nested sizes, pooled streams | a cursor over the input; decode inverts encode |
| RLP type cache (`rlp/typecache.go`) | infos, a lock | cachedTypeInfo, generate | recursive types, unlocked use | nobody calls an unfinished decoder |
| decimal, words, conversions (`util`) | values | arithmetic, rounding, slicing, floats | signs, halves, overflow, shortest digits | agrees with numbers |
| base58, ICAP, bip32/39/44, secret sharing (`crypto`) | values | encode, decode, derive, split | leading zeros, orders, field arithmetic | read back; derivations commute |
| secp256k1 and signatures (`crypto/ecdsa`, hash trees of `crypto/sha2`) | limbs, points, keys | field and group operations, sign, verify, recover | carries that are put off, two ways to multiply, exceptional points | agrees with field and group; a signature tells its key |
| hashes and encryption (`crypto/sha3`, `sm3`, `aes`) | sponge, words, blocks | Write, Read, Sum, encrypt, decrypt | bytes in pieces, cloned states, padding | pieces do not matter; decrypt inverts encrypt |
| SM2 (`crypto/sm2/p256.go`, `sm2.go`) | points, keys | add, multiply, sign, verify, encrypt, compress | windows and tables, signatures that are drawn again | agrees with the group; accepted for what was signed only |
| certificates (`crypto/sm2/x509.go`, `verify.go`, `cert_pool.go`) | certificates, pools | create, parse, Verify | chains through several authorities, name constraints, critical extensions | an accepted chain is good all along, a good one is found |
| chaindb, queue, intpool, stack, memory | maps, slices | Put, Get, Push, Pop | shared slices, unlocked length | a read sees the last write |

The verifier, the disassembler, the compiler and the VM form a pipeline: each
consumes what the one before produces, and relies on it without checking again.
The VM calls host functions, which may call back into it (`Process`). The logger
front end calls its adapters, shared by all loggers of the process; the file
adapter is called by many goroutines and starts its own. Modules are read into
the index spaces the VM runs on, and share tables and memories. Every encoder
and decoder of RLP asks the type cache for its functions.

## Modules

| module | models |
|---|---|
| `WasmStructured` | the abstract specification: typing and execution of structured WebAssembly code, from the WebAssembly rules the comments of the code refer to |
| `WagonOps` | the operators of the pipeline and their signatures (`wasm/operators`) |
| `WagonValidate` | `verifyBody` with its mock VM |
| `WagonCompile` | `Disassemble`, `Compile` and `PatchTable`, with byte addresses |
| `WagonExec` | `execCode` on compiled code, one instruction at a time |
| `WagonPipeline`, `MCWagonPipeline` | composition: a body is verified, loaded, and run by the structured and by the compiled semantics, with a host that answers calls |
| `WagonVM`, `MCWagonVM`, `WagonVMProofs` | the life of a VM: ExecCode, nested calls, traps, the recursion limit, Terminate |
| `WagonMemory`, `MCWagonMemory`, `WagonMemoryProofs` | loads, stores and growth of the linear memory beside the allocator of the host functions |
| `WasmModules`, `MCWasmModules`, `WasmModulesProofs` | `ReadModule` after decoding: imports, index spaces, tables, segments |
| `FileLogger`, `FileLoggerProofs` | the file adapter, the goroutines that use it, the sweeps it starts, the restart of the process |
| `LocalLogger`, `MCLocalLogger`, `LocalLoggerProofs` | the front end with the console, a file and Elasticsearch, used and reconfigured by several goroutines |
| `ConnLogger`, `ConnLoggerProofs` | the network adapter and the network |
| `RLPCursor` | the abstract specification of a Stream: a cursor over nested lists |
| `RLPStream`, `RLPStreamProofs` | `Stream`, shown and proved to refine `RLPCursor` |
| `RLPCodec`, `MCRLP` | encoding and decoding of values by type, on top of `RLPStream` |
| `RLPTypeCache`, `MCRLPTypeCache`, `RLPTypeCacheProofs` | the cache of decoders and writers |
| `Decimal` | the decimal package: values reached by sequences of operations |
| `MachineWords` | a byte string that grows, LEB128, words with overflow flags and slices of data |
| `Wallet` | mnemonics, derived keys, secret sharing, base58, ICAP addresses |
| `ShortDecimal` | decimals from floats: the shortest digits |
| `WagonNum` | the numeric instructions |
| `WasmSections` | `DecodeModule` and `EncodeModule` |
| `BigBytes`, `FieldVal`, `S256`, `ECDSA` | bytes of numbers; the field in limbs; the curve; keys, signatures and hash trees |
| `Hashes` | Keccak and its sponge, SM3, the encryption with a password |
| `SM2` | the curve, signatures, encryption and compressed points of SM2 |
| `CertChains`, `Certificates` | `Verify` and the pools; how certificates, requests and revocation lists are made and read |
| `MCAlgorithms` | the pure functions above, on small curves, ciphers and formats, in one run |

### The wagon pipeline

`Verify` reads any next instruction, as one iteration of `verifyBody` does, so
the runs enumerate every body of the kinds in `MCWagonPipeline`; beside the mock
machine of the verifier it keeps what the typing rules say of the body. `Load`
disassembles and compiles a complete body as `NewVM` does. `RunStructured` and
`RunCompiled` take one instruction of either semantics, `HostAnswers` gives both
the same answer to the call they have reached, `Finish` is the return of
ExecCode.

The compiled code is compared with structured code in lock step, from call to
call: `SameBehaviour` (calls, arguments, results), `SameStack` (the operands at
each call), `WithinMaxDepth` (`maxDepth` is enough), `KeepsUp` (compiled code
reaches a call or its end whenever structured code does). Host functions answer
with small numbers and the operators are functions of their signature, so the
two differ exactly when a call, an argument or a result does. The classes of
bodies on which the code deviates are named in `Deviations`; the passing runs
leave these bodies out (`Allowed = {}`), and setting `Allowed` to a class shows
its deviation.

### The VM

`WagonVM` keeps contexts: the function, the array behind its stack and what the
stack shows of it (`ctx`); the contexts that `compiledFunction.call` saves on the
Go stack (`callers`); `recursiveCallDepth` and `abort`. Bodies are open: the next
instruction may take any operands that are there, push any value, call, leave the
loop or trap. Nothing is assumed of what the verifier or the compiler has
established, since code that the compiler gets wrong (see the findings) runs too.
The operands are a Go slice: a push writes into the array, for every context that
shares it, or moves to a new array where append finds no room. `kept` is history:
what a suspended caller had on its stack. `NoResult` is the index panic of a
function that returns a result with nothing on its stack. `Trap`, `TooDeep` and a
host function that panics unwind all calls through their deferred functions.

### Memory and modules

In `WagonMemory` the slices of the VM and of the allocator are references to
arrays: they share one until either grows and moves to another. `intSpace` is the
number of values of an int, which is 2^32 on some machines and 2^64 on others:
`GoInt` is the conversion of a 32-bit address, and a sum of ints wraps around.
`last` is the operation that has just ended, with its outcome: `trap` for
ErrOutOfBoundsMemoryAccess, `panic` for a failed check of Go. A slice may have
room beyond its length (`Slacks`), and `Resize` may fill it in place. `blocks`
is history: what SetBytes has stored and nobody has written over.

`WasmModules` starts from what `DecodeModule` makes of the bytes (`Decls`). `m`
is the module being read, `phase` and `todo` what ReadModule still has to do;
`mods` are the modules that have been read and may be imported from, `heap` the
arrays their tables and memories are slices of. The three lists that have to stay
in step are there as in the code: `funcs` is FunctionIndexSpace, `bodies` is
Code.Bodies, to which an import appends the body it found, and `types` is
Function.Types, which gets the entries of the imports (`taken`) in front. An own
function takes its body from `bodies` at the index the code computes. A body is
known by its module and its place in that module's code section, so that
`FunctionsResolve` can follow it through exports of exports: it compares the
lists that were filled step by step with `Meaning`, which reads them off the
declarations at once. `found` is what the memory held before the first segment.

### The file adapter

`pc[w]` is where goroutine `w` is in `LogWrite`: `check` (before `RLock`),
`lock` (before the first `Lock`), `reopen` (in `createFreshFile`, between
renaming and `newFile`, with the lock), `write` (before the second `Lock`).
`disk` is the directory: the number of lines of each name. `fd` says whether the
open descriptor still belongs to the name. `lines` and `bytes` are the counters:
`newFile` replaces the file first and sets them afterwards, the size after Stat
and the lines after it has read the file, so each of the two may keep what it was
when the call ends with an error (`ReplaceWriter`, `opened`, `miscounted`). `began`
and `origin` are the date on which the file was created and whether this process
created or found it; `openDate` is what the code compares instead.
`TakenNums` are numbers of rotated files that were there before the start. `sweeps` and `condemned` are the
`deleteOldLog` goroutines: between two files, or about to remove a name. A
restart loses goroutines and memory and keeps the directory; only a start whose
`newFile` succeeds logs. `failed`, `acked`, `expired` and `lost` are history
variables for the properties, as are `opened`, `miscounted`, `began` and `origin`.
A write puts a line into the file or not at all.

### The logger

In `LocalLogger`, `pc[g]` says where a goroutine is in SetLogger (`set`,
`replacing`, `adding`, `store`, `append`), DelLogger (`delete`, `deleting`), Close
(`close`, `closing`) or writeMsg (`reading`: it knows the array of the list;
`writing`: also its length). The list is a Go slice: SetLogger stores an output in
its array in place (`Store`), and append extends it in place where there is room
(`Extend`, and `Fill`, since the length may be seen before the element) or moves
it (`GrowList`). `left[g]` is the part of the array that a message has still to
go to; what is stored there meanwhile it sees. Elasticsearch configured with
`open: false` stays on the list without a client until a message opens it (`Off`,
`Opened`). `sending` counts the goroutines of `elastic.go`, which panic without a
client. `NilOutput` is a message that meets an output not stored yet.
A file adapter is open or closed here; `FileLogger` is its inside.

In `ConnLogger` the servers of the configuration go up and down, and a
connection is `open` on this side and `live` while its server is there. A write
to an open connection that is not live fails or is swallowed. `active` is the set
of goroutines of a behaviour, so the same run has one goroutine, for which the
properties hold, and two, for which most do not (below).

### RLP

A `Stream` is a record, and every method is an operator that gives the stream
after it, an error and a value; an action calls one method. The layout of RLP
keeps its structure and has small numbers. `RLPCursor` knows the position in the
input, the ends of the open lists and nothing else; `RefinesCursor` maps a stream
with a header ahead to the cursor before that header. `RLPCodec` builds writers
and decoders by type from those methods, and compares them with values.

`RLPTypeCache` has one step for each lookup under either lock, and one for each
decoder or writer that is made; `stack` are the calls of `generate`. `held` are
infos that a goroutine has got and follows without a lock.

### Pure functions

`Decimal` has a state, the value reached so far, and one action for each
operation. `MachineWords` and `Wallet` are applied to `input`, a byte string that
grows byte by byte, and state their properties of the string reached. The other
modules have no state: their properties quantify over the arguments that
`MCAlgorithms` gives them, and are looked at once. Everything is scaled down in
the same way: the formulas, the order of operations and the tests of the code
are kept, and widths, curves and formats are parameters, small enough for every
argument to be tried. A cipher, a digest of the Go library and a table of a real
curve are parameters too. The field of the secret sharing, the lanes of Keccak
and the words of SM3 have their real sizes.

`FieldVal` keeps numbers in limbs with carries that are put off, as the code
does, and tracks nothing else; `S256` takes their values and checks that no
operation is given a larger magnitude than its comment allows, so that the two
together say what the code computes. In `WasmSections` a reader is a cursor with
an error, and every token string up to a length is read. In `CertChains` a
signature is the key that made it; in `Certificates` an encoding is the sequence
of its values with the kind each was encoded as.

## Runs

| run | question | bounds |
|---|---|---|
| `wagon_typing` | does the verifier accept all typed bodies, with the right heights, does NewVM load them, and do conditionals behave as structured code? | bodies of up to 6 instructions over two value types; up to 7 over conditionals |
| `wagon_code` | does compiled code have the behaviour, the stack and the depth of structured code, and does it keep up with it? | up to 7 instructions over blocks and branches, 6 over loops, 7 over branch tables |
| `wagon_br_if_discard` | where it does not (finding) | the shortest bodies |
| `vm_calls` | are nested calls, traps, the limit and Terminate handled right? | three functions and a host function, two values, five arrays, limit 2, one operand past `maxDepth`, two ExecCode calls |
| `wagon_memory` | does an access go through exactly when it is inside the memory, is memory kept when it grows, and do blocks stay apart and readable? | bytes of one bit, pages of 4, addresses of 5 bits, ints of 5 and of 8 bits, 4 operations |
| `wasm_modules` | do the lists of functions stay in step, do segments arrive where they belong, and only there? | 4 modules out of about thirty |
| `file_rotation` | are counters, limits, days and lines kept through rotation, failure, sweeps and restarts, and does every call return? | 2 goroutines, 3 lines, files of at most one line and three bytes, 3 dates in months of two days, 2 numbers for each date of which one is taken at first, logs kept for a day, 2 failures |
| `logger_outputs` | does a message reach every output while outputs change? | 2 goroutines, 3 adapters, 3 configurations, one of them `open: false`, and a bad one, one message on its way |
| `logger_conn` | does the adapter leak, skip or lose messages, and does it recover? | 1 or 2 goroutines, 2 servers, 3 connections |
| `rlp` | is a stream a cursor over its input, and do encoding, decoding and splitting agree? | all inputs of up to 3 bytes of eleven, nested lists of 5, values of nineteen types; 3 limits |
| `rlp_types` | is what the cache gives out complete, do errors spread, and is every request answered? | 2 goroutines, 10 keys with two recursions |
| `algorithms` | do the pure functions agree with reference definitions? | the next table |

| in `algorithms` | bounds |
|---|---|
| decimals | values up to 300 with 3 digits, reached by operations on seven operands |
| byte strings | up to 4 of nine edge bytes; words of 16 bits for LEB128, of 8 for sums and products; a group of order 13 for derived keys |
| decimals from floats | formats of 3 and of 4 bits of mantissa and 3 of exponent, 12 or 3 digits kept, shifts of at most 4 or 5 bits at once |
| numeric instructions | slots of 8 bits with integers of 4 and 8, floats in quarters; 22 edge values, two at a time |
| sections | a module with every section, a small one, and every string of up to 5 tokens of eight |
| field and curve | four limbs of 6, 6, 6 and 3 bits in words of 11; the curve of 31 points over 43 elements, with an endomorphism as the real one has; hash trees of up to 5 leaves |
| hashes and encryption | three rates, five ways to cut what is written; a cipher of blocks of three bytes of three bits, six passwords, seven texts |
| SM2 | the curve of 43 points over 47 elements, every key and nonce, two hashes, three texts; scalars of two bytes of four bits |
| certificates | up to 3 of nine intermediates in any order, three leaves, four pools of roots, two lists of usages; names of up to 4 characters of four |
| making certificates | six kinds of keys with every algorithm; templates that set each field; up to two foreign extensions of eighteen |

Why the bounds are enough. The deviations of the pipeline show in bodies of at
most eight instructions, because each concerns one block, its parent and one
branch; the enumeration has all combinations of two nested blocks. The VM has
one rule for every level, and the outermost, a suspended and the running one are
three with a limit of two; five arrays are one for each level and one to move to. Four operations on a memory let each side move once and use what the
other has left; four modules give a chain of imports with one beside it. The file
adapter needs two goroutines that checked together, two numbers for each date so
that finding a free one, passing over one that is taken and running out of them
happen, three dates so that the day of the month comes again, and two failures,
of a rotation and of the newFile behind it, because properties count failures
rather than assume their absence. An output list
changes under one message at most in the ways one other goroutine can change it;
a second configuration tells an adapter that was set again from one that was
not. A third connection lets two goroutines hold one each while a third is made.
An int of 5 bits is as wide as an
address, one of 8 holds every sum. RLP inputs of three bytes reach a header with a size of its own in every kind,
and five bytes two nested lists with a string between their ends. The edge bytes
are those at which an encoding changes its length or its sign. The small curves
have every exceptional case of the formulas (equal points, opposite points,
infinity) for every pair of points; four limbs have a first, two inner and a last
one, which is all that the code tells apart. Three intermediates make a chain
with a detour, where limits and constraints of two prefixes differ. Where TLAPS
proves the same property the bound does not matter.

Fairness. `FileLogger` and `LocalLogger` assume strong fairness of every goroutine
that is in a call (`Advance(w)`, `Acquire(g) \/ Proceed(g)`): `sync.Mutex` and
`sync.RWMutex` serve their waiters in turn, and a goroutine that does not wait is
scheduled. `RLPTypeCache` has strong fairness for either side of its RWMutex and
weak fairness for the rest of a call. Nothing is assumed of callers, of the clock,
of the sweeps or of the goroutines that send to Elasticsearch. `ConnLogger`
assumes that its goroutines go on logging, and that a write to a dead connection fails some time (`SetKeepAlive`,
conn.go:101); nothing of the network, whose settling is a premise of `Delivers`.
`WagonVM` assumes that the goroutine in `execCode` goes on once `abort` is set;
nothing forces a body to end. In the pipeline both machines
go on while they can (`FairSpec`): execCode is a loop of one goroutine that
nothing suspends.

Deadlock is checked in every run that does not say otherwise in its cfg; the
pipeline runs end when a body has been run to its end, and the others that leave
it out when a bound is used up or the last call has been made.

## Proofs

Eight modules hold proofs. Every theorem below is about all behaviours and all
values of the constants that satisfy the named ASSUMEs of the modules, which TLC
evaluates in the runs.

`FileLoggerProofs`, for any finite set of goroutines, any limits and any number
of dates and numbers:

* `TypeCorrect`: types, and the lock is held exactly by the one goroutine in
  `reopen`.
* `CounterCorrect`: the size that is counted never falls below that of the file, and
  both counters agree with the file unless the newFile that opened it ended with an
  error before it had set them: none after a failed Stat, the size alone after a
  failed count of the lines (`CounterExact` is inductive given the types).
* `LinesBounded`: a file has at most `MaxSize + |Writers| - 1 + failed` bytes, and
  at most `(MaxLines + |Writers| - 1) * (1 + miscounted) + failed` lines: after a
  count that failed the old file is filled once more, from whatever count was left.
  `LineBound` is not inductive: a full file with a line still pending would
  exceed it. `PendingBound` adds the goroutines in `write` and keeps room for
  the one that rotates. A goroutine joins `write` only when it saw a counter
  below the limit (then at most the other goroutines are pending), after a
  rotation that created an empty file, or after a failure, which raises the bound.
* `CurrentKept`: while no rotation has failed no sweep removes the file in use.
  The invariant `SweepsSpareCurrent` says that while sweeps are under way the
  file was modified today, and that the goroutine that rotates creates the file
  itself. It rests on the assumption that a sweep is over before the date
  changes, and on `MaxDays` being positive (`DaysAssumption`).
* `EveryLineFiledByDay`: for any number of dates and any length of a month, and as
  long as no rotation fails, a line goes to a file created on an earlier date only
  if both dates are the same day of their months, where a file that a restart found
  counts from the restart. These exceptions are what the code does (see the
  findings); the theorem says that no interleaving of goroutines adds another.
* `EveryLineAccounted`: the lines that LogWrite returned nil for are those on disk
  and those that were deleted. The lines on disk are counted as a set of pairs
  (name, number), so that a rotation is a bijection of that set; the name a
  rotation takes is free, because the least number that is not taken is.

`WagonVMProofs`, for any functions and any limit:

* `TypeCorrect`, `DepthCounted`: `recursiveCallDepth` is the length of the chain of
  calls; a trap takes back as many levels as there are deferred functions.
* `CallsBounded`: the chain is at most one longer than the limit.
* `TerminateObeyed`: after Terminate every step of a running VM is a return.
* `CallersKept` (an action property): a caller goes on with the very values it had
  on its stack and the result on top, whatever the bodies do. It rests on
  `StacksApart`: no two contexts in progress share an array, because a call makes an
  array of its own for its callee, and append moves to one that nobody uses.

`WagonMemoryProofs`, for any widths, pages, contents and sequences of operations:

* `AllocatorDisjoint`: SetBytes gives out no offset and no byte twice. The
  strengthening `BelowPos` says that everything given out lies below `Pos`, and
  that an empty value takes an offset too.
* `AccessesDecided`: a load or store goes through exactly when all its bytes are in
  the memory, for any width of int; where it does not it traps, unless its last
  place does not fit an int. `WideTrapsFirst`: with an int that holds every place,
  as one of 64 bits does, `inBounds` lets nothing through that Go would refuse.
* `GrowthKept` (an action property): a memory that grows keeps its contents, has
  the pages that were asked for behind them, and they are zero; nothing else
  changes its length. The invariant `PagesWhole` says that a memory is a number of
  pages, also after the product of 32 bits has wrapped around.
* `BlocksReadBack`: what SetBytes stored is what GetPtr returns. `ReadBack` is not
  inductive, since it speaks of offsets as GetPtr reads them. `BlockInv` says that
  the bytes of every block that nobody has written over are in the array of the
  allocator; a step of the VM writes to that array only while the two share it.

  `SizeAssumption`, a memory below 2 GiB, is needed here: GetPtr takes an offset
  with the sign bit as one from the end (below).
* `NumbersLoaded`: a load leaves the number that is in the memory, signed when the
  instruction says so. A number is read from its highest byte on, starting from what
  stands above it, all bits clear or all set; `PaddingKeeps` says that bytes which
  repeat what is above them change nothing, and `ExtendIs` that Extend adds only such.
  It takes a byte to have more than one value (`MemoryAssumption`).

`WasmModulesProofs`, for any declarations, in any order, importing from each other
in any way:

* `FunctionsAreResolved`: the function space of every module is what its own
  declarations and those of the modules it imports from say, each own function has
  the body its code section had for it, though the bodies of imported functions
  were added to that list, and Function.Types is as long as the space and right
  for every own function. `FunctionsResolve` is about modules that have been read;
  `Resolved` adds the module being read: while it imports, its functions are what
  the imports done so far mean, and after its functions are populated the whole
  space. `Fresh` says that until then the start of Code.Bodies and Function.Types
  are as decoded, and `Listed` that the types keep pace with the space.
* `SegmentsArrive`: every byte of the memory of any module, one with an imported
  memory included, is that of the last segment that landed on it, or what was
  found. A segment that begins inside the memory and ends beyond it lands on the
  places beyond only: that is what the code does (below), and the theorem says how
  far it goes. `Loads` says it of the segments done so far (`Filled`).
* `MemoriesAreKept` (an action property): reading a module changes the memory of
  another at its own segments only, and only if both may have it from a common
  module. `Descent` says that modules with the same array descend from a common
  one; it needs `Apart`: no array is both a table and a memory, and what a refused
  module leaves behind is in no other's way.

`LocalLoggerProofs`, for any goroutines, adapters and configurations:

* `OutputsAreOpen`: every output on the list is open with the configuration the
  list names, but for Elasticsearch with `open: false`. Between two steps of SetLogger
  that is not so; `OpenInv` says that the goroutine with the lock is the only one
  that keeps an output out of order, that it is the output it was called for, and
  what it has done to it so far.
* `MessagesAreWhole`: a message is given once to every output that stays, though
  SetLogger stores into the array the message goes along. The invariant `WholeInv`
  says that what it was given to and what is left of the array are together the
  names it read, in which none occurs twice: a store in place keeps the names. A
  place that append has taken and not yet filled (`Unfilled`) is due to nobody.
* `KeptFacts`: what DelLogger keeps of a list, by induction over its length.

`ConnLoggerProofs`, for any addresses, any bound on connections and any finite
set of goroutines, one of which logs alone:

* `OneConnection`, `AlwaysTries`, `ConnectionPerMessage`: the invariant `Place` says
  for every point of LogWrite which connection is open, what the deferred call
  will close, and that the flag is down from `Reconnected` to the write.
* `NextReceived` (an action property): `Recovering` says that the message after an
  error reconnects, that the addresses it has dialled are down, and that it then
  writes to a live connection.

`RLPTypeCacheProofs`, for any types, however they refer to each other:

* `TypeCorrect`: `generate` is never in progress twice for one type.
* `HandedOutComplete`: nothing unfinished can be reached from an info that was
  given out. `NothingUnset` says nothing of infos in the making; `Sound` adds that
  every key in the cache that no call is working on is complete and has its parts
  in the cache, so that with the lock free the cache is closed under reaching.
* `NeverMadeAgain` (an action property): a decoder that was made stays.
* `ErrorsReported`: a type has an error exactly if it or one of its parts has one,
  save a part that comes back to the type. The invariant is about the calls of
  `generate` in progress: a part that is still empty is on the stack, and from
  each call to the next one is a part of the other, so that the part comes to
  every type above it. A recursion may run through the decoders of some types and
  the writers of others, which a first form of `ErrorsSpread` did not allow for.

`RLPStreamProofs`, for any inputs, any limits and any numbers of the layout that
`LayoutAssumption` admits (bytes are the single values, the small sizes and the
widths of large ones, twice over, and there is a small size):

* `StreamIsCursor`: the refinement `RefinesCursor`. Kind is a stutter of the cursor
  or a failure; Bytes and uint take, Raw takes with the header, List enters,
  ListEnd leaves, and what is refused stutters. A failure needs something that is
  not well-formed, not there, or beyond its list or the limit. Each method has a
  lemma for its three outcomes (`Looked`, `BytesFacts`, `RawFacts`, `UintOpFacts`,
  `ListFacts`, `ListEndFacts`), and each outcome one for the step it maps to.
* `CountsAreKept`: the inductive invariant `IInv` behind it. The mapping alone does
  not say how a stream decides: it never looks at where a list ends, it subtracts.
  `Reading` says that what is left of the limit is the limit less the bytes read,
  and that in every list the bytes read and the list within it fit (`Nested`), so
  that the counts of the innermost list and the ends of all of them agree
  (`EndsAdvanced`, `EndsEntered`, `EndsLeft`). `Known` says that a header that was
  looked at is the one that stands at `mark`, well-formed and within its bounds,
  with what it announces still to come; without it a method that uses the
  remembered size could take anything. It says nothing once a read has failed,
  after which only Reset is called.
* `ReadUintFacts`, `DigitsOfValue`, `HeaderBytes`: a size read byte by byte is the
  number in the input, and the header that Raw writes for it is the one that was
  read, since a good header is the shortest.

Recursive functions. The library states induction for an operator that no
installed prover can instantiate. What replaces it is that a set of natural
numbers that is not empty has a least element (`LeastNat`, proved in each module
that needs it from the library's facts about finite sets). A statement about a
recursive function is proved by taking the least number at which it fails; that
the function satisfies its equations, by taking the least length for which none
does. So `Kept`, `Taken`, `Space`, `Meaning`, `Loaded`, `Number`, `Digits`,
`Ends` and `NumberBelow` could be reasoned about.

Only model-checked, and why:

* the pipeline (`AcceptsTyped`, `SameBehaviour`, `SameStack`, `WithinMaxDepth`): to
  compare compiled code with structured code is an induction over bodies, with a
  simulation at each level of nesting;
* `CodecAgrees`: the codec is recursive over types (RECURSIVE operators, which the
  provers do not take);
* `Arithmetic`, `ReadBack` and `Trusted` of `MCAlgorithms`: statements about given
  curves, widths and formats;
* all liveness (`KeepsUp`, `TerminateReturns`, `LogWriteReturns`, `CallsReturn`,
  `Delivers`, `Answered`), which TLAPS does not reason about under fairness.

## Findings

Nine disagreements between the code and its comments are listed in PROJECT.json with
the lines of both. One is refuted by a run of its own, `wagon_br_if_discard`. In the
others the comment is not what a property states: the property holds for what is
left, and its comment names the case that it leaves out.

| disagreement | the property that leaves it out |
|---|---|
| `br_if` out of a block without a result does not discard (`compile.go:250`) | `SameStack`, `SameBehaviour` outside the violation run |
| days are compared as days of the month, and from the restart (`file.go:76`) | `FiledByDay` |
| a 32-bit int makes `inBounds` accept what is outside (`exec/memory.go:24`) | `AccessesInside`: the access then fails in Go |
| Function.Types has numbers for imported functions (`imports.go:194`) | `FunctionsResolve`: right for own functions |
| FunctionBody.Module is not used (`section.go:824`) | none speaks of running an imported body |
| a zero in a byte array of length 1 is left ahead (`decode.go:360`) | `CodecAgrees` (`Retaken`) |
| the sum of a point and itself is infinity (`p256.go:497`) | `PointsAdded`, `SignaturesExact` |
| Sum of SM3 hashes its argument and changes the state (`sm3.go:166`) | `StreamHashed`: the first Sum, of nothing |
| a clone of a sponge that is read is right for one rate only (`sha3.go:65`) | `ClonesGoOn` |

The models show other behaviour that a user may not expect. No run states it.

Pipeline and VM:

* an `else` forgets the operands beneath its `if` (`disasm.go:226`); a branch back
  to a loop with a result keeps an operand; `PatchTable` takes an address for a
  label when they are equal (`sea/compile.go:28`): the classes `else`, `loop` and
  `table` of `Deviations`;
* the verifier ignores the height at the end of a block without a result, accepts
  a label that is too large in unreachable code (`validate.go:123`), and panics on a
  `select` over two types (`validate.go:345`, `VerifySelect`);
* operands stay on the stack of the VM until a function with a larger
  `maxDepth` runs (`vm.go:298`, `ExecCode` of `WagonVM`); a function with a result
  that Terminate stops returns whatever is on top of its stack, and ends in an index
  panic when nothing is (`vm.go:411`, `NoResult`);
* a host function that calls ExecCode on the VM it runs in replaces the context of
  the running function, which is not saved (`vm.go:301`); the model does not;
* shift counts are not taken modulo the width, the smallest integer divided by -1
  wraps around, and a float beyond the integers converts without a trap; the
  operands of copysign are exchanged; nearest rounds halves away from zero and
  loses the sign of zero; min and max look for infinity before NaN; I64RemS is
  named `i64.div_u` (`operators/num.go:40`). `NumericStandard` names them.

Memory:

* after `grow_memory` has moved the memory, host functions go on with the old one:
  what SetBytes stores does not reach the module (`memory.go:212`,
  `interpreter.go:42`);
* the number of bytes to add is a product of 32 bits: 65536 pages add nothing and
  32768 panic; the maximum of a memory is not looked at;
* a block at an offset of 2 GiB and more cannot be read back: GetPtr takes it for
  an offset from the end (hence `SizeAssumption`);
* after Resize, Set may put a block beyond the length, within the capacity, where
  the next Resize writes zeros (`sea/memory.go:61`); AddHeapPointer does not move
  `Pos`; addresses wrap around instead of trapping;
* where int has 32 bits, `inBounds` takes an address from 2 GiB on for a negative
  one and lets it through; the access fails in Go (`memory.go:24`).

Modules:

* what a data segment that crosses the end of a memory has before that end is
  overwritten by what was there (`index.go:161`; `SegmentsLoaded` says that nothing
  else is), and the memory is then no longer the exporter's;
* a refused module leaves what it has written in the memory it imported;
* an import of a table without an own table section, a negative offset, and
  imported functions without code or types panic (`imports.go:193-213`);
* an imported function runs in the index space of the importer (`vm.go:105-116`);
  elements of a
  shared table are plain indices of the exporter's space; the types of imported
  functions are recorded as 0, 1, 2 (`imports.go:194`), which EncodeModule writes;
* `get_global` in an initial expression pushes nothing; `NewVM` ignores an
  imported memory and cuts data beyond the initial pages;
* `readSection` takes a module that ends within the length of a section as
  complete and drops the error (`section.go:131-133`); sections may be repeated,
  and what a section has beyond its entries is read as the next section; a
  function body without code panics;
* EncodeModule always writes version 1, custom sections last, and exports of equal
  index in any order.

Logger:

* a restart counts yesterday's file as today's and files on in it (`file.go:148`);
* an error of Stat or of counting the lines comes after the file was replaced:
  LogWrite returns it, the next call writes to the new file with the counters of
  the old one, or the size alone set (`file.go:140-156`, `ReplaceWriter`);
* a goroutine that took its time before midnight rotates the file of the new day
  away (`file.go:76`, `NeedCreateFresh`), and a logger that was idle for exactly a
  month does not see the change of day (`file.go:76`, `DayOf`);
* after a failed rename the sweep may delete the file that is open
  (`file.go:237`; `KeepsCurrent` is stated for runs without a failed rotation),
  and of two sweeps that saw the same old name the second may delete a young
  file that was renamed to it (`file.go:264`, counted in `lost`);
* a message that reads the list while append moves it may combine the old array
  with the new length (`log.go:202`, `torn`); Close and Reset take no lock,
  so that SetLogger may store into a list that is gone (`crashed`), and a
  DelLogger that has read the list before Close puts closed outputs back on it
  (`disturbed`);
* an adapter that Init refuses stays on the list, destroyed, and setting the old
  configuration again is refused (`log.go:152`); adapters are shared by all
  loggers of the process;
* Destroy of Elasticsearch with messages on their way ends in a nil client
  (`elastic.go:134`); `open: false` keeps the client closed until the first message,
  which opens it;
  documents are named by a clock;
* two goroutines may leak a connection, drop a message or panic on a nil
  connection in `conn.go`, whose lock covers only the write.

RLP:

* ListEnd looks at the bytes read: when Kind has read a single byte or an empty
  value at the end, it skips that value (`decode.go:727`, `AtTrifle`);
* `[1]byte{0}` within a list cannot be decoded: decodeByteArray drops the error of
  a zero byte and leaves the value where it is; Raw takes strings of one byte that
  should have been the byte;
* within a recursion `*T` may be cached as good while `T` is refused, depending on
  which was asked for first (`decode.go:415`): its decoder calls a nil function;
* sizes of a stream without a limit are allocated before anything is read.

Numbers and encodings:

* `conv.GetData` says it is safe against overflow, but start + size may wrap around
  and the slice panics (`bytes.go:287-297`); `math.Exp` squares its argument in
  place (`big.go:121`);
* for a public key `getIntermediary` appends to the key itself (`bip32.go:162-165`):
  for a key that Deserialize cut out of a buffer it writes into the buffer, and
  goroutines that derive from one key write the same bytes;
* private and public derivation refuse different indices, and neither refuses a
  left half beyond the order;
* RoundCash(15) takes `10^-n` for a power (`decimal.go:834`); Mod has the sign of
  its argument; UnmarshalJSON resets the value on an error; newFromFloat loses the
  sign of numbers of 19 digits, which a float64 never has;
* numbers of LEB128 have no bound on their length; parseICAP keeps the last bytes
  of an address that is too large and ToICAP does not look at the length of its
  prefix; an alphabet may repeat a character; MnemonicToByteArray splits on single
  spaces, its check on any.

Curves and signatures:

* Normalize loses a carry out of 2^256 that its second pass makes; SetByteSlice
  panics for more than 32 bytes, of which its comment says that the first are
  used; decompressPoint does not look whether its root is one;
* the test of recoverKey that n times a point is infinity always succeeds, since
  splitK of the order is zero twice;
* SM2: PointAdd of a point to itself gives infinity, so Verify reads the sum of two
  equal terms as (0, 0); Sign and Sm2Sign give signatures with r + k = N, which
  no one verifies; the key N - 1 panics; Encrypt of no data never ends; ZA does not
  pad y; Decompress panics for an x without a root, and so does a scalar with
  zeros in front of its 32 bytes.

Hashes and encryption:

* `sm3.Sum(in)` writes `in` into the hash, which goes on with it, and returns the hash
  alone, against its comment (`sm3.go:162-165`);
* the clone of a sha3 state that is being read panics or repeats bytes for rates
  below 168, against its comment (`sha3.go:60-70, 183`); off amd64 every permutation prints a line
  (`keccakf.go:37`);
* the channels of SumSHA256 and HashRipemd160 are never made, so both block for
  ever, and with them a Merkle tree of two hashes (`sha256.go:12-13, 29, 67`); the
  root of no hashes is zero; Merkle and PKCS5Padding append to the caller's slice;
* AesDecrypt of a text that is too short or not aligned recovers from a panic and
  returns nothing and no error; keys beyond 16 bytes are cut.

Certificates:

* chains that buildChains has found under one prefix are used again under another
  (`verify.go:374-380`): Verify may return a chain twice and leave out the direct
  one, or fail because of a limit under the longer prefix although a good chain
  exists;
* CheckSignatureFrom exempts Entrust by the key of the child (`x509.go:938-941`); a
  certificate with permitted domains is refused when no host is asked for; a file
  of roots without a certificate ends the search with an empty pool
  (`cert_pool.go:62-97`);
* with an SM2 key and no SM2 algorithm CreateCertificate and
  CreateCertificateRequest sign a digest where checkSignature verifies the whole,
  and so does every CreateCRL; an ECDSA key with an SM2 algorithm and a request
  with a PSS algorithm do not verify either; MD5WithRSA signs and is refused
  (`SignedVerifies` names the combinations);
* PermittedDNSDomainsCritical is never read back; CreateCertificate leaves the key
  id of the parent in the template (`x509.go:1930-1932`); CreateCertificateRequest
  appends its extensions to the template's own attribute (`x509.go:2297`), so that
  other names in a second request are ignored; an extension that only a later list
  of an attribute has is neither added nor read.

Parts without a model: `memorydb` keeps and hands out the slices of its callers; a
batch of `leveldb` keeps its operations after Write, and Replay returns nil when a
write failed; `StackPool.Len` takes no lock; `IntPool.Put` checks its limit once for
all its arguments.

## What is not modelled

Of wagon: globals and `call_indirect` in the pipeline, the start function,
re-entering a VM from a host function, the arithmetic of real floats. Of the
logger: formatting, levels, `append: false`, write errors of the file adapter. Of
RLP: NewListStream, interfaces, reflection and the parsing of struct tags. Of
the decimal package: powers, trigonometric functions (series over floats), the
codecs for SQL, JSON and gob. Of the cryptography: the constants of the real
curves and the tables of their multiples, the limbs of the SM2 field, the block
cipher and the digests of the Go library, the assembler of Keccak, random
numbers, DER and BER, PKCS 1, 7 and 8.

Not at all: chaindb, the queue and the contract VM helpers, whose operations are
calls of a line on a map, a slice or an external database, so that a model would
restate them; the Elasticsearch client and the HTTP pool, which send requests;
the command line tools. A large part of the repository is data: word lists of
mnemonics, tables of hashes and of the curves.

## Plan

Done: the pipeline, the VM, memory and modules, the logger with its adapters, RLP
with its cache, the pure functions; theorems for every component with a state but
the pipeline. What is left, in this order:

1. `WithinMaxDepth` as a theorem: the depth along a path is bounded by the one the
   disassembler has computed.
2. Globals and `call_indirect` in the pipeline, with tables from `WasmModules`.
3. Write errors and `append: false` of the file adapter.
