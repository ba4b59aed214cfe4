# A TLA+ model of dprint-clang-format

dprint-clang-format is clang-format as a dprint plugin: LibFormat, compiled to a
`wasm32-unknown-unknown` module without imports, behind the dprint plugin ABI
v4. This directory holds TLA+ modules of the repository's own code, TLC
configurations that check them on small instances, and TLAPS proofs that hold
for every value of the constants. `PROJECT.json` ties each definition to the
lines it models and lists runs, theorems, findings and hazards.

Paths are relative to the root of the repository, `src/` being its source
directory. LLVM itself is not in the repository (`scripts/fetch_llvm.sh`
downloads it), and neither is the dprint host.

## 1. Inventory

| component | code | state | operations |
| --- | --- | --- | --- |
| style resolution | `src/dprint_plugin.cpp` 171-317 | none: pure | `parse_bool_value` .. `resolve_format_style` |
| plugin exports | `src/dprint_plugin.cpp` 50-168, 319-591 | shared byte buffer, registered configurations, file path, pending override, formatted text, error text | the exports of the ABI |
| host session | external, as the ABI and `tests/plugin.bats` use it | where the host is in a request | register, release, format a file, give up, restart after a trap |
| `wasm_morecore` | `src/wasm_allocator.c` | `wasm_heap_end`, the linear memory | one call: ask, extend, refuse |
| dlmalloc | `support/allocators/dlmalloc/malloc.c` | chunk headers, bins and their maps, top, designated victim, footprint and its limit, parameters | malloc, free, calloc, realloc, realloc_in_place, memalign and its kin, independent_calloc, independent_comalloc, bulk_free, trim, mallopt, the footprint limit |
| C and C++ runtime | `src/wasm_runtime_core.cpp` | `errno`, `rand_state`, the memory of the caller | memory and string functions, number parsers, 128-bit product, `operator new` |
| libc++ shims | `support/libcxx-wasm/include` | a lock's owned flag, a once flag | `call_once`, `unique_lock`, `condition_variable`, ... without threads |
| preprocessor branch limiter | `support/patches/dprint-wasm-limit-format-pp-branches.patch` | index and count of branches per nesting level | one run per combination, at most 16 |
| LLVM source preparation | `scripts/fetch_llvm.sh` | archive, source directory, patched files on disk, the patches themselves | download, extract, test, patch, over patches that are edited between runs |
| other patches, sysroot, build, tests | `support/patches`, `support/wasm-sysroot`, `CMakeLists.txt`, `tests`, `.mise` | none of their own | |

How they interact. The host calls exports one at a time; the instance has one
thread and no callbacks out of it. Bytes go in and out through one buffer: the
host clears it to a size, writes, and calls a function that takes what is there;
an answer is put there and its length returned. A request is spread over several
calls (`set_file_path`, `set_override_config`, the text, `format`, the fetch of
a result), so everything that makes up a request is process state between them.
`format` resolves a style from the registered configuration and the pending
override and calls LibFormat, which runs once per combination of preprocessor
branches, allocates through `operator new`, dlmalloc and `wasm_morecore`, and
traps when memory is exhausted: the host then continues with a fresh instance.

What is hard here, and what therefore has to be true:

- *order of calls*: state that a call leaves for another (override, path,
  buffer, results) must not reach a request it was not meant for, on any return
  path, after a failure, after a request that was given up, after a trap;
- *two copies of a fact*: the style cached at registration and the one resolved
  again for each request; a result string and the return code that announces it;
- *three sources of options* merged by order alone, with diagnostics on the
  side;
- *machine words*: the end of a 32-bit address space, carries between partial
  products, requests near the largest `size_t`, a number with more digits than
  its type holds;
- *one memory seen by many*: a chunk's flags lie in its own header and in its
  neighbour's, its size in its header and in its neighbour's `prev_foot`, its
  links in memory that was its user's; two heads and a foot have to be kept in
  step through every split and join, by eight functions that each do it their
  own way;
- *limits*: `memory.grow` refusing, a footprint limit, the limit of 16 branch
  combinations;
- *interrupted and repeated work*: the preparation script over whatever an
  earlier run left, with patches that may have changed since.

There are no threads, no locks with an effect, no timeouts and nothing is
persisted by the plugin, so hazards of these kinds do not occur in it.

## 2. Modules

```
Sbrk  <---refines---  WasmMorecore  <-- MCWasmMorecore
                           ^------- WasmRuntimeProofs

FormatStyle <--- StyleResolution <-- MCStyleResolution
     ^                 ^----------- StyleResolutionProofs
     |
     +-- DprintPlugin <-- MCDprintPlugin
     |       ^
     |   DprintSession <-- MCDprintSession
     |       | refines ^-- DprintSessionProofs
     +-- FormatService

MallocSizes <--+-- SmallBins <--+-- Bins <-- MCBins
               +-- TreeBins  <--+    |  ^--- BinsProofs
               |                     | refines
               |                     v
               |  BinOps <------ FreeBins
               |     ^
               +-- MallocState <-- MallocFree <-- MallocVariants <-- Dlmalloc <-- MCDlmalloc
                                                                 ^      | refines
                                                                 |      v
                                        DlmallocProofs --> HeapProofs  Allocator

WideProduct  <--- RuntimeCore <-- MCRuntimeCore
                       ^---------- WasmRuntimeProofs

PPBranchRuns <-- MCPPBranchRuns
     ^----------- PPBranchRunsProofs

FetchLLVM    <-- MCFetchLLVM
     ^----------- FetchLLVMProofs
```

A definition whose comment begins with "Faulty variant" is not part of a
specification. It is what a neighbouring definition would be with a plausible
mistake in the code, and each property of a passing run fails when one of them
takes that definition's place: `PROJECT.json` ("mutants") says which.

### FormatStyle, StyleResolution

`FormatStyle` is `resolve_format_style` and everything below it, one operator
per function: `MergeObjectOptions` for the plugin object and then for the
override, `MergeGlobalOptions` (`lineWidth`, `indentWidth`, `useTabs`, each only
where the clang-format option is not set), `RejectFilesystemStyle`, and the four
returns of `ResolveFormatStyle`. A JSON value is a record tagged by its kind; a
number is kept doubled so that the cast to `int64_t` has a fraction to drop. A
diagnostic is the property it is reported under, its wording is left out.
External, and constants of the module: which strings `strtod` takes to the end
(`NumericTexts`), the spellings that compare equal without case
(`FilesystemStyles`), and `clang::format::parseConfiguration`, which is any
predicate at all. `StyleResolution` draws the three inputs and calls the
function.

### DprintPlugin

One action is one call of an export, whole, with every early return a disjunct
(`FormatInvalidRange`, `FormatUnknownId`, `FormatFound` are the ways through
`format_inner`). The variables are the function-local statics of lines 56-84:
`shared`, `configs`, `filePath`, `overrideConfig`, `formatted`, `error`; `code`
is what the last `format` returned. A buffer's content is a record tagged with
what it is, so the model assumes that the host calls a function that takes bytes
only with bytes of that kind or with an empty buffer (`Holds`); it may otherwise
call anything at any time. `HostSends` is `clear_shared_bytes` together with the
host's writes. Texts are opaque except for a length; `LibFormat` (the include
sorting, `reformat` and `applyAllReplacements`) and `GuessLanguage` are constant
operators, and `LibFormat` may fail.

### DprintSession, FormatService

`DprintSession` adds the host: `step` is where it is, `task` the request it is
working on. It registers and releases configurations and goes through a request
call by call, each fetch being one step and the reading of the buffer another.
A host with `mayTrap` sees calls trap (`operator new` aborts), after which all
state is as at instantiation; one with `mayAbandon` gives requests up between
any two calls.
`FormatService` is what this should amount to, and has neither buffer nor
pending state: ids with their configurations, and an answer that is a function
of the request and of the configuration under its id. The refinement mapping
reads `registered` off the entries of `configs`, and `answer` is a variable of
both. Which requests a host makes, and whether it may give one up or a call may
trap, is a record; `Hosts` is the set of hosts there may be, and one behavior
belongs to one of them.

One assumption is needed and is written down as `HostAssumption`: a host that
gives requests up sets an override, empty if need be, for every request. Nothing
but a `format` or another `set_override_config` clears a pending override, so
without it the override of the request that was given up is applied to the next
one.

### WasmMorecore, Sbrk

`wasm_morecore` with the page size and the address space as constants, so that a
run reaches the end of the address space. Sums and products that are `uintptr_t`
in the code are taken modulo `AddrSpace` where they can wrap. The four outcomes
of a positive size are four actions: the sum would wrap, the memory suffices, it
grows, it is refused. `memory.grow` is external and may refuse anything.
`blocks` is a history variable. `Sbrk` is the contract of a contiguous MORECORE
that cannot trim, as dlmalloc is configured (`src/wasm_allocator.c:3-6`): each
grant starts where the last one ended, and a refusal moves nothing.

### MallocSizes

The size arithmetic of dlmalloc for wasm32: from bytes asked for to the size of
a chunk, alignment, small and tree bin indices, the bit of a size that a trie
branches on. `SIZE_T_BITSIZE` is a constant, and what is `size_t` in the code is
taken modulo `WordSize` wherever it can wrap. TLC's integers have 32 bits, so a
run gives a word 30 of them; every bound in the code that is written in terms of
`MAX_SIZE_T` moves along.

### SmallBins, TreeBins, Bins, FreeBins

The free chunks as the code links them. `SmallBins` has the circular lists
through the chunks and the bins (`insert_small_chunk`, `unlink_small_chunk`,
`unlink_first_small_chunk`, `smallmap`), `TreeBins` the rings of chunks of one
size and the bitwise tries (`insert_large_chunk`, `unlink_large_chunk` with the
descent to a replacement leaf, and the searches of `tmalloc_large` and
`tmalloc_small`). Both write `fd` and `bk` of the same chunks, so `Bins`
composes them over one memory: links a chunk has left over from one bin are
what the other kind of bin finds there. What the program frees and asks for is a
`workload`.

`FreeBins` is what the links amount to: for each size, a sequence of chunks.
The refinement reads the sequences off the rings. `BinOps` holds the two
operators on such functions; `FreeBins` and the allocator above share them, so
that what `Bins` implements is what `MallocState` builds on.

### MallocState, MallocFree, MallocVariants, Dlmalloc, Allocator

One record `m` is `malloc_state`, `mparams`, `errno` and the memory as the
allocator reads it: the head at every address that has one, and `prev_foot`
where it was stored. What a chunk covers loses its heads and feet (`Outside`),
and a head that was never written is `Junk`, its `PINUSE_BIT` being the
program's choice. Each function of the source is an operator from state to
state, under its own name, and `Result` pairs the state with the pointer it
returns:

- `MallocState`: flags and feet, `replace_dv`, `init_top`, `sys_alloc` (which
  asks `MORECORE` to extend the segment within the footprint limit and, refused,
  asks a second time without relying on where the memory will be).
- `MallocFree`: the cascade of `dlmalloc`, `dlfree` with its joins to both
  sides, into top and into the designated victim, `dlcalloc`, `dispose_chunk`.
- `MallocVariants`: `try_realloc_chunk`, `dlrealloc`, `dlrealloc_in_place`,
  `internal_memalign` and what calls it, `ialloc`, `internal_bulk_free`.

`Dlmalloc` has one action per function of the library. A call is one step, since
nothing runs beside it. A `program` is a record with the arguments it may call
with, where its data ends (`heap_base`), and how much memory there is; for each
call `MORECORE` grants the first request, only the second, or none (`Answers`).
In the actions, users free, resize and hand to `bulk_free` only blocks that are
theirs, each once. `ProgramsAssumption` has what the code asks of arguments
without testing it: the sizes that `ialloc` adds up do not wrap, `memalign` can
find a power of two, `pvalloc` can round up. `Corrupted` stands for
`USAGE_ERROR_ACTION` and `CORRUPTION_ERROR_ACTION`, for a second segment, and
for every other branch that such users should not reach.

`Allocator` is what users rely on and has only the live blocks: blocks are
apart by the overhead, aligned, and stay where and as large as they are until
their owner acts.

### PPBranchRuns

The patched end of the loop in `UnwrappedLineParser::parse`. `Parse` is the body
of the loop, which is LLVM's: as the patch relies on it, it extends the two
vectors to the depth of the file, keeping the indices there are, and counts the
branches of each level, the same in every run. `Advance` is the patch:
`TooManyRuns` with its division instead of a product that could overflow,
`GiveUp`, and the popping of spent levels (`DeepestOpen`) before the next branch
is taken.

### WideProduct, RuntimeCore

`WideProduct` is `umul64wide` and `__multi3`, with the width of half a word as a
constant (2^32 in the code). Every sum and product is taken modulo the word, as
`uint64_t` is. `RuntimeCore` extends it with the other functions of
`wasm_runtime_core.cpp` whose loop is not their own definition: `memmove`,
`strtod`, `strtoll` and `strtoull`, and with `parse_number_value` of
`dprint_plugin.cpp`, which decides by `strtod` whether a string is a number. A
text is composed of the parts of a number and something behind it, so that the
properties know what was written; behind it there is nothing, other text, or a
NUL with text after it, as a `\u0000` in a JSON string leaves it. `strtod` yields
an integer and a power of ten where the code rounds; a `strtoll` that overflows,
undefined in C++, yields any value, and so does the sum of an exponent that
overflows its `int`: the number is then multiplied any number of times, or not
at all. The functions return sets of outcomes for that reason.

### FetchLLVM

`scripts/fetch_llvm.sh`, one action per command: the download that is skipped
when a file is there, the extraction that is skipped when a directory is there,
the test of two sentinel files, and for each patch the forward dry run with the
application, or the reverse dry run, or the refusal. The reverse dry run has
`--batch` and no `--forward`, with which `patch` ignores `-R` for a file that is
not patched: it succeeds when each file has the hunks or is as in the archive,
and fails over a missing file or other hunks (`AppliesReverse`). A run may be stopped before
any command (`Interrupt`); curl, tar and patch may also be stopped halfway, and
leave a prefix of what they write (`torn` remembers that one was). `set -e` is
`Exit`. `Run` starts the script again over what is there, and between two runs
`EditPatch` may replace a patch by another of its `Editions`: mise watches
`support/patches` and runs the script again. A patch is a sequence of files with
hunks, and a file holds the hunks that were applied to it; `stale` remembers
that a patch was edited while the tree had hunks of it.

## 3. What the runs check

| run | module, configuration | states | properties |
| --- | --- | --- | --- |
| `morecore` | `MCWasmMorecore` | 767 | `TypeOK`, `HeapBacked`, `LastPageUnreached`, `BlocksDisjoint`, `GrowthIsMinimal`, `ImplementsSbrk` |
| `style_resolution` | `MCStyleResolution` | 75 600 | `SourcesRanked`, `BadGlobalsReported`, `FilesystemStyleRejected`, `ValidityExplained`, `ResolvedIsFixedPoint` |
| `exports` | `MCDprintPlugin` | 117 270 | `TypeOK`, `UniqueIds`, `CacheIsFresh`, `StylesNeedNoFiles`, `ResultsMatchCode`, `OverrideServesOnce`, `OneConfigAtATime` |
| `session` | `MCDprintSession` | 540 856 | `FetchFindsWhatWasAnnounced`, `ServesEachRequestAlone` |
| `bins` | `MCBins` | 4 839 | `WellLinked`, `BestFit`, `ImplementsFreeBins` |
| `dlmalloc` | `MCDlmalloc` | 108 062 | `StateChecks`, `AllMemoryAccounted`, `UsersHaveTheirBlocks`, `FindsFreeMemory`, `FailureChangesNothing`, `LimitIsKept`, `ImplementsAllocator` |
| `pp_branches` | `MCPPBranchRuns` | 14 939 | `RunsBounded`, `AllOrFirst`, `Terminates` |
| `runtime` | `MCRuntimeCore` | 1 980 626 | `ProductIsExact`, `CopiesAreExact`, `NumbersAreRead` |
| `fetch` | `MCFetchLLVM` | 15 190 | `ReadyUnlessTorn`, `ReadyHasNoOldHunks`, `WorkIsKept`, `RerunSucceeds` |

What they show:

- **The heap.** No two calls of `wasm_morecore` hand out the same byte, and none
  a byte outside linear memory, up to and at the end of the address space. The
  product `current_pages * page_size` would wrap on a full memory; it is never
  reached, because the rounding of the last page wraps first and asks for an
  impossible growth (`LastPageUnreached`).
- **Styles.** Each option of a resolved style comes from the source that
  outranks the others (override, `clangFormat`, global), a global option of the
  wrong type is reported under its name if and only if it was needed, a style of
  the file system is rejected wherever it comes from, an invalid result carries
  no half-applied style, and a resolved configuration resolves to itself.
- **Exports.** In any order of calls: one entry per id, a cached style that
  agrees with a fresh resolution, results that belong to the last return code,
  an override that is gone after every return of `format_inner`, and
  registrations that leave other ids alone.
- **Requests.** Through all the shared state, each request gets the answer that
  request alone deserves (`ServesEachRequestAlone`), with traps and with
  requests given up.
- **Bins.** In any order of insertions and removals, of chunks on either side of
  the smallest large size: the lists and rings close, the maps mark exactly the
  bins that hold something, no trie link is lost or dangles, a chunk's path
  agrees with its bits, and the searches find the best fit although a trie is
  not sorted. `ImplementsFreeBins` adds that a bin holds exactly what was put
  there, in order.
- **The allocator.** After any sequence of calls, granted or refused:
  the checks of the source's own `do_check_malloc_state` hold
  (`StateChecks`, which also says that no run-time check fails and that a second
  segment never arises); chunks tile the segment and every free chunk is in its
  bin, is the designated victim or is top, once (`AllMemoryAccounted`); a
  user has the bytes and the alignment that were asked for; malloc overlooks
  no free chunk and no better fit; a call that runs out of memory has left
  everything as it was, the old block of a realloc included; and a limit that
  was set is kept. To the users all of it is `Allocator`.
- **Branches.** A file is formatted 16 times at most. Up to 16 combinations,
  each is formatted once; over it, the file is formatted with the first branches
  only (`README.md:64-66` announces the difference), never with an arbitrary
  part.
- **Runtime.** No carry is lost, whatever the signs. A copy between overlapping
  regions leaves at the destination what was at the source and nothing
  elsewhere. A number is read up to its end with its value, and with its power of
  ten if the exponent fits an `int`; a string is accepted as a number only if
  nothing is behind the number, or a NUL.
- **Preparation.** With stops between commands only, and patches edited only
  before they are applied, running the script again always ends ready and
  complete. With stops anywhere and any edits, "ready" still means that each file
  of each patch is there and has the hunks of the patch as it is now, or none
  (that it has them is refuted: section 4); and no run undoes work.

### Bounds, and why they suffice

- `morecore`: five pages of four bytes, two at first, so sums that pass the last
  address, a memory that is one page short of the whole space, a growth by
  several pages and a refusal of each are all within reach; every `ptrdiff_t` is
  tried. The host's limit lets the memory fill the address space, the worst
  case. The theorems of section 5 cover the real sizes.
- `style_resolution`: for every key a value of the right type, one spelled as a
  string, one of the wrong type, null and absent where they matter, on top of
  each other in three objects: 37 800 combinations. Keys do not influence each
  other except through `ParseConfiguration`.
- `exports`, `session`: two ids, so that one can be disturbed by the other; four
  payloads and four overrides, one for each way a resolution can end (accepted,
  rejected here, refused by clang-format, not JSON); paths with and without a
  backslash; texts of length 0, 1, 2 and offsets below, at and past the end. The
  session has two hosts: one that finishes its seven requests, sets an override
  only when it has one, and sees traps; and one that gives its four requests up
  anywhere.
- `bins`: five chunks, interchangeable (a symmetry set), and three workloads:
  two small bins; eight large sizes, five of which share a tree bin and part at
  different depths, one next to it, and two whose paths run along all bits; and
  four sizes around the smallest large one, for chunks that move between the two
  kinds. Five nodes are enough for a replacement leaf two levels down, for a
  ring under an inner node, and for a best fit in a subtree that the search
  leaves and comes back to.
- `dlmalloc`: ten programs, since all arguments together would not be
  checkable: a heap of 456 bytes that cannot grow, with blocks of 20 and 300
  bytes and all of malloc, free, calloc and realloc; blocks of 244, 252 and 500
  bytes, on either side of the smallest large size; several blocks by one call;
  requests on either side of every bound on them (`HALF_MAX_SIZE_T`,
  `MAX_REQUEST`, `MAX_SIZE_T`) with all the memory a pointer reaches; and, from a
  start that is too small for a heap and from one, unaligned, just large enough,
  growth, alignments and parameters. At most two to four blocks are live at a
  time (`max_live`), which is enough for a free chunk between two used ones, and
  `bulk_free` gets up to three. A page has 4096 bytes, and the break starts at
  8192. `MaxMemory` bounds only what programs may be given.
- `pp_branches`: all nestings of up to four levels with up to five branches, and
  some of one to six levels around a product of 16. The limit is the code's own.
- `runtime`: 2-bit halves, which is wide enough for the middle sum to carry, and
  every pair of operands; every copy within seven bytes; 49 140 texts with every
  part of a number there or not, up to two digits in each, read into a 6-bit
  `long long`, the exponents into a 4-bit `int`, so that both overflow, with
  nothing behind the number, a letter, or a NUL and a letter.
- `fetch`: three patches, two of which change several files, in an archive whose
  end no patch and no sentinel covers; three failures (`MaxFailures`), enough to
  stop the download, the extraction and a patch each once; two edits
  (`MaxEdits`), each of which drops a file, adds one or changes hunks. The
  theorems of section 5 have no bound.
- `runs` in `PPBranchRuns` is the only other counter that is capped, one above
  the value the code should reach.

### Fairness and deadlock

- `PPBranchRuns`: weak fairness of `Next`. The loop is straight-line code that
  nothing can block, and one parse of a finite file returns.
- `FetchLLVM`: weak fairness of `Run` and of `Step`. A command that runs ends,
  and mise starts the script again before the next task (`mise.toml`,
  `deps.llvm` with `auto`). No fairness is given to failures and edits, of which
  there are `MaxFailures` and `MaxEdits` at most. `RerunSucceeds` excepts what
  the script cannot recover from, a torn command or a stale patch.
- Everything else is safety and has no fairness: a host may always stop calling.
  That each export returns is a matter of LibFormat, which is not in the
  repository. A call of the allocator is one step and always returns in the model
  (but see `memalign` in section 4).

`CHECK_DEADLOCK FALSE` is set where a function returns for good
(`MCStyleResolution`, `MCRuntimeCore`, `MCPPBranchRuns`) and nowhere else.

## 4. Findings

Three runs are expected to fail.

1. `filesystem_override` (`FilesystemOverrideRejected`): `README.md:60-61` says
   `BasedOnStyle: "file"` is rejected. In a request's override it is ignored:
   `style_for_format` falls back to the registered style and drops the
   diagnostic (`src/dprint_plugin.cpp:416-420`), and `format` reports success.
   It never reaches LibFormat, though (`StylesNeedNoFiles`, proved).
2. `fetch_incomplete` (`ReadyIsComplete`, without edits): an extraction that is
   stopped after the two sentinels and the patched files is never resumed;
   the next run says "LLVM source ready". A truncated archive has the same
   effect.
3. `fetch_unpatched` (`ReadyIsPatched`, without edits): a patch of several files
   that is stopped between two of them is never finished. The forward dry run
   fails over the files that are patched, and the reverse one passes over those
   that are not (`fetch_llvm.sh:32`, `--batch` without `--forward`), so the next
   run says "already applied" and "LLVM source ready". An edit that makes a patch
   change a further file has the same effect. What the script does keep is
   `ReadyHasNoOldHunks`: a file of a patch is never missing or left with the hunks
   of an earlier edition where it says ready.

Met while modelling, and modelled as the code has it where it is modelled,
without a run of their own. The first is up to what a host sends; of the others,
only the second and the last are reached from code in the repository.

- `parse_register_payload` writes "Missing plugin config object" into a vector
  that `register_config` reads only when the payload does not parse
  (`src/dprint_plugin.cpp:361`, 523-532), so that a payload without "plugin" is
  registered without a diagnostic, as `RegisterConfig` has it.
- `strtod` passes over spaces, a sign, a point or an `e` without having read a
  digit, so `parse_number_value` accepts a blank text, `"."` and `"-"` as
  numbers. It tests for a NUL at the end of the number and not for the end of
  the string (198-202), so that text behind a `\u0000` is accepted unread; and
  an exponent that does not fit an `int` overflows while `strtod` sums it up
  (`wasm_runtime_core.cpp:298-301`). `NumbersAreRead` says what is accepted, and
  which exponents count.
- `strtoll` has no overflow check (`wasm_runtime_core.cpp:211`), the text of the
  least `long long` overflows too; `strtoull` returns 0 on a minus sign; neither
  sets `errno`. `modf` (:390) rounds negative numbers down instead of towards
  zero, `qsort` (:135) does nothing, and the `operator new` with an
  `align_val_t` ignores it.
- `dlmalloc_set_footprint_limit` rounds by a granularity that is 0 before the
  first malloc, so that the limit becomes 0, which stands for none
  (`malloc.c:5445`, against the comment at 1013). A limit of 0 means none at any
  time, because the second `if` of the function is no `else` (5440-5445; the
  comment says "Use minimal size").
- `dlpvalloc` wraps to a request of 0 bytes near the largest `size_t` (5383,
  against 1207), and `memalign` never returns for an alignment above 2^31 that
  is no power of two (4926-4927), which is why the model's alignments are small.
- An edit that only drops files from a patch leaves their hunks in the tree: the
  rest is found "already applied" and the script says ready. `ReadyUnlessTorn`
  excepts it by `stale`.

## 5. What is proved

All of it by TLAPS, from the named assumptions on the constants and nothing
else.

**WasmRuntimeProofs, wasm_morecore** (from `SizesAssumption`: sizes are positive, the initial
memory is smaller than the address space, `HeapEnd0` lies in it). `TypeCorrect`,
`HeapAlwaysBacked`, `CurrentEndNeverWraps`, `GrantsAreDisjoint`, `NoPageTooMany`
and `MorecoreImplementsSbrk`, for every page size and address space.
Disjointness is not inductive: a new block must not overlap the old ones. `IInv`
adds that every block lies below the break (`BlocksBelowBreak`), that the break
is backed, and `LastPageUnreached`, without which the comparison with
`current_end` means nothing. `RequestedEndExact`, `CurrentEndExact` and
`GrowthExact` first show that, under `IInv`, the wrapping expressions have their
unwrapped values whenever memory.grow succeeds. The refinement maps
`ExtendInPlace` and `ExtendByGrowing` to `Grant`, `Query` to `Ask` and the rest
to `Refuse`.

**StyleResolutionProofs** (from `NumericTextsAssumption` and
`GlobalsAssumption`: what is consulted is JSON). `SourcesAreRanked`,
`FilesystemIsRejected`, `ValidityIsExplained`, `BadGlobalsAreReported` and
`ResolvedStaysFixed` for all objects and for any `ParseConfiguration`.
The invariant, `ResultInv`, only says that a result is the
function's; the work is in lemmas that follow a merge through its steps: what
each leaves alone (`Agree`), that diagnostics stay a sequence of names, and the
four cases of the function (`ResolveCases`).

**DprintSessionProofs, the plugin** (from `SetsAssumption`). `TypeCorrect`, `IdsStayUnique`,
`CacheStaysFresh`, `NoStyleNeedsFiles`, `ResultsAlwaysMatchCode`,
`ConfigsAreIndependent` and `OverridesServeOnce`, for any number of
configurations and any LibFormat.
`TypeOK` says of an entry that some payload registers it. `IInv` is `TypeOK`
with `UniqueIds`: `release_config` erases one entry, so that "a released id is
unknown" needs that there was one, and that `find_config` and the erasure mean
the same one. `CacheIsFresh` and `StylesNeedNoFiles` follow from the type of an
entry and the lemmas on `ResolveFormatStyle`.

**DprintSessionProofs, the session** (from `HostAssumption`, `RequestsAssumption`,
`SetsAssumption`, `PathsAssumption`). `SessionImplementsService`: the plugin
with its host implements `FormatService`, for all hosts, requests, configurations
and texts; and `FetchesFindTheirResult`. The invariant, `SInv`, is the plugin's
`IInv` with what each step of a request leaves to the next: the buffer holds
what the host just wrote (`BufferKnown`), the path is the request's from the
call that sets it until it is formatted (`PathKnown`), so is the override, and a
host that does not set one for every request leaves none behind either
(`OverrideKnown`, where `HostAssumption` is used), and the results are the
answer that is being fetched (`AnswerKnown`). `FormatAnswers` then shows that a
`format` whose inputs are the request's gives that answer, and each call of an
export maps to a service step or to a stutter.

**FetchLLVMProofs** (from `MembersAssumption`, `HunksAssumption`,
`PatchesAssumption`, `PiecesAssumption`, `FilesAssumption`). `ReadyIsNotOutdated`
(that `ReadyHasNoOldHunks`), `ReadyMeansComplete` and
`NoWorkIsLost`, for every archive, all patches and any number of failures and
edits. Ready needs `Progress`: the patches before `next` have passed one of the
dry runs (`Passed`), so that each of their files has its hunks or none, and has
them if no command was torn and no patch stale (`Applied`); a later patch undoes
neither, because no two change the same file.
`ReadyUnlessTorn` needs more (`NoFilesElsewhere`, `AllOrNothing`): without torn
commands and stale patches a directory that is there is whole, a patch is
applied to all of its files or to none, and no other file is changed. An edit
keeps this because a patch that is replaced had not been applied.

**WasmRuntimeProofs, the library** (from `HalfAssumption`, `OperandsAssumption`,
`MemoryAssumption`, `NumbersAssumption`, `RestsAssumption`,
`LongLongAssumption`, `IntValuesAssumption`). `Multi3Multiplies`: exact for every width. The argument: no
partial product and no middle sum exceeds a word (`PartialProductFits`,
`MiddleFits`), so the halves add up to the product of two words
(`WideProductIsExact`); in `Multi3` the terms that are dropped are multiples of
the modulus; and a signed operand differs from the unsigned one by a multiple of
it (`SignedProductAgrees`). `MemmoveIsExact`: for every memory and all ranges,
overlapping or not; by induction over the bytes copied, in either direction
nothing that is still to be read has been written. `NumbersAreReadWhole`: for
numbers with any number of digits, and powers of ten whose exponent fits an
`int`: for the others `PowerOf` is a set, and only the digits and the end of the
number are claimed. The value of a numeral is stated as the sum of
its digits, each times the power of ten of its place; the loop of the code
reaches it by multiplying as it goes (`NumeralIs`), and `strtod` by going on
behind the point with the value before it (`GluedValueIs`). That the loops end
where the parts of the number do (`ParsedOfLaid`) rests on what may stand at the
start of each part when those before it are missing (`SeenOfLaid`), the rest of
the text included: `RestsAssumption` says only that what follows a number does
not begin with a character a number may go on with; a NUL may.

**PPBranchRunsProofs** (from `FilesAssumption`, `LimitAssumption`). `RunsAreBounded`
and `AllCombinationsOrTheFirst`, for files of any depth, any number of branches
and any limit. The invariant, `LoopInv`, says that the combinations that ran are
those before the present one in lexicographic order (`Before`), which is the
order in which the reverse loop of `calculateBranchesForNextRun` counts; its
successor is the next one (`FirstDifference`, `Successor`), and only
the last has none. The number of combinations is the product that the limit
looks at (`TooManyIsMore`), for which the product has to be followed level by
level, up to where it stops because the limit is passed.

**HeapProofs, DlmallocProofs** (from `WordAssumption`, `SystemAssumption` and
`ProgramsAssumption`): the allocator, for every word width, page size, amount of
memory and start of the heap, every program, any number and size of blocks, and
whatever `MORECORE` answers. All seven properties of run `dlmalloc` are theorems:
`ChecksFindNothing`, `NoMemoryIsLost`, `BlocksAreTheUsers`, `FreeMemoryIsFound`,
`FailureIsHarmless`, `LimitsAreKept` and `MallocImplementsAllocator`.

- *The invariant.* None of the seven is inductive: what `dlfree` does to a
  chunk depends on what its neighbours' flags and feet say, and on which bin
  they are in. `IInv` says that there is a function `sz` from the starts of all
  chunks to their sizes that tiles the segment up to its foot (`Tiling`), and
  then, in terms of `sz` and of the set of chunks in use, what each part of the
  memory holds: no heads but theirs, with the right flags (`Heads`), a foot
  behind each free chunk, no two free neighbours, each free chunk but dv and top
  in the list of its size and nothing else there (`BinsOK`), the segment ending
  at the break and counted in the footprint (`Segment`), the parameters in their
  ranges (`Params`). The chunks in use are those of the users' blocks (`Owned`),
  which are as large and aligned as they were asked for (`BlocksIn`). Before the
  first call there is no heap (`NoHeap`). `sz` is no variable and is not a
  bounded set either, so that TLC cannot evaluate `IInv`; the seven properties,
  which it does check, say the same of what `traverse_and_check` walks over.
- *Inside a call* the invariant does not hold: while `dlfree`, `dispose_chunk`,
  `try_realloc_chunk`, `internal_memalign`, `ialloc` and `internal_bulk_free`
  join and split, one chunk is a hole (`Hole`, the argument p of `Layout`) which
  is neither free nor in use and whose head may be wrong. Each operator of the
  model has a lemma that says what it does to the layout and to the hole, and
  each function of the source one that says how it ends: `Serves` or `Grants` (a
  new chunk in use), `Fails` (nothing changed but what `MORECORE` is asked
  next), `Gives` (these chunks are in use, each at least as large as it was).
- *The actions* then are a change of the blocks that the abstract allocator
  allows too (`Goes`: some more, some less, or one for another), and the
  refinement and `FailureChangesNothing` follow from it. `StateChecks` and
  `AllMemoryAccounted` need that the walk of `traverse_and_check` from chunk to
  chunk visits `DOMAIN sz`, no more and no less (`WalksBy`). `FindsFreeMemory`
  follows the cascade of `dlmalloc`: where it gives up, dv, top and every bin
  are too small (`Exhausted`).
- *Arithmetic.* Sizes and addresses are words. That no sum or difference in a
  reachable state wraps, and that each test for it (`MAX_REQUEST`,
  `asize <= nb`, the footprint, `n_elements * elem_size`) finds the requests
  that would, is part of the lemmas.

The proofs use `Dlmalloc` as it is, over bins that are lists by size
(`BinOps`). That `smallbins`, `treebins` and their maps implement these lists is
the theorem `BinsImplementFreeBins` of the next module.

**BinsProofs** (from `WordAssumption`, `BinsAssumption` and `PowersAssumption`):
the bins as the code links them, for any number of chunks, any sizes, and any
order of insertions, removals and allocations. The three properties of run
`bins` are theorems: `BinsAreWellLinked`, `MallocFindsBestFit` and
`BinsImplementFreeBins`.

- *The invariant.* `WellLinked` speaks of each chunk and its neighbours, as
  `do_check_smallbin` and `do_check_treebin` do. It is not inductive: that a
  ring closes after a chunk has left it needs that the ring goes through every
  chunk of its size once, and that a replacement leaf may take a node's place
  needs that the bits of its size lead there along a path of any length.
  `HoldLists` says that there are lists `L`, one for each size, and depths `dp`
  of the nodes of the tries, such that (`Good`) every chunk in a bin stands in
  the list of its size, once (`Lists`); each list is linked to a ring, through
  its bin if it is small (`Links`); `smallmap` marks the lists there are
  (`Marks`); the first chunks of the large lists are the nodes of the tries
  (`Trie`), each at the place its bits lead to, below its parent or at the root
  of its bin; and the other chunks of a large size are in no trie (`Chained`).
  `BinsHoldLists` is the theorem that this is so in every reachable state.
  `L` and `dp` are no variables and are not bounded, so that TLC cannot evaluate
  `HoldLists`; `ImplementsFreeBins`, which it does check, says much the same.
- *The tries.* No two nodes stand at the same place (`PlacesAreUnique`), a node
  has ancestors at every depth (`AncestorAt`), and so no trie is deeper than
  there are chunks (`DepthIsBounded`), which is why the loops end. The path of a
  size finds its node (`PathFinds`) or ends above the free place for it
  (`PathEnds`). The changes a step can make are a first root, a new leaf, a leaf
  that goes and a chunk that replaces another (`GrowsRoot`, `GrowsLeaf`,
  `LeafGoes`, `MovesUp`), and each keeps `Trie`; the replacement is a ring mate
  or the leaf at the end of the descent (`ReplacementIs`).
- *The rings.* `RingGrows` and `RingShrinks` are about any circle of nodes, with
  or without a bin in it. With the tries they make `ListsAreKept`: every action
  appends a chunk to a list, removes one from it, or leaves the lists alone.
- *The searches.* All sizes below a left child are smaller than all below its
  right sibling (`TurnsOrderSizes`, on the bits of `compute_tree_index` and
  `leftshift_for_tree_index`), but a trie is not sorted: a node may be larger or
  smaller than what is below it. The loop of `tmalloc_large` over the bits of
  the request maintains `Following`: no chunk of the bin is better than the best
  so far unless it is below `t` or ahead of the walk that will start at `rst`;
  the walk to the left maintains `Trying`. Hence `BestLargeIs` and
  `BestSmallIs`: both find a node of the least size that fits.
- *The refinement.* What `FreeBins` sees, the lists read off the rings from the
  bin or from the node of the trie on, is `L` (`GoodBins`). So a step of the
  lists is a step of `FreeBins` (`StepsAreAbstract`).

`BinsAssumption` says that the bins are no chunks, that `Null` is neither, that
chunks are finitely many and that sizes are those of chunks, aligned and below
the word. `PowersAssumption` says that powers of two double, which the provers
know of no exponent that is not a literal.

There is no induction rule that the provers could use, so the proofs that need
one (`MemmoveIsExact`, the digits of a number, the runs over branches, the loops
of `ialloc` and `internal_bulk_free`, the walks through tries and rings) state it
of sets of numbers: `LeastElement` (a set of
natural numbers that is not empty has a least element, from the library's
theorem that strict inclusion of finite sets is well-founded) and `Induction` (a
set that has 0 and with every n also n + 1 has all natural numbers). A recursive
function is unfolded by exhibiting a function that satisfies its equation. Each
proof module has these and the facts about quotients it needs in a section of
its own.

Only model-checked: `Terminates` and `RerunSucceeds`. Liveness under fairness,
and ENABLED, are out of the prover's reach. Every other property of a passing run
is a theorem.

## 6. What is not modelled

- LLVM and LibFormat: not in the repository. What the code relies on are
  constant operators.
- The text of JSON, of messages and of styles; `style_for_format`'s file name
  beyond its slashes. JSON parsing is reduced to whether it succeeds.
- `int64_t` limits of the cast in `merge_global_options`: numbers are unbounded
  here.
- dlmalloc: what the build leaves out (mmap, locks, mspaces, `mallinfo`,
  `malloc_stats`, the inspector); `add_segment` and `prepend_alloc`, which
  `ChecksFindNothing` shows are never reached while `MORECORE` is `wasm_morecore`; the
  content of blocks, so that `realloc` copies and `calloc` clears by assumption.
  `Dlmalloc` is not composed with `WasmMorecore`: it takes from it that grants
  are contiguous and refusals change nothing (`ImplementsSbrk`).
- `wasm_runtime_core.cpp`: the functions whose loop is their definition
  (`memset`, `memcpy`, `strlen`, `strcmp`, the character classes) and the stubs
  (`qsort`, `printf`, `strtol`, `getenv`); `operator new` only as `Trap` of the
  session.
- The libc++ shims (`call_once`, `unique_lock`, `condition_variable`, `future`,
  `thread`): nothing in the repository calls them, so the order in which they
  are used, on which everything about them depends, cannot be read off the code
  here. `call_once` sets its flag before it runs the function
  (`mutex:27`), so a call that comes back to it returns with the work half done;
  `condition_variable::wait` returns with its predicate false.
- The other patches (stubs that fail or do nothing), the sysroot (declarations),
  the build, the benchmark, the tests and the continuous integration.
- In `FetchLLVM`: the content of files beyond missing, original and the hunks of
  one patch, fuzz and offsets of `patch`, two patches on one file, and a file
  cut short while it is written, which counts as missing.

## 7. What is left

What could be added, most useful first:

1. **`Dlmalloc` over `WasmMorecore`** in one module, in place of the contract
   between them.
2. **The libc++ shims**, once there is a caller in the repository to take the
   order of calls from.
