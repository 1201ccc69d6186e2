# A verification project for luajit2-flame-rs

luajit2-flame-rs samples a process that runs LuaJIT and draws flame graphs of
its Lua and native stacks. BPF programs in the kernel capture each sample; a
Rust program receives the events, puts the two halves of a sample together
again and counts stacks. Between the two lie probes that are attached while the
target runs, memory that the target is writing, lossy rings, and a loop that a
signal may end at any point. This directory models that path in TLA+, checks it
with TLC on small instances, and proves what can be proved for all instances
with TLAPS.

- `tlc -config X.cfg M` checks module `M`; the runs are listed below.
- `tlapm M.tla` checks the proofs of module `M`, one of the `*Proofs` modules.
- `PROJECT.json` ties every definition to the source lines it stands for, every
  property to a mutation of the model that breaks it, and every hazard of the
  code to the properties that guard against it.

## The system

```
   target process                        kernel                        profiler (src/main.rs)
 lua_resume, lua_pcall --uprobe--> handle_entry_lua  --+
 lua_yield, and returns -uretprobe> handle_return_lua -+-> lua_states
                                                             |
 lua_State stack, registers <--- do_perf_event (every CPU) <-+
                                   | next_seq, seq_map
                                   | one native event --> ring of the CPU --> handle_native
                                   | a Lua event per frame -> ring -------> handle_lua
                                                                       SIGINT, deadline
                                                                       finalize: fold by key
```

| Component | State | Operations | What makes it correct |
|---|---|---|---|
| lua_State tracking (`bpf/profile.bpf.c:417-459`, `main.rs:120-137`) | map `lua_states`: thread -> pointer, depth | entry and return handlers, attachment of five links | a thread has a slot exactly while it is in a hooked call, and it names the state the thread runs |
| Sampler (`profile.bpf.c:340-415`) | map `seq_map`; per-CPU scratch | draw a sequence number, output one native event, walk | keys are nonces; one native event, levels in order |
| Stack walker (`profile.bpf.c:91-293`, `lua_state.h`) | locals over the target's memory | read a frame, output it, follow its link | it never leaves the stack, ends, and over a sound stack finds exactly the functions in progress with the lines they are at |
| Perf event arrays (kernel, libbpf) | a ring per buffer and CPU | output, poll, read, free | bounded; refused events are the only losses |
| Aggregator (`main.rs:139-316`) | `Pending`, `EXITING`, the statistics | build readers, poll, handle, drop, fold | no event lost, doubled or filed wrongly; ends when told to |
| Folding (`main.rs:318-470`) | none | order frames, replace unresolved native ones by Lua frames | the stack of a sample is its own, outermost first |
| Native snapshot and DWARF unwinding (`profile.bpf.c:302-338`, `unwind.rs:125-165`) | scratch event; unwinder cache | copy the stack in chunks, truncate, unwind with a fallback | the bytes used are the bytes of this sample |
| Native modules (`unwind.rs:45-360`), LuaJIT symbols (`syms.rs`) | the unwinder's modules, made once at start | parse maps and ELF, load bias, address range, file offsets | every image has one module with its own bias and pages; a uprobe lands on its symbol |
| Perf event opening, start-up, output, build, tests | - | system calls, formatting | - |

The parts meet in few places. The handlers and the sampler share `lua_states`,
but always for the thread that is running, so each handler is one step. The
sampler and the aggregator share the rings and nothing else. The walker shares
the target's memory with the target.

What is hard here:

- **Concurrency.** Programs on other CPUs append while main reads; a poll can
  see a sample's native event and half of its Lua frames. Links and readers
  come into being one by one while the target runs and the clock fires.
- **Loss.** Every output may be refused, every map update may be refused, and
  the code ignores all of the results.
- **Memory that changes.** The walker reads a stack that may be inconsistent or
  freed, and must not trust a word of it.
- **Ordering and shutdown.** The loop ends without draining the rings.
- **A snapshot of the target.** Its maps are read once and its files from paths;
  it loads, unloads and upgrades files before and after.
- **Limits.** Maps of fixed capacity, a wrapping sequence number, a depth that
  restarts at 0xffff, MAX_LUA_DEPTH frames.

## Modules

| Module | Models | Constants that bound it |
|---|---|---|
| `BpfMap` | a BPF hash map: a new key is refused when it is full, callers ignore that | capacity, as a parameter |
| `LuaStates` | `handle_entry_lua`, `handle_return_lua`, the link order of main, the calls of the target | MaxNesting, MaxUnmatched |
| `LuaWalk` | `walk_lua_stack`, `emit_lua`, `get_frame_pc`, `get_lua_line`, over a stack that a model of the LuaJIT VM builds and that can be torn | MaxStack, MaxReturns, TornLinks, MaxTorn |
| `NativeSample` | the native part of a sample: the copy of the user stack, the event, the unwinder's reads and loop | MaxSamples |
| `PerfBuffers` | the rings: operators that `Sampler` and `Aggregator` build their actions from | Capacity |
| `Sampler` | `do_perf_event`, `next_seq`: one run of the program per CPU, a step per output | MaxSamples |
| `Fold` | `build_stack`, `fold_symbolized_stack`, `format_lua_frame`, as operators that `Aggregator` folds with | - |
| `Lists` | the sort and the concatenation that `Fold` and `Correlation` put stacks together with | - |
| `Aggregator` | main from the readers to the folded stacks, SIGINT, the deadline | - |
| `Arrivals` | abstract: how the parts of samples reach the profiler, without programs, rings or polls | - |
| `Correlation` | abstract: `Arrivals` and the profile that is written of what arrived | - |
| `Profiler` | `Sampler` and `Aggregator` joined by `PerfBuffers`; the properties of the pipeline; that it implements `Arrivals` and `Correlation` | - |
| `NativeModules` | `UserUnwinder::new`, load bias, module range, `vaddr_to_file_offset`, over a target that loads, unloads and replaces files | MaxImages |
| `MCLuaStates`, `MCLuaWalk`, `MCNativeSample`, `MCNativeModules`, `MCProfiler` | instances for TLC | |
| `HelperProofs` | lemmas on the map operators, on Min and Max, on the recursive functions of `Lists` | none: all constants arbitrary |
| `LuaStatesProofs`, `LuaWalkProofs`, `NativeSampleProofs`, `NativeModulesProofs`, `ProfilerProofs`, `ArrivalProofs`, `CorrelationProofs` | theorems | none: all constants arbitrary |

### How state and actions correspond to the code

*LuaStates.* `lua_states` is the map. `calls` is what the target does: each
thread's open `lua_resume` and `lua_pcall` calls, with the state each runs.
`Enter`, `Yield` and `Return` are the target's steps and run the handler that is
attached. A call is hooked for good, or not, when it starts, as the kernel does
it with return instances. Threads outside the process with pid `targ_pid` hit
the uprobes as well, and the handlers ignore them: those links are attached with
pid -1. `AttachLink` is main; if an attachment fails main returns and the maps
go with it, which is the behaviour stopping there. A NULL `lua_State` is not
passed to the API. `Exit` is a thread that ends inside its calls: no return
fires, the entry stays, and the number may be given to a new thread, which starts
from that depth. The calls it had open are counted in `unmatched`, with those
that started between the attachment of the entry and of the return probe.

*LuaWalk.* A frame `f` is the slot that holds its link; its function is in
`f - 1`, its base at `f + 1`, as in `frame_gc` and `frame_ftsz` for GC64. A slot
is read as an object and as a link, so memory is two values per slot. The VM's
steps write frames the way LuaJIT does: `CallFromLua`, `CallMeta`, and
`CallFromC`, which may call on top of anything, also directly on top of a Lua
function as a finalizer, a hook or an error handler does. `Leave` is a return. It
leaves the slots as they are, and `L->base`, which the interpreter keeps in a
register (`TopBase`) and writes for C functions and before some helpers
(`SaveBase`): so `L->base` may be the base of an outer call, or one left from a
call that has returned. `Interrupt` is the part of `walk_lua_stack` before the
loop, `WalkStep` one iteration. `Tear` overwrites one slot, `L->base` or
`jit_base` with anything, at any time up to the end of the walk. Memory changes
between iterations and not inside one; the code reads a link more than once in an
iteration, but what it bounds and then follows is one value.
Abstractions: addresses are whole slots (the code's alignment check and
address wrap-around have no counterpart); `FRAME_C`, `FRAME_CP`, `FRAME_PCALL`
and `FRAME_PCALLH`, which the walker treats alike, are one type; a builtin is a
C function; `g->cur_L` naming another state is `jit_base = 0`; positions run from
1 to `SizeBc` in every function, and a bytecode address inside another function
is a position past the end; position `p` is on line `p`, and of the lines that are
no position, `FirstLine` is the function's first line and `NoLine` the 0 that the
code reports for a C function and for a Lua function without line numbers
(`Stripped`: `lineinfo` is NULL); the 32-bit layout is left out.

*NativeSample.* `Capture` is the native half of `do_perf_event`, with the scratch
event it reuses; `bpf_probe_read_user` zeroes what it could not read, so how many
bytes can be read from `sp` on decides everything. `Deliver` is
`native_event_from_bytes`, `from_event` and the early returns of `unwind`;
`ReadWord` is a word framehop asks for, at any address, and `Unwind` the loop.
`ip == 0` and `sp == 0` are one case. Perf pads a raw event by four bytes that it
does not write, so an event without a stack is longer than its prefix.
`Aggregator` has one value for the addresses of a sample, unwound or fallback,
and models of `handle_native`'s choice between them only how it is counted. An
event that is lost is one that is captured over before it is delivered.

*Sampler.* `TakeSample` is `do_perf_event` up to the walk: sequence number, map
update and native output are one step, because the rings they touch are only
appended to by this CPU. Each Lua frame is a step (`EmitLua`), and a reader may
run in between. The walk is the number of frames it outputs. `targ_pid` is part
of every key and left out.

*Aggregator.* `pc` is the line of `main` it is at. `Poll` is the wait, with the
CPUs readable at that moment; `StartRead` takes a CPU and snapshots the end of
its ring, `HandleNative` and `HandleLua` handle one event, and the space is freed
when the last event of the snapshot has been handled, as libbpf does it. A poll
interrupted by a signal returns an error that the code ignores: it looks like the
timeout. Whether the unwinder succeeds on a sample is a choice of
`handle_native`; it decides which statistic counts the sample, and not which
addresses are stored, of which the model has one value. `Finalize` folds, with
`Fold`. An address of a native stack is a model value that has a native function
symbol (`Named`) or not, or is 0; a Lua frame is its level, and the frame of a
level in `Nameless` has neither line nor name to show. `FoldFrame` is one turn of
the loop of `fold_symbolized_stack`: the symbol of the address, else the next Lua
frame in its place (which is used up even if it shows nothing), else "[unknown]";
Lua frames left over follow at the leaf. Whether an address has a symbol does not
change between the sample and the fold, which is where a live process could
differ. Before `install_ctrlc` SIGINT kills the profiler, and a failing build
returns from main: both are the behaviour stopping there.

*Arrivals, Correlation.* The abstract state is what a reader of the profile could
be told at any time: the samples taken, those whose native half has arrived, the
Lua levels that have, and the profile once it is written. In `Arrivals`, which is
without the profile, a step takes a sample, lets a native half arrive that had
not, lets a Lua frame arrive that is above those before it, or writes;
`Correlation` adds what is written. `Profiler` implements both with `samples <-
taken`, `arrived` the samples that are neither lost nor unread (`Counted`),
`frames` the levels output, not lost and not unread (`CountedLevels`), `written
<- pc = "done"` and `profile <- folded`. `StackOf` is written independently of
`Fold`: it says which position of a stack shows what, by counting unresolved
addresses, where the code loops with an accumulator. A lost event is a stutter,
and so is a poll.

*NativeModules.* `elf[f]` is the file the target maps, `disk[f]` what the path
holds when the profiler reads it (`Replace`: deleted, upgraded, or another file
through another mount). `Gone` is a path that cannot be read, and the mapped file
is read instead; a path whose file is no ELF file is a layout without segments or
unwind data, and gives no module. That `/proc/pid/map_files` cannot be read
either is left out: it gives no module, as such a path does. A file is one
`FileId`. `Load` and `Unload` are the loader, which puts segments at whole pages
and images apart; `New` is `UserUnwinder::new`, one step, since `/proc/pid/maps`
is read in one go and what changes while the ELF files are read is `Replace` or
`Load` before or after. An `Option` is a set of at most one element, so that `?`
is a bound variable over it. `checked_add` fails above `AddrMax`, the last
address. Of the sections only `cfi`, whether there is unwind data, is kept; the
text of a maps line and a module's name are left out.

History variables: `exact` and `unmatched` (what went wrong for a thread),
`taken` and `lost` (which samples there were, which events were refused), `seen`
(which images `new` saw and which files it read in the mapped version). No
guard of an action that models code reads them, except that `MaxSamples` and
`MaxUnmatched` bound the behaviours through them.

## Runs

| Run | Config | Checks |
|---|---|---|
| lua_states | `MCLuaStates.cfg` | `TypeOK`, `NoStaleSlot`, `ExactDepth` |
| slot_pointer | `MCLuaStatesPtr.cfg` | `SlotNamesOpenState`: violated |
| yield_then_return | `MCLuaStatesNested.cfg` | `RunningHasSlot`: violated |
| lua_walk | `MCLuaWalk.cfg` | `WalkExact` |
| lua_walk_torn | `MCLuaWalkTorn.cfg` | `TypeOK`, `ReadsInStack`, `LevelsAscend` |
| sampled_line | `MCLuaWalkLine.cfg` | `SourceLine`: violated |
| native_sample | `MCNativeSample.cfg` | `TypeOK`, `WordsTrue`, `UsefulPrefix` |
| native_modules | `MCNativeModules.cfg` | `TypeOK`, `ModulesExact`, `LookupExact`, `ProbeExact` |
| pipeline | `MCProfiler.cfg` | `TypeOK`, `NativeConserved`, `LuaInOrder`, `KeysUnique`, `ImplementsCorrelation` |
| mixed_stacks | `MCProfilerMixed.cfg` | `KeysAreNonces`, `StatsMatch`, `FoldedExact`, `ImplementsArrivals` |
| termination | `MCProfilerLive.cfg` | `Terminates`, `RingsDrain` |
| seq_map_full | `MCProfilerFull.cfg` | `KeysUnique`: violated |

**lua_states.** A thread's depth never exceeds its hooked open calls plus the
calls that were counted in before their return probe was attached. So a thread
outside Lua has no slot and the sampler walks nothing. Depth is exact until a
`lua_yield` return, a refused insertion or the restart at the cap; what those
put wrong is right again when the outermost hooked call returns. Two threads
suffice for contention over a map with room for one, a third stands for other
processes; three levels of nesting reach the cap of 3. Two unmatched calls allow
a thread to end inside two calls, or to end once and to meet the gap between the
probes once.

**lua_walk.** Over memory that is not torn the walk outputs one event for each
function it reaches within MAX_LUA_DEPTH iterations and no other, in order and
with its line. A vararg function takes two iterations and a dummy frame one, so a
stack with many of them is cut after fewer functions (`Iterations`). A function
has the line of its call where the callee saved its position, the first line
where it did not (it is innermost, is a vararg function, or C code called on top
of it), and no line where it has no line numbers. The walk counts from the base
it reads: on a trace that is the innermost, otherwise it is what `L->base` was
last set to, and the functions called since are missed. Where `L->base` is left
from a call that has returned, the walk starts from garbage and nothing is said
of its output but what **lua_walk_torn** checks; the premise `Current` leaves
these states out. Two Lua functions of which one is stripped, a vararg function
and a C function are the kinds of the code. Ten slots hold three frames with a
vararg or a metamethod among them, and MAX_LUA_DEPTH = 3 cuts the larger stacks;
one return leaves a stale base and stale slots for a second call to overwrite.

**lua_walk_torn.** Over any memory the walker stays inside the stack and goes
down, and levels are distinct and ascending. The run tears memory once, to one of
eleven links or eight objects, or a base to any address up to past the end of the
stack; the theorems have no such bound.

**native_sample.** The words the unwinder gets are the target's own at the time of
the sample, from any address it asks for, although the event still holds bytes
of the sample before; and more than half of what can be read is captured. The
sizes keep the proportions of the code's 4096, 512, 256 to 8: two chunks, each of
two halvings, down to the word. Stacks end at, before and after each boundary.

**native_modules.** Every image that `new` saw, of a file it read in the mapped
version, has exactly one module, with its own bias and pages. Of the modules of
such files, code falls into its own image's, which it has if `new` saw the image
and the file has unwind data, and into those of unloaded images whose pages it
has now (`LookupExact`); what is loaded later has no module of its own. And a
uprobe at a symbol's file offset is on the symbol, in every image. About files
read in another version than is mapped nothing is said except that their modules
do not wrap: the code cannot tell them, and their modules may be anywhere. Two
files suffice for a lookup to go wrong between them. The six layouts are the
cases of the code: position dependent, code on pages of its own, code that starts
in the middle of a page that earlier data also uses, data longer in memory than
in the file, no unwind data, two pieces of code in one page of the file. Pages of
4 and 64 addresses leave room for three places; two of the three further layouts,
which only a path's new file has, reach the end of the address space, and the
third is no ELF file. `ModulesExact` and `LookupExact` also leave out files whose
code *shares a page of the file* with an earlier segment that is loaded elsewhere
(`SharesPage`), as in a very small library whose segments follow each other in
the file without padding: `load_bias_for_mapping` (`unwind.rs:288-293`) takes the
first segment whose page of the file matches, so the mapping of the code gets the
bias of the data and the module is shifted against the code. Without that premise
TLC finds it with the layout `Tiny`. `ProbeExact` leaves out files whose code has
more than one address (`OneAddress`): where two executable segments show the same
bytes of the file in different places, a breakpoint is put into both, as in the
layout `Split`; without that premise TLC finds it there.

**pipeline, mixed_stacks.** What happens to each event from output to histogram,
with two CPUs, rings that overflow, and SIGINT at any point. Three samples of
two threads give a thread with two samples, a CPU with two, and a sample in
progress while another is read. `pipeline` has one native stack, with two
unresolved addresses, none or two Lua frames, of which the outer shows nothing:
the frames go where the addresses are, and one of them is used up. `seq_map` has
room for both threads, so keys are unique (`KeysUnique`). It checks that
the steps implement `Correlation`: events may be lost, and nothing else may
happen to them. **mixed_stacks** has empty stacks and stacks of five addresses,
resolved, unresolved and null, an unwinder that may fail, rings of one event,
sequence numbers that wrap at 2 and a `seq_map` with room for one of the two
threads, so that keys repeat; the histogram is checked where they do not.
`FoldedExact` is the histogram alone, over those larger stacks;
`ImplementsCorrelation` also says what each step before it may do. Without unique
keys the code cannot keep that promise, but it still keeps `ImplementsArrivals`:
rings and reads alone see to it that no part of a sample arrives twice, goes back
or overtakes another.
**termination** is described under Fairness.

Four runs show where the program does less than its text says; the details are
under `findings`:

- *slot_pointer*: when an inner call returns, the slot keeps the inner call's
  `lua_State`, which the thread is not in any more.
- *yield_then_return*: a yield through `lua_yield` is counted out twice, so an
  enclosing call loses its slot. `README.md:124` describes the return of
  `lua_yield` as dropping the entry; the handler only decrements when nested.
- *seq_map_full*: without room in `seq_map`, and nothing frees any, all samples
  of a thread have one key and end up as one stack.
- *sampled_line*: the innermost Lua function, every vararg function, and one on
  top of which C code makes a call, is reported at its first line. `README.md:223`
  says that `L:` frames identify the sampled source line.

`CHECK_DEADLOCK FALSE` stands in the runs of `Profiler`, which ends, of `LuaWalk`,
where a walk ends, and of `NativeSample`, where the samples do. `LuaStates` and
`NativeModules` never stop and are checked for deadlock. Symmetry is used for
threads, CPUs, states and files, in safety runs only.

### Fairness

`FairSpec` has weak fairness of `Main`, all of main's own steps together: the
kernel schedules main, and a poll returns within 100 ms whatever happens. It
asks nothing of the sampler, of SIGINT or of the deadline. `Terminates` says
that main ends once told to, even if samples keep coming. `RingsDrain` says that
an accepted event leaves its ring. `MaxSamples` bounds the sampler there: with
endless samples one read still ends, since it takes a snapshot, but TLC does not
see that case.

## Proofs

Each proof module extends its component and proves invariants for every value
of the constants, from the assumptions named in the component
(`LuaStatesAssumption`, `LuaWalkAssumption` and so on: capacities are natural
numbers, target threads are threads).

- `LuaStatesProofs`: `TypeCorrect`, `SlotsNotStale`, `DepthExact`. `TypeOK` is
  inductive, `NoStaleSlot` is inductive given `TypeOK`, and `ExactDepth` given
  both: a return that ends the last hooked call makes a thread exact again
  because `NoStaleSlot` then leaves its depth no value but 0. The work is in one
  lemma per handler, on how it changes one thread's depth, and in lemmas on how
  a call or a return changes the cardinality of `Hooked`.
- `LuaWalkProofs`: `TypeCorrect`, `ReadsStayInStack`, `LevelsAlwaysAscend`,
  `WalkAlwaysExact`. The invariant of the first three is about the walker alone.
  A frame is above the bottom whenever it is read, the frame above it higher, and
  `out <= i`, which bounds the levels by MAX_LUA_DEPTH. Of memory it needs the
  type only, so tearing it cannot break the invariant. That is what "robust
  against any memory" means here. `WalkAlwaysExact` is about a stack that nothing
  has torn, and needs the other side: `StackInv` says what the VM has written
  (each frame's link leads to the frame below it and has the position of its
  caller if it saved that, a vararg frame lies on the one whose function it
  copies, `jit_base` is the innermost base), and `PlaceInv` where the walker is
  in it. It started from the base of a call (`StartsAt`, which is the premise
  `Current`). Before every iteration it is at the frame of the next call, or the
  bottom after the last (`AtFrame`), or below a vararg frame it has stepped over
  (`BelowVararg`), its iterations are those of the calls above that place, and
  the events so far are exactly those of their functions (`Passed`). An iteration
  moves from one of these places to the next and adds the event of at most one
  function. When it ends, it is at the bottom or has used up its iterations, and
  the functions passed are those of `Reached` (`DoneExact`). `FuncsAssumption`
  keeps the names of the three kinds of functions, and of the dummy, apart.
- `NativeSampleProofs`: `TypeCorrect`, `WordsAlwaysTrue`, `PrefixUseful`. The
  invariant says that the bytes up to `stack_len` are those of the last sample,
  and that only such an event is unwound; beyond `stack_len` the scratch event may
  hold anything. `SnapshotLenBounds` is the arithmetic: whole chunks lose less
  than a chunk, and the smaller reads at most half, provided that they leave no
  gap of a factor of two (`NativeSampleAssumption`).
- `NativeModulesProofs`: `TypeCorrect`, `ModulesAlwaysExact`,
  `LookupAlwaysExact`, `ProbesAlwaysExact`, for all layouts. The first holds
  whatever a file says, damaged or not. The second comes from three lemmas: a
  mapping of code gives the bias of its image (`BiasOfCode`, where the missing
  shared page is needed), the checked sums of `module_avma_range` compute the
  hull of a loaded image (`RangeOfImage`, since the hull fits the address space
  and its last page ends at the last address), and an image has code. The third
  needs the loader's part too: images do not overlap (`ImagesInv`), and code is
  not empty and inside its image. The fourth
  splits by segments: some executable segment gives the offset (`OffsetFound`,
  where that images fit the address space keeps `saturating_add` from cutting a
  segment short), its own mapping shows the offset at the symbol
  (`ShowsItsOwn`), and any other that shows it does so there (`ShowsThere`).
  `NativeModulesAssumption` asks of files that can be loaded that their segments
  are not empty and that one is executable, and nothing of the others.
- `ProfilerProofs`: `TypeCorrect`, which includes that main reads one ring at a
  time and stays inside its snapshot, and that the snapshot stays inside the
  ring while programs append; and `NoncesHold`, from `NonceInv`: the numbers of
  a tracked thread's samples go up by one, modulo the wrap, until the value its
  entry has, so equal keys are a whole wrap apart. It needs that a thread that
  was refused stays refused: entries are never deleted, so a full map stays
  full. Its second part has `NativeAlwaysConserved` and `StatsAlwaysMatch`. Both
  follow from `DeliveryInv`, which speaks of the part of each ring that main has
  not read (`Queue`): an output appends to it, handling an event takes its head,
  and the start of a read, the move of its cursor and the release of its space
  leave it alone. Its parts: an event in a queue is that of its sample, is not
  lost and is in no other place (`QueueInv`); an event in `Pending::native` is
  under its key and in no queue (`MapInv`); the event of a sample with its own
  key is somewhere (`CoverInv`); and the statistics equal the number of samples
  that are neither lost nor queued (`StatsInv`), which is why they count an
  event that `insert` later replaces. Only `CoverInv` depends on unique keys.
- `ArrivalProofs`: `LuaAlwaysInOrder` and the refinement `ArrivalsImplemented`.
  The invariant `FrameInv` is about samples and not about keys, so it needs no
  uniqueness: the frames of a sample in rings are in one ring and ascend
  (`RingFrames`); those in `Pending::lua` are under their key, ascend, and are
  below those in the ring (`MapFrames`); a frame that was output is lost, in a
  ring or in `Pending::lua` (`CoverFrames`); and a sample is walked on one CPU,
  whose ring alone has frames of it (`WalkFrames`, which is why the next frame
  goes behind those before it). `LuaInOrder` follows for a sample with its own
  key. For the refinement each step's lemma also says what it does to what has
  arrived: `handle_lua` adds one frame, above all that had arrived because those
  are handled (`CoverFrames`) and what is handled is below what is in the ring
  (`MapFrames`); `handle_native` adds one native half, by `DeliveryInv`; every
  other step changes neither, also those that lose events or free ring space.
- `CorrelationProofs`: `AlwaysFoldedExact` and the refinement
  `CorrelationImplemented`. The first half is about one stack: `StackAsPromised`
  says that `build_stack`, a loop with an accumulator, yields what `StackOf`
  says directly. By induction on the addresses (`FoldSteps`), after `n` of them
  the Lua frames left are those from the number of unresolved addresses so far
  on, and `AddressStep` shows that the next address adds to the stack what
  `StackOf` shows for it. Both sides sort: `Outermost` by positions, with ties
  as they came, the promise the set of levels. `OutermostLevels` shows that they
  agree on frames in the order of a walk. The second half is about `finalize`,
  which goes through keys where the promise goes through samples:
  `FinalizeFolds` shows that while keys are unique the two correspond, each key
  with the addresses (`MapInv`) and the frames (`MapFrames`) of its own sample.
  The refinement adds to `ArrivalsImplemented` that the profile does not change
  before `Finalize`, and after it samples do not. Its hypothesis is
  `[]KeysUnique`, since without unique keys the code does fold two samples into
  one (*seq_map_full*). `KeysAlwaysUnique` says when it holds: with `NoncesFit`,
  that `seq_map` has an entry for every thread of the target and there are no
  more samples than sequence numbers (10240 entries and 2^32 numbers in the
  code), and `CorrelationWithRoom` puts the two together. `SamplerAssumption`
  says of native stacks that they are sequences.
- `HelperProofs`: what the map operators preserve, that Min and Max find an element,
  and what the recursive functions of `Lists` are from one index to the next
  (`StepwiseExists`, `ConcatSteps`); cited by the others.

Where a proof needs induction, it is on a natural number and by the least
counterexample (`CountUp`): the library's induction theorems take an operator as
parameter, which the provers cannot instantiate. A recursive
operator costs the prover its SMT backend, so the model has recursive functions, in
`Lists` and `Fold`, and `Lists` has a sort and a concatenation of its own.
`MCProfiler` compares both with `SetToSortSeq` and `FlattenSeq` of the community
modules on small inputs.

Only model-checked:

- `Terminates` and `RingsDrain`: the prover reasons neither about fairness nor
  about ENABLED.

## Plan

Done: tracking, walker, native capture, sampler, rings, aggregator, folding, the
abstract specifications of the pipeline and the refinements, native modules and
uprobe offsets; proofs of every invariant and refinement that the passing runs
check. What is left, and of what use it would be:

1. `LuaStates` and `LuaWalk` composed, so that a stale slot leads the walker to a
   freed state. `LuaWalk` already assumes that memory can hold anything, so the
   composition would only add which stack a sample shows, which `slot_pointer`
   does without it.
2. The 32-bit frame layout of `lua_state.h`.

## Not modelled

- *Symbolization and unwinding rules* are third-party code (blazesym, framehop);
  their answers are choices of the model. Symbolization happens after sampling
  and from the live process, whose addresses may mean something else by then:
  here a symbol is a property of the address.
- *Text and files*: parsing `/proc/pid/maps`, finding LuaJIT among the mappings
  (`find_luajit`), ELF sections, folded output and SVG. They read or write once
  and keep no state.
- *Straight-line start-up*: rlimits, loading the BPF object, opening perf events.
  A failure ends the program; the orders that matter (links, readers, events
  before readers) are in `LuaStates` and `Aggregator`.
- *Byte layout of events* is checked by the compilers on both sides.
- *Generated headers*: `src/bpf/vmlinux.h` (kernel types from BTF) and
  `src/bpf/profile.skel.h` (written by bpftool) hold no logic of this program.
  They are all but about 800 of the lines of C in the repository, so by lines of C
  the share that can be modelled is small; of the hand-written C, `profile.bpf.c`,
  `lua_state.h` and `common.h`, what is not modelled is type declarations for
  other layouts. The rest of the model is of the Rust in `src/src`.
- *Memory growth of `Pending`* with unlimited duration: the maps are unbounded in
  the model as in the code.
