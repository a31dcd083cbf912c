# A TLA+ model of the SCDK kernel

SCDK is a small single-core x86_64 kernel built around capabilities. This
directory holds TLA+ modules translated from its C sources, TLC
configurations that check them on small instances, and TLAPS proofs of the
main safety results for every instance. `PROJECT.json` lists the runs, the
theorems, the hazards and the source lines each definition stands for.

## The system

| Part | Source (under `src/src/`) | State | Model |
|---|---|---|---|
| Objects, capabilities | `core/object.c`, `capability.c`, `revoke.c` | slots, generations | `Capability` |
| Endpoints, services | `core/endpoint.c` | endpoint slots, name table | `Endpoint` |
| Rings | `core/ring.c` | two arrays, four counters, bound target | `Ring` |
| Scheduler, timer | `core/scheduler.c`, `arch/x86_64/timer.c` | task and thread slots, run queue, driver | `Scheduler`, `SchedulerPreempt` |
| Grants | `core/grant.c`, `user_grant.c` | grant slots with ranges | `Grants` |
| Files, loader, spawning | `services/tmpfs_service.c`, `vfs_service.c`, `proc_service.c`, `core/loader.c` | open-file slots, load in progress | `Files` |
| Devices | `services/devmgr_service.c` | device and queue slots | `Devices` |
| User rings, console service | `core/user_ring.c`, `services/console_service.c` | a task's ring, batch in progress | `UserRing` |
| User tasks, system calls, faults | `core/task.c`, `syscall_dispatch.c`, `arch/x86_64/usermode.c`, `fault.c`, `ipc/user_ipc.c` | task states, nested runs, saved registers, kernel stacks | `UserMode` |
| Physical pages | `mm/pmm.c` | page stack, region tables, counters | `Pmm` |
| Kernel heap | `mm/heap.c` | block list, committed end, mappings | `Heap` |
| Page tables, user ranges | `mm/vmm.c`, `address_space.c`, `ipc/user_ipc.c` | tables, roots, translation cache | `PageTables` |
| Boot archive | `mm/initrd.c` | table of files | `Initrd` |
| Keyboard, TTY | `drivers/input/ps2_keyboard.c`, `services/tty_service.c` | modifiers, event queue | `Keyboard` |
| Text screen | `arch/x86_64/framebuffer.c`, `drivers/console_backend.c` | cursor, history, view, cells | `TextConsole` |

Every part stores its state in fixed tables and names it by capability
tokens, so everything rests on the object and capability tables: `Endpoint`,
`Grants`, `Files` and `Devices` extend `Capability` and act on its variables.
A ring carries descriptors to the endpoint it is bound to: `UserRing` extends
`Ring`. A program started from a program runs inside the system call of the
first, which is what `UserMode` is about.

What is hard to test here: tokens that outlive the slot they name; counters
that wrap; an operation that takes several resources and fails on the last;
a batch that stops half-way; global state overwritten by a nested run; timer
ticks inside the scheduler; incremental drawing after a long history.

## Modules

Conventions. A 64-bit id or token is the pair of its slot index and
generation. An operation that returns an error without changing anything is a
stuttering step. History variables (`age`, `made`, `issued`, `held`, `owed`,
`asked`, ...) record what happened so that a property can speak of it; no
guard of the code's operations depends on them, except that callers use only
what they were given.

**`Capability`, `CapabilityAbstract`.** The two tables, slot by slot.
Generations are numbers modulo `GenMod` (2^32) that skip 0.
`CapabilityAbstract` is a growing set of objects and a map from honoured
tokens to what they convey; `ImplementsAbstract` maps the tables to it.
`RevokedTokenRefused` is the exact guarantee of revocation. A revoke and the
next create each step the generation, so a slot in use and a revoked slot
alternate. One lap takes `GenMod - 1` steps, an odd number: after it the old
generation is back in a slot that is revoked, and the revoked flag refuses
it. After two laps the slot is in use and the old token works again.

**`Endpoint`.** Endpoints and the registry, beside other users of the tables.
The interesting case is a create that fails on the last of three resources:
the object it leaves behind points at a slot that goes to another endpoint.

**`Ring`, `RingQueues`.** One ring with counters modulo `CounterMod` (2^32).
`RingQueues` is the abstract pair of bounded FIFO queues; `Contents` is the
refinement mapping. The capability layer is the set of tokens that pass.

**`Scheduler`, `SchedulerPreempt`.** One action is what the current thread
does up to the point where another thread goes on. `resume` says where a
thread continues: in its own code, in the loop of `scdk_scheduler_run`, or
after the last yield of `thread_trampoline`, which panics. Only the boot
thread calls `scdk_scheduler_run` (as in the repository), and nobody revokes
its token, which is not handed out. `SchedulerPreempt` splits `scdk_yield`
into four steps with ticks between them; it shows that a violation exists
and is not used to claim safety.

**`Grants`.** User grants give their slot back with its object, so the next
grant lives under the same object id; kernel grants have the same object type
and another table. `scdk_user_grant_copy_from` and `scdk_grant_resolve` are
operators that say which bytes are reached.

**`Files`, `Devices`.** A slot of a closed file goes to the next open while
the old token stays a valid capability. A load is a sequence of steps that
fail one by one; a loaded program may load another. A device registration
makes four acquisitions and leaves some behind when it fails.

**`UserRing`.** A submit copies a batch onto the ring, descriptor by
descriptor, and calls the service, which takes as many off, performs each and
completes it. Each copy, each console write and each completion may fail.

**`UserMode`.** `runs` is the stack of nested `scdk_usermode_run_*` calls.
Each has a plan of acquisitions and how much of it was got; the last one is
in control. The dispatcher's globals are saved and restored around a run.

**`Pmm`.** The scan of the boot memory map entry by entry, then allocation
and free, including a second free of the same page.

**`Heap`.** The block list in address order; allocation with split, free with
merging, and extension page by page, which stops when pages or table pages
run out.

**`PageTables`.** Tables in physical pages, walks that allocate and may fail
half-way, address spaces that share the kernel half, one cached translation.
It assumes that every top-level kernel entry in use was present at boot: a
root copies them when it is created.

**`Initrd`.** The scan of the archive block by block. Paths are sequences of
characters, because the questions are which byte ends a component. The
properties compare the answers with the tree of components. A `./` in the
prefix field of a header is kept by the code. An archive in which a name ends
in a slash is excluded by `WellFormed`.

**`Keyboard`.** The typist's keys become bytes in the port; a poll reads one.
Timestamps and the contents of empty queue slots are left out.

**`TextConsole`.** Cells instead of pixels; every character of a write is a
step. The screen has at least two rows and one tab stop (`ScreenFits`).
`scdk_fb_text_set_cursor` and `scdk_fb_text_init` have no callers.

## Runs

| Run | Bounds | Shows |
|---|---|---|
| `capability` | 2 objects, 2 capabilities, `GenMod` 4 | types, revocation for two laps, live entries resolve, refinement |
| `capability_wrap` | the same | violation: a revoked token is honoured after two laps |
| `endpoint` | 3 objects, 2 capabilities, 2 endpoints, 2 names, `GenMod` 2 | calls reach their handler, failed creates give slots back, names stay bound |
| `ring` | sizes 1 and 2, `CounterMod` 8 | no overrun; FIFO queues through wraps |
| `ring_any_size` | size 3, `CounterMod` 4 | violation: order is lost at the wrap |
| `scheduler` | boot thread and 2 workers, 2 tasks | states, queue, dead threads, turns; runnable threads run, the run loop returns |
| `scheduler_preempt` | 1 task, 2 nested calls | violation: a tick in `scdk_yield` loses a thread |
| `tables` | 4 to 9 objects, 2 to 4 capabilities, 2 slots of each kind | tokens of grants, files and devices reach their own; failures give back |
| `programs` | rings of 1 and 2, batches of 1 and 2, `CounterMod` 4; 3 tasks, 4 heap blocks, 6 pages | batches that stop anywhere; nested runs, faults, failing acquisitions |
| `user_mode_fault_stack` | the same tasks | violation: a fault frame on a freed stack |
| `memory` | 5 memory maps; a heap of 24 units; 3 levels of 2 entries, 7 pages; archives of up to 4 blocks | allocator, heap, page tables, range check, archive |
| `console` | 2 presses, a queue of 2; screens of 2 and 3 rows, history of 3 | keys arrive in order; the screen shows the text |

`tables`, `programs`, `memory` and `console` check several modules in one
run. A variable `part` says which of them moves in a behaviour. This loses
nothing: either they have no variable in common, or (in `tables`) each uses
the shared tables for objects of its own types, which the other's checks
refuse; what another user of the tables could do to it, fill them or reuse
their slots, also happens within each part. Where one part does depend on another's resources, the model has the
dependence itself: `Heap` shares its pool of pages with the rest of the
kernel, and `UserMode` may be refused memory at any request.

Bounds. `GenMod` and `CounterMod` are powers of two like 2^32, because the
parity of a lap and divisibility by the size matter; small values let TLC go
through many laps. Two slots are enough for the reuse of one beside a live
other; the tables are smaller than what their users may ask for, so that each
acquisition of a create fails in some behaviour. Three scheduler threads give
a queue of two while a third runs. Three tasks give a run inside a run inside
a run. The memory maps have unaligned, empty, wrapping and adjoining entries,
and more usable pieces than the region table holds. The history of the
screen is as long as, or longer by one than, the screen, so that it wraps
within a few lines. Bounds on counters (`MaxCreates`, `MaxDepth`, `MaxTyped`,
`MaxKeys`, `MaxWaiting`, `MaxLine`) are constants used in guards.

Deadlock is not checked where the system may rightly stop: a ring whose token
is revoked, tables that are full for ever, an archive that has been read, the
bounded typist and writer.

Fairness. `scheduler`: the loop of `scdk_scheduler_run` goes on when it has
the processor; a worker that keeps the processor yields or is preempted; the
entry function of a worker that runs again and again returns in the end. The
last two are assumptions on thread code that the repository's threads
satisfy. Nothing is assumed of the boot thread's own code. `console`: the
shell polls the keyboard in a loop.

## Findings

* `capability_wrap`: `docs/invariants-m30.md` promises that revoked tokens
  fail for ever; the code promises it for 2^33 - 3 generation steps.
* `ring_any_size`: `scdk_ring_create` accepts sizes for which the 32-bit wrap
  of a counter breaks the queue, after 2^32 operations. Powers of two are
  safe, which is proved; the self-test uses 16 entries and does not meet the
  case.
* `scheduler_preempt`: `scdk_timer_interrupt` enables interrupts before
  `scdk_yield`. A tick inside a yield switches away from a thread that is
  READY and on no queue, and `scdk_scheduler_run` returns without it.
* `user_mode_fault_stack`: after a nested run, the task-state segment still
  names the kernel stack that the run freed. A later exception of the outer
  task writes its frame there.

Met while modelling, without a run of their own:

* A user ring whose batches fail half-way keeps the descriptors. When they
  fill the queue, every later submit is refused before the service is called,
  and nothing empties it (`user_ring.c:187`).
* An extension of the heap that runs out of pages leaves its mappings, and no
  later extension succeeds (`heap.c:154`; `StarvedHeapNeverGrows`).
* Pages of usable regions beyond the region table are handed out and cannot
  be freed (`pmm.c:88`; the exception in `FreedPagesReturn`).
* The loader does not close a file that is too large (`loader.c:90`; `lost`
  in `Files`).
* A bad pointer in a system call other than the endpoint call returns a
  status instead of a fault (`syscall_dispatch.c:172`;
  `docs/invariants-m30.md:46` speaks of faults).
* Log calls made before the framebuffer exists already mark the console
  backend as initialised, so the first text is drawn over the test pattern.

## Proofs

All theorems hold for every value of the constants that satisfies the named
assumptions. Each proof has an inductive invariant, one lemma per action (or
group of actions that change the same state) and a short temporal step.

**`CapabilityProofs`** (any table sizes, any even `GenMod`): `TypeCorrect`,
`LiveEntriesAlwaysResolve`, `RevokedTokensStayRefused`,
`TablesImplementAbstract`. `IInv` adds to the types: a used object slot holds
the slot's current generation; an entry ever written names an existing object
of the type and generation copied into it; for a revoked token, its age and
the slot's generation are related modulo a lap, and the parity of the age
says whether the slot is in use. The last makes the bound of two laps
inductive.

**`EndpointProofs`** (on top of `IInv`): `CallsReachTheirHandlers`,
`OnlyEndpointsHoldSlots`, `ServiceBindingsStay`. `EpIInv` adds that the slot
of a successful create names the object back, that a slot in use belongs to a
successful create, and that no capability was ever made for an object that a
failed create left behind. The last is why a leaked object that points at
somebody else's slot does no harm.

**`RingProofs`**: `TypeCorrect` needs no condition on the sizes.
`RingImplementsQueues` assumes `SizesDivide`: every size divides the modulus.
Then two counters less than one ring apart index different entries, across
the wrap as well, so a submit never touches a pending entry.

**`UserRingProofs`** (assuming `SizesDivide`): `ServiceAlwaysFindsItsBatch`,
`CarefulTasksLoseNothing`, `SuccessMeansCompleted`. The proof views the
counters as queues, which `RingProofs` justifies. `UrIInv` says how much of
the batch is on the ring at each point of the call (`Progress`), that the
newest completions are those of the descriptors done (`Successes`), and that
a careful task has room for everything submitted, completed and still to come
(`Room`).

**`SchedulerProofs`** (any number of tasks and threads):
`StatesAlwaysTellWhoRuns`, `QueueAlwaysHoldsTheReady`, `DeadAreNeverResumed`
and the action properties `RunsReturnWhenDone` and `ThreadsAlwaysTakeTurns`.
`SchedIInv` joins the three invariants with `SlotsInv` (a slot's flags and
state agree; one whose function returned is DEAD) and `BootInv` (the boot
thread runs, waits on the queue or waits as the driver, and is never
revoked). They need each other: a thread that ends finds another because the
boot thread is on the queue or blocked; enqueueing cannot fail because no
thread is on the queue twice. `AfterDequeue` says what dequeuing leaves and
`SwitchInv` covers the three ways in which a thread is switched away from.

**`PmmProofs`** (`PmmAssumption`, `MapsAssumption`):
`PagesAlwaysAccountedFor`. `MapsAssumption` is what the boot protocol
guarantees: usable entries are aligned and overlap nothing. It also excludes
an entry that lies within the last page of the address space, for which
`align_up` would wrap. `PmmIInv` adds that every page on the stack, held or
freed belongs to a usable entry the scan has passed, that each reserved
region is the record of an entry that is not usable, and that the callers
hold no more pages than are counted as allocated.

**`IntegerLemmas`** collects facts on division, remainders and least elements.

Only model-checked: liveness under fairness (beyond the prover), and
`Grants`, `Files`, `Devices`, `UserMode`, `Heap`, `PageTables`, `Initrd`,
`Keyboard`, `TextConsole`.

## Not modelled

* Serial port, log, early console: device output that no other part reads.
* Boot, panic, string routines: straight-line code and library functions.
* Session service and the start-up of the services: one endpoint each,
  created and registered once, which `Endpoint` covers; the session service
  is a constant filter on names.
* Registers, selectors, stack contents and the assembly entries: which
  registers are saved and where control returns is modelled, values are not.
* PIT, PIC and keyboard-controller programming: device I/O.
* Message contents, glyphs, colours, file data: no control depends on them.
  A file's bytes are told apart by file and offset.
* Ticks in the middle of a queue operation: `SchedulerPreempt` has them
  between the steps of `scdk_yield` only.
* The self-tests: read for what they assert.
