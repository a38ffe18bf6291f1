# TLA+ models of the Yog interpreter

Yog is a dynamic language with native threads: an interpreter in C
(`src/src`, headers in `src/include/yog`), a standard library (`src/lib`),
extensions (`src/ext`), documentation (`src/doc`) and tests (`src/tests`).
Paths below are written as in `PROJECT.json`: `src/src/gc.c` is `src/gc.c` of
the repository.

The project models the parts of the interpreter where threads, the collector
and long sequences of operations meet, checks them with TLC on small instances
and proves with TLAPS the handshake, import, the symbol table, the generational
heap and the hash table for every size.

## 1. The system

| Part | Source | State | Operations |
|---|---|---|---|
| Stop-the-world handshake | `gc.c`, `vm.c` | `running_gc`, `waiting_suspend`, `suspend_counter`, `gc_id`, `gc_bound` of each thread, three condition variables, `global_interp_lock` | `YogGC_alloc`, `YogGC_suspend`, `perform`, `run_gc`, `YogGC_free_from_gc`, `YogGC_bind_to_gc` |
| Threads and the end of the VM | `thread.c`, `vm.c`, `main.c` | `running_threads`, `vm->locals`, `vm->handles` | `Thread#run`, `thread_main`, `Thread#join`, `YogVM_add_thread`, `YogVM_remove_thread`, `YogVM_wait_finish`, `YogVM_delete` |
| Package import | `vm.c` | `vm->pkgs`, `pkgs_lock`, a placeholder `ImportingPackage` with mutex and condition variable per package under import | `YogVM_import_package`, `import_package`, `get_package`, `wait_package` |
| Old-generation allocator | `gc/mark-sweep-compact.c` | arenas, chunk headers and footers, bins of free chunks, huge mappings, thresholds | `alloc`, `split_chunk`, `merge_with_*`, `delete`, `delete_garbage` |
| Generational heap | `gc/generational.c`, `gc/copying.c`, `gc.c` | young semispaces, old heap, ages, remembered set, list of heaps | minor and major collection, write barrier, `delete_heaps` |
| Mark-sweep collector | `gc/mark-sweep.c` | list of `malloc`ed objects | alternative build |
| Symbol table | `vm.c`, `symbol.c` | `name2id`, `id2name`, `next_id`, `sym_lock` | `intern2`, `YogVM_id2name` |
| Handles and local roots | `handle.c`, `env.c` | scopes of handle blocks, chains of local anchors | push, pop, register |
| Evaluator, frames, exceptions | `eval.c`, `frame.c`, `exception.c`, `error.c` | stack of frames, jump buffers, finish frames | call, return, raise, longjmp |
| Coroutines | `coroutine.c` | state, machine context, boundary frame | `resume`, `yield` |
| Calls and arguments | `callable.c`, `get_args.c`, `arg.c` | – | binding of positional, variable, keyword and block parameters |
| Compiler | `parser.y`, `lexer.c`, `compile.c`, `code.c` | token queues, indentation, label lists, exception tables | lex, parse, compile |
| Collections | `table.c`, `dict.c`, `set.c`, `array.c` | hash bins, entry counts, elements | insert, delete, iterate, grow |
| Objects, classes | `object.c`, `class.c`, `module.c`, … | attributes, superclass and mix-in chains | lookup, `include` |
| Numbers | `fixnum.c`, `bignum.c`, `float.c` | – | arithmetic, overflow to bignum |
| Text | `string.c`, `binary.c`, `encoding.c`, `sprintf.c`, `regexp.c`, `path.c`, `datetime.c`, `getopt.c` | – | conversion, formatting |
| `concurrent` extension | `ext/concurrent/concurrent.c` | barrier counter, mutex, condition | `Barrier#wait!`, atomics |
| FFI | `ffi.c` | – | marshalling through libffi |
| Outside world | `file.c`, `dir.c`, `process.c`, `repl.c`, … | – | system calls |

How they interact.  Threads are native and run in parallel: there is no global
interpreter lock in the usual sense; `global_interp_lock` protects only the
handshake and the lists of threads and roots.  Any allocation may become a
collection; a collection needs every *bound* thread to stop at an allocation
(or at the entry of a handshake operation), and a thread that is about to block
outside the heap (`join`, a mutex, a read/write lock) must first free itself
from the collector and bind itself again afterwards.  Every blocking operation
in the interpreter is therefore a client of the handshake: import, the symbol
table, `join`, the `concurrent` extension.

What is hard: the unlocked read of `waiting_suspend`; collections that follow
one another before a sleeper wakes; threads that are born or end around a
collection; the teardown of the VM; the double-checked lookup of packages and
the placeholder other threads wait for; locks taken in one order by clients and
in another by the collector; the boundary tags of the allocator, which are valid
only if every operation before kept them; objects that move while a pointer to
their inside is kept across a wait; errors (longjmp) out of the middle of a
multi-step operation.  `PROJECT.json` lists these hazards with their lines.

What makes each part correct:

- handshake: the collector runs only when no other thread uses the heap; the
  counter is exact; the counted threads are frozen; collections end;
- threads: roots are registered as long as they are used; the VM is deleted
  last; every thread ends;
- import: a body runs once, parents before children, nobody sees half a
  package, every import returns or raises;
- allocator: chunks tile their arena, bins hold exactly the free chunks, objects
  do not overlap, the best fit is taken, nothing leaks;
- heap: scripts see objects that stay where they are with what was stored in
  them, although the collector moves them; the remembered sets cover every
  old-to-young reference; a collection ends;
- symbol table: a bijection that only grows, in which every id given out is found;
- evaluator: frames, C stack, jump buffers and handle scopes stay in step;
  a jump ends in the frame it was meant for; no frame is reused while a function
  refers to it;
- hash table: a dictionary, whatever the hashes; iteration meets a key once;
- try statements: a finally clause is executed whenever its statement is left;
- coroutines (planned): control returns to the right frame of the right stack.

## 2. Modules

| Module | Models |
|---|---|
| `StopTheWorld` | abstract specification: who may use the heap, who collects |
| `GCSuspend` | the handshake and the life of threads; implements `StopTheWorld` |
| `GCSuspendProofs` | theorems about `GCSuspend` |
| `PackageImport` | import of packages by several threads |
| `PackageImportProofs` | theorems about `PackageImport` |
| `ChunkAllocator` | the allocator of the old generation |
| `ChunkAllocatorProofs` | theorems about `ChunkAllocator` |
| `ObjectGraph` | abstract specification: what scripts see of the heap |
| `GenerationalHeap` | heaps, generations, write barrier and collections; implements `ObjectGraph` |
| `GenerationalHeapProofs` | theorems about `GenerationalHeap` |
| `SymbolTable` | `intern2` and `id2name` by several threads |
| `SymbolTableProofs` | theorems about `SymbolTable` |
| `Evaluator` | calls, frames, exceptions, `break` and `return` across script and C code |
| `EvaluatorProofs` | theorems about `Evaluator` |
| `Dictionary` | abstract specification: what a table promises |
| `HashTable` | the table of `table.c`; implements `Dictionary` |
| `HashTableProofs` | theorems about `HashTable` |
| `Induction` | lemmas: induction over numbers for sets and functions |
| `TryStatement` | compilation of `try`, loops and their jumps, and its execution |
| `MC*` | instances for TLC |

### GCSuspend

Every variable keeps the name of its C field.  All accesses but one are under
`global_interp_lock`, so a critical section is one action; a section with a wait
in it is one action up to the wait and one after it.  `pc[t]` says in which
function a thread stands; the values in `InHeap` are those where it may read or
write objects.  The lock is held across actions only by the collector
(`pc = "gc"`), so `GILFree` is the guard of every other section.  The exception
is `YogGC_alloc`, which reads `waiting_suspend` without the lock: `ReadFlag` is
the read and `AllocSuspend`, later, the suspension.  `pthread_cond_wait` is the
set `asleep`; signal and broadcast take threads out of it, and so may
`SpuriousWakeup`.  `seen` is the local `id` of `wait_gc_finish`, `ret` the place
after it.  `suspend_counter` is unsigned: it is decremented modulo `CounterMod`.

A script is what `Calls` lets its thread do: start a thread, join one, block on
a lock; and to allocate at any time.  `Detached = TRUE` admits scripts that end
without joining their threads.

### PackageImport

The steps of `import_package`, `get_package` and `wait_package` with the points
where other threads can come between: the read/write lock on `vm->pkgs`
(`FreeFromGC`, `TakeLock`, `BindToGC` are its acquisition, a blocking call), the
mutex and the condition variable of the placeholder, the second lookup under the
write lock, `Publish`.  `frames[t]` is the stack of imports of a thread: a body
that imports another package (`Deps`) pushes a frame.  A name is a sequence of
packages (`a.b` is `<<A, B>>`).  The body of a package in `Failing` may raise.
The collector is reduced to what the handshake promises: a thread asks for a
collection, it ends when every other thread is outside or stopped
(`AtSafePoint`), and until then no thread binds itself again.

### ChunkAllocator

The `GC_GENERATIONAL` build.  Addresses are numbers; every mapping has a slot of
addresses of its own, `Stride` long, so that mappings do not overlap
(`MappingAssumption`).  `head` is the chunk headers written in memory, `foot` the
sizes in the last word of free chunks, `lists` the bins, in their order;
initialising an object overwrites the headers and footers in its room
(`Overwritten`), so stale tags cannot be read by accident.  The sizes of the
machine (arena, alignment, headers, bounds of small chunks) are constants; the
runs scale them down and keep their order and their bins (`AlignmentAssumption`,
`BinsAssumption`).  The shifts of `compute_large_index` are divisions by powers of
two (`Pow2`), `bsr` is the highest bit by its definition.  Marking is one
choice: `Sweep` picks which objects are garbage, `DeleteGarbage` deletes them
one by one, in any order.  `mmap` and `munmap` are external; a `munmap` of what
is not a mapping sets `failed`.

### GenerationalHeap

The `GC_GENERATIONAL` build above the allocator.  A heap has the name of its
thread.  A location `<<o, h, space>>` stands for an address: object `o` in the
from-space, the to-space or the old part of heap `h`; copies of one object have
different locations, which is what `OneCopy` looks at.  `mem` holds the headers
(`age`, `remembered`, `forwarding_addr`, `marked`) and the one attribute of an
object.  `Slots` are the roots: locals, handles and a member of the virtual
machine that all threads use.

A script allocates, assigns, loads and stores.  A store is `YogGC_UPDATE_PTR` in
two steps, `UpdatePtr` (its tests, operator `Barrier`) and `StorePtr` (the entry
in the set of the *storing* thread's heap, and the store), so that another thread
can come between.  There is no safe point between the two, so `StartGC` waits
until no store is pending: this is what the handshake of `GCSuspend` gives.  A
collection is then a sequence of steps of one thread: `StartGC` empties the
remembered sets and, if minor, traces what was in them; `KeepSlot` keeps the
roots in the order of `YogVM_keep_children`; `KeepChildren` scans one object of
the first heap that has any left, with the barrier that `YogGC_KEEP` contains;
`EndGC` frees what was not kept, swaps the spaces and deletes empty heaps of
ended threads.  `Kept` is the object keeper of the minor and the major
collection, `Moved` copying and tenure.

`ObjectGraph` knows objects, variables and attributes, and no collector.  The
refinement mapping forgets locations: an object at any of its locations is that
object, and a location that is no longer in memory is nothing.  A value about to
be stored is in a register of its thread.

### SymbolTable

`Intern` and `Id2Name` call the functions; `Step` is the path of a thread
through them: free itself from the collector, take the lock, bind itself again
(`FreeFromGC`, `TakeLock`, `BindToGC`: one acquisition), look up, release.  If
`Find` fails, the thread takes the write lock, looks up again (`Recheck`), clones
the string, and adds to `name2id` (`AddName`) and `id2name` (`AddId`) before it
increments `next_id` (`NextId`).  These are separate steps because each
allocates, so a collection may come between; the collector is reduced to
`AtSafePoint`, as in `PackageImport`.  A name is a model value: two strings with
the same bytes are one name.  `interned` collects what calls of `intern2` have
returned.

### Evaluator

One thread.  `frames` are the frame objects ever allocated, `cur` is
`env->frame`, `cstack` the C activations above `main`: `loop` is
`YogEval_mainloop`, `call` is `YogCallable_call_with_block`, `native` and `guard`
are native functions (the second calls `setjmp`, as `File.open` does), `inst` is
an instruction that calls methods from C without a frame of its own; `inst_compare`
and `native_compare` are the same inside the `==` that `compare_val` of `table.c`
calls.  `jmps` is `jmp_buf_list`; a buffer remembers its activation and the handle
scopes that were open.  `funcs` are the functions and blocks that exist: any code may
call any of them, also long after the frame that made them has ended, which is how a
script that stores its blocks behaves.  Functions with the same fields are one in
`funcs`: to make such a function again would change nothing, for its frame is marked
as used already.

A jump starts with `Raise`, `LongReturn` or `LongBreak` (`mode = "jump"`) and goes
from buffer to buffer: each `Land…` action is what one holder of a buffer does
after `setjmp` has returned a second time.  `Unwind` is the `longjmp` itself.
Which frames have a handler for an exception is chosen when it is raised; that
the pc is in the range of an entry is the business of `TryStatement`.  A frame
that is cut off while no function refers to it is cleaned at once, so that stale
references would show.

Where a finish frame stands on a script frame (a key's `hash` or `==` called by
the instruction that makes a dictionary) a `break` or `return` can find its target
in the frames of the mainloop *below* the one that searches.  The model goes to
`mode = "crossed"` and stops: what happens then depends on operand stacks.

`CompareVal` is `compare_val` up to its call of `==`, with the buffer it pushes;
`CompareReturns` is the end of that call, which pops it.  `LandCompare` is what the
code does when a jump arrives at that buffer instead: it answers FALSE and pops
nothing.  From then on the newest buffer belongs to a function that has returned, and
the model goes to `mode = "swallowed"` and stops.

When the enclosing function has ended, `return` in one of its blocks goes to its
former caller if that is still active; `BlocksReturnToCaller` is about functions
that have not ended.

`StacksAgree` goes through the C activations from the top one down and through the
frames at the same time: `Fits` says what `env->frame` must be while an activation
of a kind is the top one, `Returned` what it is when that has returned.

### HashTable

`bins` are the chains, `num_bins` and `num_entries` the fields of `YogTable`.  An
operation is one action: `hash` and `==` of the keys are assumed not to touch the
table and not to raise (what a jump out of `==` does is in `Evaluator`).  `Rehashed` gives the chains the order that `rehash` gives
them.  `iter` is the iterator of an `each` whose block may insert and look up
between two steps; `trip` is a history variable.  `Delete` is called for
`vm->pkgs` only, over which nobody iterates.

`Dictionary` has `Set`, `Get` and `Remove` on a function and its size.  The
refinement maps a table to what `find_entry` finds in it.

### TryStatement

A program is a tree of statements; `compile_stmts` is the compiler as a pure
operator, with the structure `CompileData` handed through the visitors: emitted
instructions, labels, `exc_tbl` with `exc_tbl_last`, `finally_list`, `try_list` and
the labels of the innermost loop.  The actions execute the compiled code: a call
may return or raise, a test may go both ways.  Calls are numbered, and their
sequence is all that `FinallyAlways` looks at.  `break` and `next` leave a loop
here; those of blocks are in `Evaluator`.

## 3. Runs

| Run | Instance | Shows |
|---|---|---|
| `gc_handshake` | main + 2 threads, 2 collections, all calls | `WorldStopped`, `CounterExact`, `HandshakeInv`, `RootsRegistered`, `CountedThreadsFrozen` and the refinement `StopsTheWorld` |
| `gc_liveness` | the same threads, 1 collection, fairness | `CollectionEnds`, `ThreadsEnd` |
| `gc_unjoined` | a script that does not join | violates `ThreadsEnd` |
| `import_safety` | 2 threads, `a.b` and `c` whose body imports `a.b`; `b` may fail; collections | `ImportInv`, `ExecutedOnce`, `NeverHalfImported`, `ParentFirst`, `PackagesStay` |
| `import_waits` | 2 threads, 1 package | violates `ImportReturns` |
| `import_collection` | 3 threads, 1 package, collections | violates `NoCircularWait` |
| `chunk_allocator` | 2 mappings, 5 sizes | `BoundaryTags`, `FreeListsExact`, `ObjectsDisjoint`, `NothingLeaks`, `BestFit` |
| `symbols` | 3 threads, 2 names, one thread asks for collections, fairness | `SymbolInv`, `SymbolsUnique`, `SymbolsFound`, `NamesStay`, `CallsReturn` |
| `generational_heap` | 2 threads, 2 objects, tenure at the second collection, 3 roots, fairness | `HeapInv`, `RememberedExact`, `OneCopy`, `CollectionEnds` and the refinement `CollectionsInvisible` |
| `evaluator` | 6 frames, 3 functions, 6 C activations, a pool of one script frame | `StacksAgree`, `BuffersLive`, `PooledAreDead`, `BlocksReturnToCaller`, `JumpsExact` |
| `hash_table` | 4 keys of which 3 share a bin, 2 values, 1 to 5 bins | `TableInv`, `TableShape`, `EachVisitsOnce` and the refinement `IsDictionary` |
| `try_finally` | two programs with nested try statements in a loop | violates `FinallyAlways` |

Bounds.  Three threads are a collector, one that answers at an allocation and
one that binds, frees itself, is born or dies meanwhile; two collections let a
sleeper of the first meet the second (`MaxGC` bounds `gc_id`; the proofs do not
depend on either bound).  `CounterMod = 4` is the smallest that can count the
threads and still shows a wrap below zero.  One collection is enough for
liveness: a second one starts from the states the first leaves.  Two importing
threads give the double lookup and the waiter; the third is needed only for the
circular wait.  In the allocator, `arena_size = 26` with `Sizes = {1, 5, 7, 16,
18}` gives small and large bins, a rest too small to split, a chunk cut from a
larger bin, a huge object and a full arena; two mappings let the second arena or
a huge one be released while the first is in use.

Three threads in `symbols` give a writer, one that waits between its two lookups
and a reader; two names let ids be mixed up; every thread may call for ever, so
the table is full after a while and lookups go on.  In `generational_heap` two
objects are an old one and what it refers to, or a cycle; `max_age = 2` lets an
object be copied once and tenured the next time; objects are used again after
they have died, so the number of collections has no bound.  The two local roots
are of different threads and the third is shared, so an object is reached
through both heaps in one collection and outlives the thread that made it.  New
objects are taken in a fixed order, which is only their naming.

In `evaluator` six frame objects are two nested mainloops with a native function
between them and a script frame to spare; six C activations let an instruction
or a guard stand on top of the second mainloop too.  Three functions are one of the package, a block
and a block inside that block.  The pool of one script frame is
full after one return and empty after one call; those of finish and C frames, which
are filled and emptied by the same operators, have no room here (`SmallPools`), and
the theorems are about pools of any size.  In `hash_table` the primes 1, 3, 5 in place of 11, 19, 37, …
and a density of 0 in place of 5 make the table grow on the second and on the
fourth key; the hashes 0, 0, 3, 4 give keys that always collide, keys that
collide until the table has 5 bins, and one that does not collide after the
first growth.

Fairness.  `GCSuspend`: weak fairness of a thread's steps (the scheduler runs a
thread that can run, and a mutex is handed on) and strong fairness of the end
and of the joins of a script (scripts are finite).  `PackageImport`: strong
fairness of a thread's steps, because a lock that is free again and again is
eventually obtained (`pkgs_lock` prefers writers), and of the end of a body.  The
violations under fairness are therefore not starvation.  `SymbolTable`: the same
for a thread's steps, with `PreferWriter = TRUE` (`init_read_write_lock` asks for
it, and so does the platform the documentation names, FreeBSD 9.1; a system whose
locks ignore the attribute may starve a writer), and weak fairness of the end of a
collection.  `GenerationalHeap`: weak fairness of the collector's steps; the
other threads stand still.

Where a run goes on past a fault.  Two of the passing runs contain interleavings
after which the code is wrong, and say of their properties until when they hold:

- In `generational_heap` threads may be inside the write barrier of one object at
  once; nothing in the code keeps them apart.  The object may then enter two
  remembered sets, and a minor collection that traces both copies its child twice.
  The history variable `doubled` is set when a minor collection starts from such
  sets.  All properties but `CollectionEnds` end there; scripts, whose memory may
  now hold an object twice, do not go on, so `CHECK_DEADLOCK` is off.  The sets may
  overlap before, and a major collection, which traces none of them, does no harm.
- In `evaluator` `compare_val` sets a jump buffer around `==`.  When a jump leaves
  `==`, it answers FALSE, the jump is lost and the buffer stays behind
  (`mode = "swallowed"`).  `StacksAgree`, `BuffersLive` and `JumpsExact` say what is
  right and what is wrong in that state: there is exactly one buffer too many, the
  newest.  What the next `POP_JMPBUF` or longjmp does with it is a use of the frame
  of a C function that has returned; the model stops.

Deadlock is checked in the runs of `GCSuspend`, where `Terminated` is the end of
the process.  The import code can stop for ever (the findings below) and the
allocator's model ends with its heap: those runs do not check it.
In `symbols` and `hash_table` it is checked: a script can always go on.  In
`evaluator` and `try_finally` a script ends, and `generational_heap` stops when
`doubled`.

### Findings

1. *A thread that is not joined* (`gc_unjoined`).  `main` leaves
   `running_threads`, then `YogVM_wait_finish` answers collections that did not
   count it.  The counter is decremented once too often: a collection starts
   while a thread still uses the heap, or the counter wraps and nobody goes on.
2. *A lost wakeup* (`import_waits`).  `pkg` is set and broadcast without the
   mutex under which `wait_package` tests it.
3. *A circular wait* (`import_collection`).  Collector → a thread that is bound
   and waits for the placeholder's mutex in `get_package` → the holder of that
   mutex, which waits for the collection in `YogGC_free_from_gc` or
   `YogGC_bind_to_gc`.
4. *A lost finally clause* (`try_finally`).  A `break` or `next` splits the
   exception-table entry of the try statements it leaves into a chain, but
   `PUSH_EXCEPTION_TABLE_ENTRY` sets `exc_tbl_last` to the first entry of a chain.
   The next try statement to be finished overwrites that entry's `next`, and the
   rest of the inner head is in no entry any more: an exception there skips the
   inner finally clause and goes to the outer one.  Without a jump in front of the
   last statement of the head, or with a single try statement, nothing is lost.

Also met while modelling, without a run of their own:

- The placeholder of a failed import stays in `vm->pkgs`; the next import of that
  name waits for ever.  With one thread and one failing package `PackageImport`
  violates `ImportReturns` in this way.
- `delete` takes a chunk as large as an arena's limit for a huge one and calls
  `munmap` in the middle of an arena; in `ChunkAllocator` this sets `failed`, and
  size 16 of the run `chunk_allocator` reaches it.
- `check_if_over_threshold` (`mark-sweep-compact.c:450`) does not see a threshold when
  `allocated_size` is a multiple of it already: requests whose chunks are as large as
  the threshold never turn compaction on after the first one, and `allocated_size`
  grows without bound.  `ChunkAllocator` therefore states no bound on it: the one
  that the code means (the counter returns to 0 at the threshold) holds for the sizes
  of the run `chunk_allocator`, and TLC finds it violated with `Sizes = {12}`.
- `compile_while_jump` executes every finally clause of the function, also those
  of try statements around the loop that is left; `return` executes none.
- `load_exception` reads the exception raised last: an exception that the finally
  clause itself raises and handles is raised in place of the first one.
- `compare_val` (`table.c`) leaves its jump buffer in `jmp_buf_list` when the `==` it
  calls is left by a jump, and answers that the keys differ; `evaluator` reaches
  this.  The read loop (`repl.c`) leaves its buffer in the same way.
- Two threads that store into one old object at once can bring it into two remembered
  sets (`YogGC_UPDATE_PTR` tests `remembered` without a lock); `generational_heap`
  reaches the minor collection that traces both.
- A thread that is not joined leaves `running_threads` (`thread.c:345`) before it gives
  back its handles and locals, so `YogVM_wait_finish` does not wait for that, and
  `YogVM_delete` may already run.  `GCSuspend` has these steps; no property speaks of
  the end of the virtual machine, because for scripts that join it holds by the joins
  alone and for the others it does not hold.
- `wait_package` and `join` keep addresses inside objects that a collection moves.

## 4. Proofs

`GCSuspendProofs` proves, for any finite set of threads, any `Calls`, any
number of collections and any width of the counter that can count the threads
(`ThreadsAssumption`, `BoundsAssumption`):

| Theorem | States | Assumes |
|---|---|---|
| `TypeCorrect` | `Spec => []TypeOK` | – |
| `RootsCorrect` | `Spec => []RootsRegistered` | – |
| `FrozenCorrect` | `Spec => CountedThreadsFrozen` | – |
| `HandshakeCorrect` | `Spec => []HandshakeInv` | `Detached = FALSE` |
| `CounterCorrect` | `Spec => []CounterExact` | `Detached = FALSE` |
| `WorldStoppedCorrect` | `Spec => []WorldStopped` | `Detached = FALSE` |
| `Refinement` | `Spec => StopsTheWorld` | `Detached = FALSE` |

The argument.  `BasicInv` (types; who is in `running_threads` and bound; births
and deaths; roots) is inductive for every script.  `CounterExact` is not: that a
thread which read `waiting_suspend` and has not suspended yet
(`pc = "alloc_lock"`) is still expected by the *same* collection needs
`FlagsInv` (a collector exists exactly while the flag is set, there is only one,
a sleeper with the current `gc_id` sleeps for a collection under way), and that
every decrement belongs to a counted thread needs `CountedInv` and `MainLast`.
`HandshakeInv` is the conjunction, and the proof that a step preserves it has a
step per action.  The cardinality of `Pending` changes by one thread at a time,
with the library's theorems on finite sets.  `WorldStopped` then follows: at
`pc = "gc"` the counter is 0, so `Pending` is empty, so every counted thread has
answered, and threads that are not counted are outside the heap.

`SymbolTableProofs` proves, for any threads, names and collections
(`SymbolAssumption`), whatever the lock prefers:

| Theorem | States |
|---|---|
| `SymbolCorrect` | `Spec => []SymbolInv` |
| `UniqueCorrect` | `Spec => []SymbolsUnique` |
| `FoundCorrect` | `Spec => []SymbolsFound` |
| `StayCorrect` | `Spec => NamesStay` |

`SymbolsUnique` is not inductive: that `Recheck` sees everything a concurrent
writer has added needs exclusion by the lock (`LockInv`), and that `id2name` has
every id which `intern2` returns needs that the tables differ only while their
writer is between `AddName` and `NextId`, and by that one entry (`AddInv`,
`TablesInv`; `ReturnedInv` for ids on their way out of a call).  `SymbolInv` is the conjunction with
`TypeOK` and `CallInv`; the proof that a step preserves it has a step per action.

`PackageImportProofs` proves, for any threads, packages, imports between their
bodies, and bodies that fail (`ImportAssumption`):

| Theorem | States |
|---|---|
| `ImportCorrect` | `Spec => []ImportInv` |
| `Once` | `Spec => []ExecutedOnce` |
| `WholePackages` | `Spec => []NeverHalfImported` |
| `ParentsFirst` | `Spec => []ParentFirst` |
| `PackagesNeverReplaced` | `Spec => PackagesStay` |

`DottedNames` says that a part of a name stands at the same place after the same
parents in every name: `import_package` (`vm.c:1289`) registers a part under the
whole name up to its dot, so a package stands for that prefix.  `ExecutedOnce` needs that between the second lookup and
the publication of a placeholder nobody else writes `vm->pkgs` (`LockInv`,
`Writing`), and that the thread which runs a body is the one that published the
placeholder (`StageInv`): a package without an attribute of its own has exactly one
frame in exactly one thread that is importing it, or has failed.  `FramesInv` says
that of the frames a thread stopped at when a body imported something else;
`WaitInv` that what a waiter returns is whole.  `ImportInv` is the conjunction with
`TypeOK`, `CallInv` and `TableInv`.

`HashTableProofs` proves, for any keys, values, hashes, primes and density
(`TableAssumption`; `SmallestSize`: a new table has bins, because `MINSIZE` is 8 and
the first prime 11, `table.c:76`):

| Theorem | States |
|---|---|
| `TableCorrect` | `Spec => []TableInv` |
| `ShapeCorrect` | `Spec => []TableShape` |
| `EachOnce` | `Spec => EachVisitsOnce` |
| `TableIsDictionary` | `Spec => IsDictionary` |
| `RehashedTable` | what hashing anew keeps |

The operations are described by what they do to the set of all entries:
`PutAtHead`, `SetRecord`, `TakeOut` for one chain, `RehashedTable` for all, each
keeping `WellFormed` (every entry in the bin of its hash, no key twice).
`RehashedTable` and `EntriesOfBins` (the order in which loops meet the entries) are
by induction along recursive functions.  `TableInv` adds the iterator: while the
table has not grown, the block was called with exactly those keys of the start that
the iterator has `Passed` (`TripInv`), and `NextVisitsFresh` shows that its next
step passes one place more and no other.  The refinement follows from `ContentsFact`:
what lookups find is a function of the set of entries.

`GenerationalHeapProofs` proves, for any threads, roots, finite set of objects and
age of tenure (`HeapAssumption`), however threads interleave in the write barrier:

| Theorem | States |
|---|---|
| `HeapCorrect` | `Spec => []HeapInv` |
| `RememberedCorrect` | `Spec => []RememberedExact` |
| `OneCopyCorrect` | `Spec => []OneCopy` |
| `CollectionsAreInvisible` | `Spec => CollectionsInvisible` |

Each says what holds until `doubled`, that is, until a minor collection traces two
remembered sets with an object in common, and that this is the only way to break the
heaps: no assumption about scripts is made.  `doubled` never becomes false again
(`StaysDoubled`), so a step that leaves it false starts in a sound memory
(`StepSound`).  After it `RememberedExact`, `OneCopy` and the refinement claim nothing.

`RememberedExact` and `OneCopy` speak of the time between collections and are far
from inductive: a collection starts from them, breaks them, and has restored them
at its end.  `HeapInv` says what holds meanwhile.  Of two places of an object one
is in the from-space and forwards to the other (`CopiesInv`); an object the
collector is `Done` with refers only to what survives, and is remembered if that is
young, while everything else still refers to no copy (`DuringInv`); the bit
`remembered` says exactly that the object is in the set of an existing heap, and a
store under way enters its object if nobody has done so meanwhile (`RememberedInv`).
Only at the start of a minor collection the sets must be disjoint, or an object traced
from two of them would be scanned twice.  A step of the collector keeps an object and then writes the reference, so
the proofs state the invariant as a function of the memory (`Collecting`) and use it
for the memory in between: `KeptIsWell` says what keeping does, whichever of its
five cases applies.  `QuietNow` and `QuietNext` are the same between collections.

The refinement rests on `CollectionInherits`: every record a collection leaves is
that of a place the object had before, with an attribute of the same name
(`AttributesInv`).  What the graph shows is the set reached from the variables in
as many steps as there are objects; `ReachedIsLeast` shows that this is the least
set closed under attributes, so it depends only on the attributes of what is
reached (`ReachedSame`), and the walk over locations names the same objects as the
walk over objects (`ReachedNames`).  `BecomesStep` then reduces each step of a
script to what it does to variables and attributes.  That a store still finds its
object reachable is `StoresInv`: the object is in a local of the storing thread.

`EvaluatorProofs` proves, for any bounds and any sizes of the pools (`BoundsNat`):

| Theorem | States |
|---|---|
| `EvalCorrect` | `Spec => [](BufInv /\ EvalInv)` |
| `BuffersCorrect` | `Spec => []BuffersLive` |
| `StacksCorrect` | `Spec => []StacksAgree` |
| `PoolsCorrect` | `Spec => []PooledAreDead` |
| `ReturnsCorrect` | `Spec => []BlocksReturnToCaller` |
| `JumpsCorrect` | `Spec => JumpsExact` |

`BufInv` is `BuffersLive` with types and is inductive by itself: a jump takes off
one buffer at every activation it passes, so what is left always belongs to those
below.  The other properties need that there is a list `ch` of frames, the oldest
first, with `env->frame` at its end, no frame twice, every `prev` the one before
(`ListGood`), and with it `EvalInv`: while code runs, there is for every C
activation the length `pos` that the list had when it was the top one, and what an
activation of a kind added to it is known (`Added`, `Level`): a mainloop a finish
frame and script frames, a native function one C frame, an instruction nothing.
During a jump the same holds for the activation of the newest buffer and the C code
it called, and the target is on the list (`JumpGood`).  `FramesGood` and `FuncsGood`
say where `return` of a block goes: a block notes it when it is made, in a frame
that then is `used` and so is neither cleaned nor pooled (`PoolGood`).

The proof that a step preserves `EvalInv` has a lemma per action.  Calls and returns
change the list at its end (`FramePushed`, `FramePopped`, `LevelGrow`, `LevelCut`).
A jump that comes to a mainloop looks through the list four times (`skip_c_frame`,
`rollback_frames`, `skip_to_c_frame` and the search of `break` and `return`);
`SkipIs`, `RollbackIs`, `SkipToCIs` and `SearchIs` say what each finds when the frames
of that mainloop are those of `Loops`.  From that the jump either ends at its target
(`Landed`) or goes on to the next buffer with its target still below (`PassedOn`).
`Chain`, `Home` and the agreement of `StacksAgree` are recursive functions: the proofs
show that the recursion has a solution (`RecursionExists`) and then reason about it
by `IntervalInduction`, over the frames of the list, the blocks around a block, and
the activations.

These theorems say nothing about what happens after a jump has found its target below
a finish frame that stands on a script frame (`mode = "crossed"`, section 2), or after
`compare_val` has swallowed one (`mode = "swallowed"`, section 3): the model stops
there.  They cover the latter state itself: `Going` is the invariant of `"run"` and
`"swallowed"` alike, and `BuffersLive` says that one buffer, the newest, is stale.

`ChunkAllocatorProofs` proves, for any sizes of arenas, headers and small chunks, any
number of bins, any requests and any number of mappings (`AlignmentAssumption`,
`BinsAssumption`, `MappingAssumption`):

| Theorem | States |
|---|---|
| `Invariant` | `Spec => []IInv` |
| `TypeCorrect` | `Spec => []TypeOK` |
| `TagsCorrect` | `Spec => []BoundaryTags` |
| `ListsExact` | `Spec => []FreeListsExact` |
| `ObjectsApart` | `Spec => []ObjectsDisjoint` |
| `NoLeaks` | `Spec => []NothingLeaks` |
| `BestIsFound` | `Spec => BestFit` |

`IInv` is `TypeOK` and `Memory`, which says together what the properties say one by
one, for none of them is inductive alone.  `Tiled` is `BoundaryTags` for one arena,
with what merging needs besides: sizes are multiples of the alignment (`ChunkSize`),
and a chunk that says that the one before is free has one before it (else
`merge_with_prev_chunk` reads a footer that is not there).  `Laid` adds that every
header is in an arena or at the start of a huge mapping (`Placed`); so a header
inside the room of an object contradicts the tiling, which is why objects are
disjoint.  `Holds` says of the bins that they list exactly the free chunks; without
it an allocation could take a chunk that is in use, and a merge look for a neighbour
in a bin where it is not.  `Lives` and `HugeMapping` tie objects to used chunks that
are large enough and to mappings.

`Memory` is a predicate of six arguments, not of the variables: an allocation in a new
arena changes memory twice in one step, first by `alloc_arena` (`ArenaMemory`) and
then by `handle_free_chunk` (`TakeMemory`), and `delete` takes up to two chunks out of
bins before it adds one.  Each of these has three lemmas: what the tags are
afterwards (`TakenTags`, `MergeTags`), that they tile the arena (`TakeTiles`,
`MergeTiles`; `LocalChange` for everything outside), and what the bins hold
(`TakeHolds`, `MergeHolds`).  `ADD_TO_LIST` and `DELETE_FROM_LIST` are `LinkedAhead`
and `Unlinked`.  A `munmap` that is refused (section 3) leaves memory in agreement
(`RefusedMemory`) and only the object is gone: after it the heap stands still.

`BestFit` is a statement about the bins: `find_small_chunk` takes the first chunk of
the first bin with any, `find_large_chunk` the best of the first bin that has one
large enough.  That this is the best of the heap needs that small bins hold one size
each (`SmallIndex`) and that a larger size is never in an earlier large bin
(`LargeMonotone`): two bins per power of two, by the highest bit and the one below
it.  Its proof is arithmetic on `Pow2` (`PowersAdd`, `HighestBit`, `LargeCases`);
`FindsBest` puts the two searches together.

Why `Detached = FALSE`: without it `MainLast` and `CounterExact` are false
(finding 1).  The assumption is the exact boundary of the correct programs: a
script that joins what it starts.

Only model-checked: liveness (fairness and `ENABLED` are out of the prover's
reach), and what `try_finally` shows of `TryStatement`, whose compiler is a RECURSIVE
operator and stays with TLC.  Every safety property of the passing runs is a theorem.

Induction.  The library's induction theorems take an operator as a parameter, which
the installed provers cannot instantiate.  `Induction` states what the proofs need
for sets instead: a nonempty set of numbers has a least element (`LeastNat`, from
the library's theorem on well-founded relations, which is about a set), a set that
holds 0 and is closed under successor up to `n` holds `0 .. n`
(`IntervalInduction`), and a function defined step by step exists
(`RecursionExists`).  `Rehashed` is written as a recursive function over the entries
because `SelectSeq` cannot be reasoned about here.

## 5. Not modelled, and why

FFI and the wrappers of system calls (data layout and I/O without control of
their own), the grammar and the layout of byte code, regular expressions and
bignum arithmetic (vendored libraries Corgi and BigDigits), the mark-sweep
build, compaction (switched off in the source), the file search of import.
In modelled parts: the links of `running_threads` (a set here, so `Thread#run`
twice on one object is left out), values and arguments of threads, cyclic
imports, the room in a young heap (whether a to-space can hold what several heaps
copy into it), objects with more than one attribute, finalizers other than that
of `Thread`, strings that change after they became a symbol; values and operand
stacks of frames, and what follows a jump that passes a finish frame standing on a
script frame or one that `compare_val` swallows;
the blocks of handles inside a scope; keys whose `hash` or `==` raise or change the
table, tables that threads share without a lock, `YogTable_foreach`, and what
`each` meets when the table grows under it; `return` inside a try statement.

## 6. Plan

Done: the handshake and the life of threads, import, the allocator, the symbol
table, the generational heap, the evaluator's frames and jumps, the hash table,
try statements, and the proofs of every safety property that the passing runs check.
Next, the behaviour that matters most first:

1. `HeapClients`: `GenerationalHeap` composed with the promise of `StopTheWorld`
   and with the pointers kept across waits in `join` and `wait_package`; the room
   in the to-space.
2. `Coroutine` composed with `Evaluator`: one stack of frames and buffers per
   coroutine.
3. Pure algorithms against reference definitions, in one run: argument binding,
   method resolution, fixnum overflow and division, path normalisation,
   `getopt`, encodings.
4. The `concurrent` extension's barrier; the lexer's queues.
