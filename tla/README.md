# Precursor OS: a TLA+ model of the microkernel's core

Precursor is a small x86 microkernel in C and assembly. This directory models the parts of the
uniprocessor build whose correctness depends on the order of things: the lock-free frame allocator,
the boot-time allocator on top of it, the way into the kernel and out of it, the interrupt path, the
display and its output, and the way the kernel goes down. The modules follow the code under
`Source/Kernel` and `Include/Kernel` (paths below are relative to the repository); `PROJECT.json`
lists the lines each definition stands for.

All models are of the checked build, in which a failed `KDebug_assert` is a breakpoint exception
that takes the kernel down.

## The system and its parts

`kmain()` (`Source/Kernel/Executive/main.c`) initializes the display stream, the shutdown manager,
the exception and the interrupt dispatcher, then the physical memory manager, enables interrupts and
waits. Everything after that happens in interrupt and exception handlers.

| Part | State | Operations | What is hard |
| --- | --- | --- | --- |
| `PmmBitmapAllocator` | bitmap, index of the last success | create, allocate, allocateFrame, free; from any CPU without a lock | interleaved reads and compare-and-swaps; retries; wrap of the scan; frame 0 is `PHYS_NULL` |
| `PmmRegion` | base and last address | create, advance, clip, makePageAligned | 32-bit wrap-around at both ends of the address space |
| `PmmWatermarkAllocator` | window, its bitmap, lock, two region lists | create, allocate | moving the window while RAM is left in it; rounding; overlapping regions |
| `PhysicalMemoryManager` | its allocator and lists | initStageOne | highest address; shared list iterators; the first window is filled before it returns |
| Region lists | iterator positions | reset, moveNext, getCurrent | past-the-end states; concatenation; 64-bit lengths |
| `BootLoaderInfo`, translator | copied Multiboot structures | translate, init, getters | fixed-size buffer; in-place changes that stop half way |
| `Processor`, `WritableTrapFrame` | GDT, IDT, TSS, dispatch table; the trap frame on a stack | initPrimary, register, EnterKernel, dispatchToHandler, switch of context | layouts that agree by hand between assembly, C and the processor; which stack is in the TSS |
| 8259A driver | none (the chips') | init, mask, unmask, endOfInterrupt | what a byte means depends on those before it; end of interrupt names no line |
| `InterruptDispatcher` | handlers in the dispatch table | init, both handlers | interrupts at any moment once enabled |
| `ExceptionDispatcher` | none | register, handle | re-entering whatever was running |
| `KShutdown` | processor that shuts down, two settings | fail, halt, reboot | failing while shutting down; no lock may be waited for |
| `DisplayTextStream`, `Lock` | buffer, saved IF | init, reset, write | handlers write in the middle of a line; a crash between print and index reset |
| `KOut`, `TextWriter` | parser state on the stack | write, writeLine | malformed formats; widths; smallest integer |
| `KernelDisplay` | cursor, video memory; the adapter's registers | print, newLine, tab, clear, colours, reset | scrolling; counts that become negative; the order of accesses to the adapter |

How they interact: the watermark allocator owns a bitmap allocator for its window and walks the
region lists, through interface tables, every time the window moves. Interrupt gates clear IF, so
device interrupts do not nest; exceptions come on top of anything, go through `ExceptionDispatcher`
to `KShutdown_fail()`, and that takes the display over from whoever was writing to it.
`DisplayTextStream` asks `KShutdown` whether to lock. `KOut` formats into the buffer of the stream,
the stream prints it through `KernelDisplay`. What the boot loader left is copied by the translator
before anything else can run, and read through the region lists. Asserts connect everything with
everything: each is an exception.

## Modules

| Module | Models | Correspondence |
| --- | --- | --- |
| `FrameAllocator` | `IPmmAllocator.h`, abstractly | where each frame is: free, taken by a call, held, returned by a call; a step moves one frame |
| `PmmBitmapLayout` | the arithmetic of the bitmap | frame to block and bit and back, the order of the scan; no state |
| `SequentialBitmap` | `PmmBitmapAllocator.c`, for a client with a lock | the free frames and the index of the last success; an operation is one step, and `allocate()` is first fit |
| `PmmBitmapAllocator` | `PmmBitmapAllocator.c` | `pc`, `i`, `beforeLast`, `block`, `frame` are a call's place and locals, per CPU; every atomic read, write and compare-and-swap is an action |
| `PmmRegion` | `PmmRegion.c` | regions as records, operations as functions of them, modulo the address space |
| `PmmRegionObject` | a region and those who call its operations | `object` is the region, `returned` the result of the last call |
| `PmmWindow` | the window of `PmmWatermarkAllocator.c` | what `freeRegion()` and `allocateRegion()` do to the frames of a window; no state |
| `PmmWatermarkAllocator` | `PmmWatermarkAllocator.c` | one action each for: acquiring the lock, trying the bitmap, moving the window (with the walks over both lists), releasing; calls of the bitmap are made under the lock and are the steps of `SequentialBitmap` |
| `RegionCursor` | `IPmmRegionList.h`, abstractly | a position in a sequence of regions |
| `RegionLists` | the Multiboot iterators | an iterator's state as a value; moveNext() and getCurrent() as functions of it; no state |
| `PhysicalMemoryManager` | `PhysicalMemoryManager.c`, `ConcatPmmRegionList.c`, `BootLoaderInfo` | the iterators' states as variables; every call of reset() and moveNext(), and every iteration of initStageOne() and of initCurrentRegion(), is a step; `NoRegion` is a failed assert |
| `BootLoaderInfoTranslator` | `BootLoaderInfoTranslator_x86_Multiboot.c` | `step` is the place in `translate()`; each pointer that is mapped or copied is an action; `space` says for each byte of the buffer where it came from, `touched` how far physical memory was read |
| `ProtectedMode` | `ProtectedMode.h` and what the processor makes of it | a descriptor as its bytes, how the processor reads them, which entries are usable; no state |
| `Processor` | `Processor_x86_uni.c`, `Processor_x86_uni_asm.s`, trap frames, `ExceptionDispatcher` | stacks as sequences of words, one per context; `Trap` is what processor, stub and EnterKernel push; `Return` is the switch to the frame a handler returned |
| `KernelEntry` | `Boot_x86_uni.s`, `main.c` | `boot` is how far kmain() is; composes `Processor` and `BootLoaderInfoTranslator` |
| `Pic8259A` | the chip (external) | mask, requests, in service, expected initialization word, vector offset |
| `InterruptController` | `InterruptController_x86_8259A.c` | each function is the sequence of its port writes |
| `InterruptDispatcher` | dispatcher, `Processor`, devices | `frames` is the kernel stack; every port write is a step |
| `DisplayTextStream` | `DisplayTextStream.c`, the uniprocessor lock | every character takes the steps Lock, PrintBuffer, ClearBuffer, Store, Unlock |
| `KMem` | `KMem.h` | bits and alignment; no state |
| `VgaAdapter` | the VGA (external) | register groups, flip-flop, write protection, planes |
| `KernelDisplayMode` | `KernelDisplay_x86_Vga.c`, mode and font | the mode table and each function as its list of port accesses |
| `KernelDisplay` | `KernelDisplay_x86_Vga.c`, text | row, column, colours, memory; print, newLine, tab and clear as functions of these |
| `TextWriter` | `TextWriter.c` | numbers to characters; no state |
| `KOut` | `KOut.c` on all of these and on the stream's buffer | the parser is a state machine of characters, one step each; `paper` is all that was ever printed |
| `KShutdown` | `KShutdown.c` with `kmain()`, handlers, exceptions | extends `DisplayTextStream`; `frames` again is the kernel stack |

`MC*.tla` give TLC definitions for constants that a configuration cannot express; `*Proofs.tla` hold
the theorems. Definitions whose comment begins with "Bug:" are not part of any specification: they
are plausible mistakes, each of which makes one of the properties fail when it takes the place of
the definition after it.

Composition: `KernelEntry` extends `Processor`, which uses `ProtectedMode`, and
`BootLoaderInfoTranslator`; `KOut` extends `KernelDisplay`, `TextWriter` and `KernelDisplayMode`,
which uses `VgaAdapter`; `PmmWatermarkAllocator` extends `PmmWindow`, which extends `PmmRegion`, and
uses, for the order of the scan, `PmmBitmapLayout`; `InterruptDispatcher` uses
`InterruptController`, which uses `Pic8259A`; `KShutdown` extends `DisplayTextStream`;
`PhysicalMemoryManager` extends `PmmWindow` and `RegionLists`, which extends `PmmRegion`, and maps
its RAM list and its used list to one instance each of `RegionCursor`. Both allocators are shown to
implement `FrameAllocator` under a refinement mapping (`WhereIs`). The bitmap allocator on a single
CPU implements `SequentialBitmap`, whose operators (`FirstScanned`, `Scanned`)
`PmmWatermarkAllocator` takes for its atomic calls.

Variables that are not the code's are history variables or the environment, and are named as such
where they are declared: `held`, `stable`, `given`, `accepted`, `wanted`, `touched`, `cause`,
`output`, `paper`, `objectPadded`, and in `suspended` the registers at the time of a trap.

The same code appears in more than one module where different questions are asked of it. `kmain()`
is seen from the processor in `KernelEntry`, from the display in `KShutdown`, from the controllers
in `InterruptDispatcher`. `initCurrentRegion()` is one step of `PmmWatermarkAllocator`, where threads
compete for what it has set up, and its region lists are sets of regions; in `PhysicalMemoryManager`
it is the loops over the iterators, inside `initStageOne()` and again for every later window.
`WindowFilled` says that both come to the same frames. `KOut` has the buffer of the stream without its lock, with nobody
interfering; `KShutdown` has the lock and the interference, and lines of text as given sequences of
characters.

## What the runs check

| Run | Configuration | Bounds | Shows |
| --- | --- | --- | --- |
| bitmap | `MCPmmBitmapAllocator` | 2 CPUs, 3 blocks of 2 bits, base 0 | no frame twice, none lost nor `PHYS_NULL` given, asserts hold, implements `FrameAllocator`; what a failing scan has looked at and a successful one passed over; progress |
| bitmap_null | `MCPmmBitmapNull` | 1 CPU, 2 blocks of 2 bits | **violated**: `PHYS_NULL` means no free frame |
| region | `MCPmmRegionObject` | 16 addresses, pages of 4, all regions | advance, clip, page alignment |
| watermark | `MCPmmWatermarkAllocator` | 2 threads, 32 addresses, 4 windows of 4 frames, up to 2 RAM and 1 reserved regions | only usable frames given, none passed over, end of memory, when it bugchecks |
| memory_manager | `MCPhysicalMemoryManager` | 16 addresses, pages of 4, two windows of 2 frames; maps of up to 2 entries of 8 kinds, or 3 of 3 kinds, or the memory fields, or nothing; up to 2 modules | lists implement `RegionCursor`, so enumerate what the loader reported, `numFrames` covers the RAM, both windows are filled with what they should be, `initStageOne()` returns, or bugchecks for a cause |
| interrupts | `MCInterruptDispatcher` | devices on lines 1, 5, 8, 12 | handlers found, right lines dismissed, master served |
| interrupt_slave | `MCInterruptSlave` | devices on lines 1, 8 | **violated**: nothing is left in service |
| shutdown | `MCKShutdown` | buffer of 2 characters, 4 frames deep, 4 characters before a shutdown | text complete and in order, one shutdown in control, it ends |
| shutdown_reset | `MCKShutdownReset` | as before, no faults | **violated**: without a fault nothing resets the machine |
| kernel_output | `MCKOut` | screen of 3 lines of 3, buffer of 9, formats of up to 4 of 15 characters, 5 steps of work | what a call writes is what `KOut.h` documents; the screen shows the end of all that was printed; the adapter ends up in its mode and is dark meanwhile |
| kernel_entry | `MCKernelEntry` | 17 loaders; 2 threads of the kernel, 1 user; 4 traps on lines 0 and 15, vectors 0, 8, 14, 15, 30h and asserts | the kernel's copy of the loader's information, or none for a cause; reports tell the truth; who is resumed is as interrupted; what resets the machine |
| user_mode | `MCKernelEntryUser` | 1 user, 2 traps, on line 0 or as a system call | **violated**: a thread gets from user mode to its kernel stack |

Why the bounds are enough. *Bitmap*: two CPUs race for a block, and what more of them could do to a
call between its steps one can do by several calls; the theorems are for any number. Two bits let
calls race for different frames of one block, so that a swap of `free()` fails; three blocks are the
fewest for which the scan wraps round, and leaves a block out between two that it looks at.
*Region*: the code treats addresses alike apart from page boundaries and the two ends; four pages
have first, last and inner ones. *Watermark*: windows before, between and behind the RAM; regions
begin and end in the middle of pages and of windows, are adjacent, overlap, or share a page. *Memory
manager*: entries at both ends of the address space, across its end, around all of it, above it and
empty, in every order; three entries let a walk skip one between two, or two in a row; there is a
window behind the first, with something of it left over or not; the kernel is in the second, so that
the first, which lacks frame 0, has a frame to leave in the bitmap. *Interrupts*: two lines per
chip, one above and one below the chained line on the master. *Shutdown*: a buffer of two fills up
in a line of one handler after a character of another; four frames are `kmain()`, an interrupt
handler, an exception in it and one in its shutdown, and the next one could only reset the machine.
*Kernel output*: the screen overflows by a character, by a line, and by a text that fills it; the
buffer is as large as the screen, as it is in the code; four characters make `%-*d` and `%*ld`, five
steps of work a malformed format, its rest and a text of the display's own after it. A byte, a short
and a word have one, two and three hexadecimal digits, and the integers are 0, one of two decimal
digits, and one that is negative in a short. The BIOS leaves all registers of the adapter 0 or 255,
so that the CRT controller is protected or not, and the flip-flop in either position; the theorems
cover what is between (`LeftByBios`). *Kernel entry*: every part of the loader's information is
missing, is there, ends with the mapped memory or lies behind it; the copy just fits and just does
not; the vectors have an error code or none, CR2, a reserved vector, the breakpoint and the system
call. Four traps are a nested interrupt, a switch away, another one there, and an exception on top.
A byte has four values, so that the halves of addresses in gates and descriptors can be mixed up.

Types: `TypeOK` is proved for both allocators, `KShutdown` and the memory manager, so that no run
checks it; `ObjectTypeOK` of regions is `RegionsStayRegions`. The processor, the translator and
`KOut` have the types that they need in their invariants (`ProcessorInv`, `TranslatorInv`,
`OutInv`). That of `InterruptDispatcher` only documents its variables: the proofs do not need the
masks to be bytes.

### Fairness

* Bitmap: weak fairness of each CPU's steps inside a call, none for making calls. A CPU keeps
  executing; the code has no waits. With this `SomeCallReturns` (lock-freedom) holds, and
  `AloneReturns` says what a single CPU can rely on. That every call returns is not claimed and is
  false: a CPU may lose its race again and again.
* Watermark: weak fairness of what a thread does with the lock held, since nothing blocks it there.
* Memory manager: weak fairness of the loops of `initStageOne()`, which runs with interrupts
  disabled, and of `initCurrentRegion()`, which it calls, and which later runs under the allocator's
  lock; none of the walks of others.
* Interrupts: weak fairness of a running handler and of taking a pending interrupt that the
  processor can take; strong fairness of enabling interrupts, because code that disables them does
  so for a bounded time, again and again. Nothing is assumed of devices.
* Shutdown: weak fairness of the code that is running; faults and interrupts are not fair.
* Kernel output and kernel entry: no liveness is claimed and no fairness assumed. Formats are
  finite, loops over them consume a character a step, and what handlers do is up to them.

## What is proved

The theorems hold for all values of the constants; TLAPS checks them from the named assumptions.

* `PmmBitmapAllocatorProofs`: `TypeCorrect`, `FramesInOnePlace`, `FramesNotLost`, `AssertsHold`,
  `NullNeverGiven` and `Refinement` (`Spec => Abstract!Spec`). `OnePlace` and `NoneLost` speak
  about sets of frames and are not inductive: a step computes its new block from a local copy. The
  inductive invariant `IInv` adds `LocalsOK`, what a call knows of its local block between read and
  swap, and `Partition`, the same two properties frame by frame. A swap succeeds only if the block
  still equals the local copy, so it changes the bit of exactly one frame (`ClearBit`, `SetBit`);
  every action then moves one frame or none.
  `LayoutRoundTrip` is about the arithmetic: the bitmap's numbering of frames is a bijection. It
  needs `BaseAligned`: `getBitInBlock...()` ignores the base of the bitmap
  (`PmmBitmapAllocator.c:68-71`), so the base has to be a multiple of the block size. The one
  client guarantees it; `BaseAligned` is an explicit hypothesis of every theorem that needs it.
  `FailureMeansScannedAlways` has an invariant of its own. The blocks a call has still to look at
  are the ones ahead of it in the order of the scan (`Ahead`, up to the one left out); what was
  free all through the call is ahead of it or in the block left out, because a block is passed only
  when it was read as empty. `FirstFitAlways` is what the same invariant says of a call that
  succeeds: the frame taken is the lowest in its block (`LowestIsLeast`), the rest that stayed free
  is ahead, and ahead means later in the scan (`AheadIsLater`).
  `SequentialRefinement` is about a single CPU: the frames that have been free since its call began
  are the free ones (`SoleInv`), so that its swap takes the first of those it scans
  (`SoleTakesFirst`) and it gives up only if there are none (`SoleFindsNone`). A call takes effect
  with its swap; before and after, its steps stutter. No run is about this: the theorem is. This is what allows `PmmWatermarkAllocator` to
  make its calls, which a lock keeps apart, in one step each.
* `PmmRegionProofs`: the type invariant and the three action properties of regions for an address
  space of any whole number of pages, and what the allocators need of regions: what `PageAligned`
  and `Clipped` do to the set of pages, and when `advance()` ends.
* `PmmWatermarkAllocatorProofs`: `TypeCorrect`, `OnlyUsableGiven`, `NothingPassedOver`,
  `FailureAccountsForRam`, `BugcheckOnlyOnSharedFrame` and the refinement of `FrameAllocator`, for
  any memory map, page size and window size. None is inductive: they compare what was given with
  all the memory map. The invariant says that the window is the k-th part of the frames; that what
  is free in it is what was usable in it when it was filled, less what was given since; that the
  index of the scan only goes up within a window (`ScanInv`), so that what is left when it fails is
  in the one block the scan leaves out (`EmptyInv`); and that nobody changes any of it without the
  lock (`LockInv`).
* `KShutdownProofs`: `TypeCorrect`, `InterruptsAsLeft`, `OneInControl`, `NothingDropped`,
  `ReportComplete`, for any size of the buffer, depth of the stack and texts. The invariant `IInv`
  has the shape of the stack (`kmain()` at the bottom, an interrupt at most right above it,
  exceptions above, and no exception ever returns, so what is below one never runs again); that
  interrupts are enabled only where nothing is above `kmain()` and that between lock and unlock the
  lock holds the flag to restore; that nobody is in control before the compare-and-swap; and, for
  the text, the three ways display and buffer relate to what was written (`DropInv`): together they
  are it; the display alone is, while the running code is about to clear the buffer; or the same
  holds of code that was interrupted there for good, and the call on top of it is about to take the
  display over. For the report, `ReportInv` says that as much of it as the running code has written
  is at the end of what was accepted, and that nothing is left in the buffer once its last
  character is printed.
* `InterruptDispatcherProofs`: `InterruptsAreHandled`, `HandlerMatchesLine`, `DismissesItsOwn`, for
  devices and masks on any lines. The invariant says what each initialization word has got each
  chip to (`Progress`), that afterwards only masks are written, that the master has nothing in
  service while no handler runs, and that while one does, it has at most the line the interrupt
  came in on.
* `PhysicalMemoryManagerProofs`: `StageOneCoversRam`, `WindowFilled` and the refinement `ListsImplementCursor` of
  `RegionCursor`, for maps, fields and modules of any number and values. A list's position in the
  map is a count, the number of its entries up to the node it is on (`Rank`). `moveNext()` passes
  over no entry of the list, so it adds one to the count (`NextRank`), and the count tells entries
  apart (`NthOfRank`); so the region it comes to is the one in that place of the abstract sequence.
  The induction is over the finite set of indices, which the library's theorems allow. For the list
  of used memory, `UsedInv` says that its second list stays reset until the first has ended;
  `StageOneInv`, that `highestAddr` is the highest of the regions that the loop has passed; and
  `FillInv`, that the bitmap has the frames of the regions of RAM that its loop has passed, less
  those of the used ones that the next loop has (`FramesUpTo`). That loop is left out only where it
  would change nothing, because all RAM is below the window (`BelowHasNone`).
* `KernelEntryProofs`: `ResumesAsInterrupted`, `ReportTellsTruth`, `ResetsOnlyUnprepared`, for any
  number of contexts, traps and words in an assert, and any addresses of stubs and of the TSS.
  `ProcessorInv` says of each context's stack that the frames on it are whole, do not overlap, and
  that the last one is where the stack ends unless the context is running (`StackInv`); that user
  contexts have only the frame that was made up for them, which is so because the processor resets
  the machine before there is another (see below); that `regs` belong to whoever is running
  (`RegsInv`); how far booting is (`BootInv`); that gates and descriptors, read back from their
  bytes, are what was put in (`TablesInv`); and that what the handler called knows of the cause is
  what the hardware had (`CauseInv`).
  `InfoAsLoaded`, `FailsOnlyForCause` hold for any loader, strings, sizes and alignment.
  `TranslatorInv` says step by step which pointers have been mapped and to what (`MapInv`); and
  that each part copied is in the buffer below `dest` as it was in the loader's memory, where
  nothing is copied over it any more (`CopyInv`). The space used is the running sum of the rounded
  sizes, and rounding up never gets past the end of an aligned buffer, which is why the code may
  check before it rounds.
* `KOutProofs`: `ScreenShowsPaper`, `OffScreenOnlyIfLong` and `OutputAsDocumented`, for a screen and
  a buffer of any size, and any formats and arguments (of a call that gave an object a width, the
  last one says only whether it succeeds: see 5. below); `ModeIsSet` and `BlankMeanwhile`, for any
  state in which a BIOS leaves the adapter. For the first two, one relation,
  `Shows(display, page, pending, lost)`, says that the page is so many lines that are lost, then
  what is on the screen, then what is still pending; each function of the display keeps it, with as
  many lines lost as it scrolls. That what a `TextWriter` sends keeps it is an induction over its
  characters (`AllWritten`), and that numbers, strings and objects are texts is proved for each
  type. Between initialization and the first picture the screen is cleared (`ClearsBeforeUnblank`),
  so that what the BIOS left there does not matter.
  What `KOut.h` promises is defined by recursion over the format, while the parser goes by
  characters. `FormatInv` says that what has been read is a format of which the output is all that is
  to be written (`Writes`: however format and arguments go on), and perhaps a specifier that has been
  begun, whose parts are what the parser's state says (`Inside`). A character then completes a piece
  of the format (`CharPiece`, `PercentPiece`, `SpecPiece`), goes on with it, or cuts it off
  (`CutOff`). It takes that no two specifiers begin in the same place (`SpecUnique`), so that the one
  that the definition chooses is the one that was read. What is written of an argument is what is
  documented of it (`FormattedIs`): `NumDigits` digits by division and by recursion are the same
  (`DecimalIs`, `HexadecimalIs`), and a number is interpreted in one way only (`InterpretedIs`). The
  existence of the recursive functions is proved by induction over finite sets, one set at a time.
  Of the adapter, `AdapterAt(vga, saved, n)` says what is known after the first `n` accesses. Nothing
  is known of a register before its access (`SetAt`); from then on it holds the value of the table,
  but for the time in which `initFont()` has changed it (`HeldAt`). The rest is what that needs: the
  register that the next access goes to and the flip-flop (`IndexAt`), the values that `initFont()`
  saved (`SavedAt`), and that the palette and the CRT controller are not locked when they are
  written, the picture being off and bit 7 of register 11h clear (`PictureAt`). `ResetParts` takes the
  lists of the code apart into their 177 accesses; each is shown to lead from `n` to `n + 1`
  (`EveryStep`), for any bytes in the registers that are not written yet.

Assumptions on the constants are named ASSUMEs in the module that declares them, and each is what
the code or its environment provides: addresses are below the end of the address space and a page
divides it (`PhysAddrAssumption`); the loader's numbers are numbers of that width
(`BootAssumption`) that do not wrap when added to an address (`TranslatorAssumption`); windows
divide the address space (`WindowAssumption`), which the header asks of `NUM_BLOCKS`; numbers and
widths are as wide as a `size_t` (`OutputAssumption`); stubs have
different addresses of two words (`ProcessorAssumption`); an assert is a message, a file and a
line (`AssertionAssumption`); a BIOS leaves a byte in every register of the adapter
(`BiosAssumption`), and nothing else is assumed of it; a tab is shorter than a line
(`DisplayAssumption`); no integer has more than the processor's 8 hexadecimal digits (`HexDigitsAssumption`), which bounds the number
of decimal digits. That the watermark allocator's lock makes the operations of its bitmap atomic is
the one thing that its model takes from the code as given; what they do then is proved.

Only model-checked:

* All liveness: it is out of the prover's reach, as are fairness and ENABLED. Every other property of
  the passing runs is a theorem.

## Where the code does not do what it says

1. `PmmBitmapAllocator_allocate()` never looks at the block before the one it starts at
   (`PmmBitmapAllocator.c:169`), and so returns `PHYS_NULL` with frames free, against
   `IPmmAllocator.h:62-63`. `FailureMeansScanned` is what does hold: every other block was seen
   empty. In the watermark allocator, which frees nothing after a window is set up, the loss is
   bounded: `NothingPassedOver` and `FailureAccountsForRam` state exactly what is left out
   (`LeftOut`), the last block of a window in which nothing is usable between the first block, where
   the scan starts, and that one.
2. `InterruptController_endOfInterrupt()` sends the slave's EOI to the master
   (`InterruptController_x86_8259A.c:175`): after its first interrupt the slave delivers nothing of
   the same or a lower priority. `MasterServed` therefore is claimed for the master's lines only,
   and `DismissesItsOwn` shows that the second EOI dismisses nothing else.
3. `KShutdown_halt()`, `_reboot()` and `_fail()` called with interrupts enabled reset the machine in
   a checked build (`KShutdown.c:108`, `DisplayTextStream.c:229`). The call in `kmain()` comes
   before interrupts are enabled.
4. The TSS gets the code selector as `SS0` (`Processor_x86_uni.c:367`), so that any interrupt,
   exception or system call in user mode resets the machine, against `IInterruptHandler.h:61-62` and
   the handling of user-mode frames at `Processor_x86_uni.c:198-201` (`UserEntersOnKernelStack`).
   `ResetsOnlyUnprepared` is therefore about what comes in the kernel. It also lets the machine reset
   while `translate()` runs, before `kmain()` has registered its handlers, and for an assert there.

These four are findings, each with a run that shows it. Three more are between the code and its
headers, too, and are properties' limits rather than runs:

5. `%*O` pads every character that the object writes, and the flush at its end, instead of the object
   (`KOut.c:331`, `TextWriter.c:283-301`), against `KOut.h:82-85`. `Written` is what the header says,
   and `OutputAsDocumented` does not hold of what a call writes that has given an object a width; it
   says so (`objectPadded`), and of such a call only whether it succeeds, and that the buffer is empty.
6. A text as long as the screen but for less than a line, printed by a client of the display itself
   behind the top left corner, begins before the video memory (`KernelDisplay_x86_Vga.c:731`),
   against `KernelDisplay.h:99-103`. `OffScreenOnlyIfLong` says exactly when.
7. `PhysicalMemoryManager_initStageOne()` returns a number of frames (`PhysicalMemoryManager.c:83`,
   `:109`, which has a FIXME), but `PhysicalMemoryManager.h:65-66` says that it is the memory
   required, in bytes, and `:50-51` that it is the size of the database. `StageOneCoversRam` is what
   does hold of it, as a number of frames.

Smaller ones, found while reading or while a model was being written, and kept out of the findings:

* Memory. The page-aligned whole address space has length 0, against the comment at
  `PmmRegion.c:37-38`; `framesToBlocks()` rounds down (no caller); RAM regions are rounded outwards,
  so a page that is only partly RAM is given out; a memory map with an empty region, or one above 4
  GB, bugchecks the kernel as soon as a walk reaches it (`GetCurrentAsserts`, `StageOneEnds`), and
  `Multiboot.h` says only of the latter that it must not be there; so does RAM of two regions in one
  frame of the first window, still inside `initStageOne()` (`FirstWindowFails`).
* Entry. Behind the selector in `SS0` there is a second mistake that cannot show yet: `ESP0` is set
  only when the frame switched to is one of ring 3, so that a thread resumed inside the kernel would
  later return to user mode with another's `ESP0`. Since no thread of a user gets into the kernel,
  `ResumesAsInterrupted` holds, and no run says what would be if one did. The gate of `int 30h` has
  DPL 0 although the comment at `Processor_x86_uni_asm.s:149-151` has user code execute it. The
  limits loaded for GDT and IDT are their sizes, one byte too many.
* Display. The mode table has 90 columns (`_90x60_text`), but `KernelDisplaySize.h:30` says 80, so
  that lines of the text are not lines of the picture; the model of the text has a constant
  `Columns`, and that of the adapter has no columns. A negative width is read as a `size_t` and pads
  with billions of spaces; `KOut.h` does not say what it means.
* Shutdown. A reboot delay below a second prints no message; before `KShutdown_init()` the zeroed
  structure says "processor 0 is shutting down". The mask written before ICW1 is cleared by ICW1 (no
  harm with interrupts disabled).

## What is not modelled

* Several processors: the waiting branch of `KShutdown_initiateShutdownMode()` and
  haltAllOtherProcessors() do nothing in this build. The bitmap allocator is modelled for many CPUs,
  as its documentation promises.
* A scheduler: the source has none. The threads of the kernel and of users in `KernelEntry` are the
  environment, which uses what `IInterruptHandler.h` lets a handler do: return the frame of another
  context, made up or suspended.
* Page tables, the temporary GDT and the way into protected mode in `Boot_x86_uni.s`, and limits and
  granularity in descriptors: straight-line code over memory layout, without a state that anything
  comes back to.
* The wording of messages, and in `KShutdown` the layout of the display; characters are model values
  there and `accepted` is their order. Fonts are a value, "8x8".
* Loaders whose counts or lengths wrap around 32 bits when added to an address. `RegionLists` takes
  the information as already translated and with a map whose nodes fill it exactly.
* Copying, comparing and filling memory, and strings (`KMem_x86.s`, `KString`), which are taken for
  what their clients use them for; atomic operations without a client.
* `mask()` and `unmask()` called with interrupts enabled, against their header: nobody calls them at
  all yet.
* `PhysicalMemoryManager_initStageTwo()` and user-mode exceptions, which are empty in the source,
  and the boot-time unit tests other than as clients of the display and the region lists.

## Plan

Done, in this order: frame allocator with proofs; regions with proofs; watermark allocator;
interrupts; display stream and shutdown; region lists and memory manager; the display and formatted
output; the translator, the processor's tables, and the entry into the kernel; proofs of the
watermark allocator, of the scan of the bitmap and of its use under a lock, of shutdown and its
report, of the interrupt path, of the region lists, of the processor's entry and the translator, of
the screen, of formatted output, and of the adapter's mode.

Left:

1. `KOut` and `KShutdown` in one model, once a client writes formatted text from two contexts with
   different buffers.
2. The bitmap allocator below the watermark allocator on several CPUs, should `free()` ever be
   supported there without the lock.
