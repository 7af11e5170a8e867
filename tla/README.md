# PiGFX in TLA+

PiGFX is a bare-metal program for the Raspberry Pi: an ANSI colour terminal
that takes bytes from a serial line and keys from a USB keyboard and draws on
the framebuffer. This directory holds TLA+ models of its parts, the TLC
configurations that check them on small instances, and proofs that their
invariants hold, and that they implement their abstract specifications, on
instances of any size.

## 1. Inventory

| Part | Source | State it keeps | Operations | Interacts with |
|---|---|---|---|---|
| terminal screen | `src/gfx.c` | `ctx`: pixels, text geometry, cursor, saved position, save-under buffer, colours | print, motions, erasures, line editing, scroll, attributes, resize | scanner (calls), DMA (channel 0), key handler (resize from the interrupt) |
| ANSI scanner | `src/gfx.c` | `ctx.term.state`: next state function, private character, parameters | one byte at a time | screen; host (answers to queries); key handler (prints through it) |
| GSX graphics | `src/gfx.c:416-1280` | drawing attributes `gsx` | lines, polygons, arcs, markers, bitmaps, escapes | scanner (parameters), framebuffer |
| main loop, key handler | `src/pigfx.c` | LED state, baud table | byte loop, heartbeat, function keys | everything |
| software timers | `src/stupid_timer.c` | table of 20 slots | attach, detach, poll | heartbeat (main loop), key repeat (main loop and interrupt) |
| USB keyboard | `uspi/lib/usbkeyboard.c` | last report, repeat timer and key | report completion, repeat handler | timers, key handler |
| heap | `src/nmalloc.c` | free list inside the free memory | malloc, free with merge | USB stack at boot |
| UART ring, flow control | `src/pigfx.c`, `src/uart.s` | ring pointers, count, RTS | fill (interrupt and main loop), take | main loop |
| DMA queues, bell | `src/dma.c`, `src/bell.c` | control blocks and their count per channel, pending bells | enqueue, execute, poll | screen, main loop |
| mailbox | `src/postman.c`, `src/framebuffer.c`, `src/raspihwconfig.c` | none of its own; the mailbox FIFO | send, receive, property calls | GPU |
| baud table | `src/pigfx.c` | sorted table, divisors | add initial rate, rotate | UART |
| Intel HEX loader | `src/uart.s` | parser position | load | UART |
| USB host stack | `uspi/lib` | transfers, devices, hubs | vendored | keyboard driver |

There are two actors: the main loop (`term_main_loop`) and the interrupt, which
is never nested and runs to its end. The USB interrupt completes a keyboard
report and calls `_keypress_handler`, so a key that prints or resizes does so in
the middle of whatever the main loop was doing. The vendored USB stack has a critical
section, which it uses in its host controller driver (`uspi/lib/dwhcidevice.c`); it
protects none of the accesses modelled here, and nothing else in the program takes a
lock or disables interrupts. What is hard to test follows from that, and from
three more facts: the cursor is a recolouring of the text itself, undone from a
saved copy; the scanner is one state machine fed by two actors; geometry can
change at any moment. `PROJECT.json` lists the hazards at their lines.

What makes each part correct:

* screen: what the host sees is what a terminal without a cursor block would
  show; the cursor is on the screen; the border is not drawn over;
* scanner: parameters never written outside a sequence, each byte one screen
  operation or none, the strings of the keys do what they are for;
* timers and repeat: the newest key held repeats and no other does; the
  heartbeat goes on; no null handler is called, no assertion fails;
* receive buffer: bytes in order, none lost by a host that stops when told, the host
  told to go on, none left in the FIFO;
* heap: no byte lost or handed out twice; a request fails only if no gap fits;
* DMA and bell: a transfer is done once, in order, with its own colour; nothing is
  drawn into rows that are moving; remembered bells ring;
* mailbox: a success that is reported was carried out; calls and answers stay in step;
* baud table: every press goes to the next rate, though rates come back rounded;
* GSX: figures are the shapes they are called; graphics calls leave text, cursor and
  block as consistent as the text sequences do.

## 2. Modules

| Module | Models | Built on |
|---|---|---|
| `Gfx` | the terminal half of `gfx.c`, and the GSX calls that act on it, as operators `ctx -> ctx`, named like the C functions | |
| `GfxPage` | the variable `ctx` and the page behind the cursor block: `Logical` | `Gfx`, `LogicalScreen` |
| `Terminal` | the screen with one step per character or complete sequence, F10 and F12 | `GfxPage` |
| `Workstation` | GSX on the terminal: open, close, escapes, drawing | `Terminal` |
| `LogicalScreen` | abstract: a page of text, a position, attributes; no cursor block, no position outside the page | |
| `TerminalRefinement` | the mapping from `Terminal` and `Workstation` to `LogicalScreen`; tab stops of a wide screen | both |
| `MCTerminal` | values for the constants | `TerminalRefinement` |
| `GfxProofs` | lemmas on every operator of `Gfx`: types, cursor, what it does to the page | `GfxPage`, TLAPS |
| `TerminalProofs` | theorems about `Terminal` and `Workstation` | `TerminalRefinement`, `GfxProofs` |
| `AnsiScanner` | `gfx_term_putstring` and the state functions byte by byte; host and key handler | `GfxPage` |
| `AnsiRefinement`, `MCAnsi` | the mapping to `LogicalScreen`, alphabets | `AnsiScanner` |
| `AnsiProofs` | theorems about the scanner and its refinement | `AnsiRefinement`, `GfxProofs` |
| `DmaBell`, `TransferQueue`, `MCDmaBell` | control blocks, engines, bell, main loop and key handler; what a queue of transfers promises | |
| `UartRing`, `Channel` | the receive buffer with its two writers and the line that stops the host, and what the host may rely on | |
| `KeyRepeat` | timer table, heartbeat, keyboard report and repeat, one step per shared access | |
| `Mailbox`, `MCMailbox` | the property requests of a start and the GPU | |
| `Nmalloc`, `Allocator` | the heap and what an allocator promises | |
| `GsxShapes` | the figures of GSX as sets of pixels, and what each should be | |
| `BaudTable` | the rates of F11 and the divisors of the UART | |
| `TimerClock` | the test whether a timer is due, on a clock that wraps | |
| `KeyRepeatProofs`, `MailboxProofs`, `DmaBellProofs`, `UartRingProofs`, `AlgorithmsProofs` | theorems about these components | the module named, TLAPS |
| `MCAlgorithms` | the inputs of heap, baud table, figures and clock | `Nmalloc`, `BaudTable`, `GsxShapes`, `TimerClock` |

Operators introduced by a comment `Slip:` are the mutants of `PROJECT.json`:
the mistakes the properties are shown to detect. They take part in no
specification.

### 2.1 Terminal

`ctx` is the `FRAMEBUFFER_CTX`. Pixels are abstracted to character cells
`<<glyph, foreground, background>>`; a blank cell has one colour. The screen has
rows `0..MaxHeight` and columns `0..Width`: row `HEIGHT` and column `Width` are
the positions one past the edge, at which the code draws the cursor before it
wraps or scrolls. In memory column `WIDTH` is the start of the next pixel row;
the code restores it before anything else touches it, so it is modelled as a
column of its own. Rows from `HEIGHT` on are border. The page the host sees is the
screen with the cell under the block replaced by `cursor_buffer`; `GfxPage` has this
mapping to `LogicalScreen` once, for the terminal, the workstation and the scanner.

`gfx_restore_cursor_content` and `gfx_term_render_cursor` are the two halves of
every operation: lift the block by writing `cursor_buffer` back, change, copy the
new cell and recolour it. Which operations lift and which do not is modelled call
by call, as is the end of the loop in `gfx_term_putstring` (`EndOfChar`).

Abstractions: glyphs are members of a small set; underline changes bitmaps only
and is left out; a DMA transfer is complete when the code next waits for channel 0
(every text operation waits before it returns to the scanner or reads pixels);
the colour of border strips a resize uncovers is left open (`edge`); the banner
`[<n> lines]` of F10 is printed character by character with any glyphs.

The host keeps to three conditions unless `Lax` says otherwise: it shows only a
hidden cursor, inserts no more lines than are left, recalls only positions that
are on the screen. `terminal_show_shown` shows what happens when the first is
dropped; section 3 says how the other two fail.

`Workstation` adds GSX. Opening a workstation hides the cursor, clears the page and
goes home; closing it sets the flag and puts the cell back, but the block is drawn
only by the next motion; the escapes are operations of `Gfx`. Drawing may make
anything of a cell (`Marks`). Two more conditions are the host's: it enters graphics
mode (escape 2) only with a hidden cursor, and draws nothing on the cursor's cell.
Without the first (`"graphics_shown"` in `Lax`) the block stays on the page as text;
without the second (`"draw_under_cursor"`) what was drawn there is overwritten with the
saved copy at the next motion, even if the cursor is hidden: what a figure leaves in
the top left character is gone when the workstation is closed. A text of escape 12
that runs past the right edge leaves blocks behind, since the cursor is drawn at each
column without being lifted and nothing wraps; the host's texts fit in their row.

### 2.2 AnsiScanner

The variable `scn` is `ctx.term.state`; `typed` is what the key handler has still
to print, and the host waits while it is not empty (the interrupt runs to its
end). One step is one byte, by the `state_fun_*` of the code or, for control
characters, at once in any state. `MaxParams` bounds the length of the host's
sequences and `Values` names the parameters it sends, prefixes included. Of
`ESC[#...G` the calls that act on the terminal are here, with their answer `G`; a call
that lacks parameters would act on those an earlier sequence left in the array
(`cmd_params_size > 0` at `gfx.c:1597` is no test of that) and is not made. NUL ends the string `gfx_term_putstring` is given and never reaches the
scanner. With `Lax = {}` a key comes only when no sequence of the host is open;
`ansi_key_in_sequence` drops this.

### 2.3 Nmalloc

`block` are the headers in the free memory, `data` the size words of the blocks
handed out. The walks along the list are recursive functions of the address, the loop
that merges neighbours one of the number of its turns (`Turns`).
Sizes are scaled: a header of 3 bytes, a word of 1. The heap is used at boot and
by the USB stack from one context; there is no interleaving to model. Requests of
size 0 are not made.

### 2.4 KeyRepeat

`pc` is the next access of the main loop to shared state: look at a slot (`poll`),
read the handler again and free the slot (`fetch`), read its argument and jump
(`call`), cancel the handle (`cancel`), clear `m_hTimer` (`clear`), look for a free
slot (`find`), take it (`store`), keep the handle (`assign`). A keyboard report is
one step, possible when `pc \in Windows`. Time is a flag per timer (`due`).

The driver protects nothing, so `Windows` is a parameter: the runs show for which
points of preemption the properties hold.

### 2.5 UartRing

The build without `STANDALONE_TERMINAL`. `uart` holds the ring, both pointers, the
count, `rts_on` and the line; one slot more than the ring stands for the memory after
it. The main loop is stepwise (`pc`, with `reg` the pointer or count it has loaded):
take a byte (`take` to `wrap_start`), show it, fill (`poll` to `halt`). The order is
that of the compiled code: `*uart_buffer_end++ = uart_read_byte()` makes the call
first, then advances the pointer, then stores; `*uart_buffer_start++` advances the
pointer before the slot is read. The interrupt is the same function in one step,
possible when the FIFO has reached its trigger level and `pc \in Windows`. The host
numbers its bytes modulo `Numbers`, which does not divide the size of the ring, so a
byte that is lost, repeated, stale or out of place shows. A host that `obeys` sends
nothing while the line is high; bytes already in the FIFO still arrive. `Filled` is the
loop that empties the FIFO, as a function of the bytes already taken. Overflow of
the FIFO itself is left out: the host sends no byte while it is full.

### 2.6 DmaBell

The build with `STANDALONE_TERMINAL`, the only one whose main loop rings remembered
bells (`pigfx.c:470-481`). A call of the program is a script of steps on shared state:
wait for channel 0, write pixels, enqueue, execute, ring. `main` and `handler` hold what
is left of the two scripts; the main loop goes on when the handler is empty. `blocks`
and `curr_blk` are `ctr_blocks` and `curr_blk` of `dma.c`; `engine` is the hardware, which
reads a control block when it starts it (`Load`) and not before; `colour` are the two words
in `mem_buff_dma` that fills read, so that a second fill in one queue would change the
first. `TransferQueue` is the promise: per channel the transfers still owed, jobs
appended whole, the oldest removed when it is done. The mapping computes what is
owed from the engine, the chain it will follow (`Links`), the queue being filled and the
rest of both scripts (`UpTo`).

`Windows` says at which points of the main loop a key may come. Text and pixels are
not in this module, nor is the PWM that plays the tone.

### 2.7 Mailbox

`buffer` are the stack frames the callers build their requests in, `toGpu` and
`fromGpu` the two FIFOs. A request is written in two steps, response code first, as
its frame may still be at the GPU from an earlier call with the same address. Time is
a choice: a wait may be given up whenever the test of the mailbox fails, or after a
message of another channel was skipped. `served` and `late` are history. `InStep` is about calls whose wait was not given up: the
mailbox holds the address of the call that waits (`own`) or one answer, and nothing else. The GPU answers when
it likes, refuses, posts on other channels, or does nothing at all. Both directions are tested with the
status word of mailbox 0 (`postman.c`), which the model takes for the state of
the FIFO in question. The values in answers, and the calls of `framebuffer.c` without a
caller, are left out. `initialize_framebuffer` ignores that `fb_init` has failed and
goes on with the palette; so does the model. Every call but one tests the response
code; the one that asks for the pitch tests a word of its tag instead, and after an answer
that is in order `fb_init` may still fail for what it says (`framebuffer.c:201-226`).
`Check` has one outcome for all of these failures, and lets the calls that can meet them
fail whatever the code is.

### 2.8 The algorithms

`MCAlgorithms` puts four parts without concurrency in one specification, one part per
behaviour.

`GsxShapes` translates the drawing functions pixel by pixel and states next to them
what they should be: a line is one pixel per step along its longer side and the same
from both ends, a polygon is the even-odd interior, a pattern is the same whatever is
filled, text turns about its start. The columns of a row, which the code sorts by exchanging
neighbours, are given in order by counting. The slopes of a polygon are floats in the code and
exact fractions here; in the code a slope like 1/41 times 41 comes out one column short, so
what the run and the theorems say of polygons is true of the code for coordinates up to about
10, where the two agree, and beyond that but for a column here or there along an edge. `atan2`
is a float series in the code and a table here, with the error of the series
(640 instead of 634 tenths of a degree for the point (1,2)).

`BaudTable` has `uart0_setbaud` and `uart0_getbaud` as integer arithmetic on the divisor in
sixty-fourths. `TimerClock` is the condition in `timer_poll`.

## 3. Runs

| Run | Instance | Shows |
|---|---|---|
| `terminal_colours` | 2x2, blank text, every attribute change | `ShownDistinct`, `HiddenClean`, `ImplementsScreen` |
| `terminal_text` | two fonts, every line limit: 1 to 3 lines of 2; one glyph, counts 0 and 2, saved positions, GSX | `TypeOK`, `CursorOnScreen`, `MotionsAgree`, `ImplementsScreen`, `BorderKept` |
| `ansi_editing` | 2x2: editing, erasing, saving, querying, GSX; Print Screen | `ParamsOpen`, `BytesImplementScreen`, `PrintScreenClears`, `ReportReturns` |
| `ansi_attributes` | one column, two shapes, attributes with 38;5;n, private sequences; F10, F12 | `TypeOK`, `BytesImplementScreen` |
| `algorithms` | a heap of 40 bytes; a screen of 7x7; a clock of 16 ticks; the real baud table | `Tiling`, `TypeOK`, `ListSound`, `ImplementsAllocator`; `PolygonsSound`, `FiguresSound`; `TimersInTime`; `RatesRotate` |
| `key_repeat` | 3 slots, 3 keys, reports between polls | `RepeatsOnlyHeld`, `OneRepeat`, `Survives`, `Heartbeat`, `HeldKeyRepeats` |
| `uart_ring` | 8 slots, stop above 4, go on below 2, FIFO of 2 | `TypeOK`, `ImplementsChannel`, `HostResumed`, `BytesShown` |
| `dma_bell` | 3 channels of 4 control blocks, 2 colours, 2 remembered bells | `TypeOK`, `DrawsAlone`, `ImplementsQueue`, `JobsDone`, `RememberedRing` |
| `mailbox` | 8 requests, FIFOs of 3, 2 messages to skip, 2 tries for power | `SuccessServed`, `InStep`, `StartUpEnds` |

Why the bounds are enough. A page of two columns has a first and a last column,
both next to the wrap; two lines have a cursor row and a row to scroll into, three
have a row above, at and below the cursor for line editing; a count of 2 reaches past
every edge from some position, and in one step from the first to the last of three
lines. Four colours tell foreground, background and their complements apart.
On two columns no tab stop but 0 can be reached, so `MotionsAgree` also evaluates
`WideTabs`: the tab and back tab of `Gfx` from every column of a screen of three whole
stops and two columns more. The heap holds at most six smallest blocks, enough for
free blocks before, after and on both sides of one that is freed, and for fragmentation
that refuses a request. Three timer slots are the heartbeat, one repeat, and one that a
race can leak. Eight ring slots let a host that does not obey fill the ring and go
round it; as in the code, what is left above the stop limit is more than the FIFO and
the byte in hand, which `UartAssumption` states. Four control blocks hold the longest
job (erase and scroll) and one more would be refused. Two remembered bells reach the
limit; a hidden cursor, which only shortens a scroll, is left out. A FIFO of three
messages holds two late answers and a foreign message, or is full. The figures are all
lines with ends up to one pixel off the screen, all circles and arcs up to radius 3, all
triangles on 4x5 points, all quadrangles on 3x3, zigzags of five points, every bar, marker
height and direction of text. The clock of 16 ticks has every last tick, time since
and interval. The baud table is the real one, from each customary rate of the firmware
and each divisor of a range near the fast end.

Violations, each a disagreement between the code and what it says:

| Run | Finding |
|---|---|
| `terminal_show_shown` | `ESC[?25h` on a shown cursor leaves a ghost of it on the page |
| `ansi_key_in_sequence` | Print Screen inside a sequence of the host does not clear the screen |
| `key_repeat_stuck` | a key released while its repeat is called or rearmed repeats for ever |

More deviations are built into the model and can be seen by changing a
configuration: with `"insert_past_bottom"` in `Lax`, `ESC[<n>L` with more lines than
are left below the cursor blanks lines above it (`gfx.c:343`); with
`"recall_off_screen"`, a position saved before F10 made the screen shorter is recalled
below it (`gfx.c:1509`), and both `ImplementsScreen` and `CursorOnScreen` fail; with
`"clear"`, `"find"` or `"assign"` in `Windows`, leaked repeat timers fill the table
and an assertion fails (`usbkeyboard.c:413`). And `ESC[3m`, which
`doc/terminal_codes.txt:40` lists as reverse video on, changes nothing: the tests at
`gfx.c:1880-1902` turn it on for 7 and have no case for 3.

Rows and columns of a position are unsigned and one is taken from each before it is
clamped (`gfx.c:1910-1914`). A parameter 0 therefore wraps, and `ESC[0;0H` goes to the last
row and the last column, not to the first, where terminals take 0 for 1. `MotionsAgree`
says just this of every position with a parameter 0 (`Addressed`); that of the other
motions a count of 0 moves nowhere; and that otherwise no wrap shows.

What preemption breaks in `KeyRepeat`: with `Windows = {"poll", w}`,

| Property | Broken for w in |
|---|---|
| `RepeatsOnlyHeld` | call, cancel, clear, find, store, assign |
| `OneRepeat` | clear, find, store, assign |
| `Survives` | fetch (null handler), clear, find, assign (table full) |
| `Heartbeat` | store |

In `UartRing` the interrupt does no harm at the twelve points of `uart_ring` together.
At one of the others, with `top`, `show` and `poll`, it breaks:

| Point | Broken | What happens |
|---|---|---|
| leave, load | `ImplementsChannel` | the interrupt drops the oldest byte, the main loop then puts the pointer back; or the slot given up is overwritten before it is read |
| uncount, counted | `ImplementsChannel`; `HostResumed` for uncount | an update of the count is lost, the host is stopped too late, the ring overruns; once the pointers meet undetected the count stays up and the host is never told to go on |
| read | `BytesShown`, `HostResumed` | the byte that was polled is gone and the main loop waits for another |
| put | `ImplementsChannel` | the byte in hand is stored after the ones that came later |
| advance, write, wrap_end | `ImplementsChannel`, `HostResumed`; `TypeOK` for write and wrap_end | bytes of the interrupt are overwritten, or written after the buffer |

In `DmaBell` keys do no harm at the idle point, while the main loop is ringing, and,
for F11 and Print Screen, which wait first, while channel 0 runs. Opened one at a time,
the other points break:

| Key | Point | Broken |
|---|---|---|
| F10, F12 | busy, wait, draw, enqueue, execute | `ImplementsQueue`: they clear the screen without waiting, and restart the channel under the transfer that runs |
| F11 | wait, draw, enqueue, execute | `ImplementsQueue`; `DrawsAlone` for draw |
| Print Screen | wait, draw, enqueue, execute | `ImplementsQueue` |

In `Mailbox`, an answer that comes after its wait was given up ends the wait of the
next call, and every later exchange is one behind. `SuccessServed` holds nevertheless,
because the caller reads the response code in its own buffer, provided that a late
answer goes to a frame no other call uses. With `frame <- Same`, where functions with
frames of one layout share an address, it is violated: three waits are given up, and
the late answer marks a request that is only half written again as carried out.

What the algorithms run leaves out because it does not hold:

* `RatesRotate`: initial divisors whose next rate has a fraction that rounds up to 64
  (`init_uart_baud` 107143, 56604 or 37975 set such divisors); the six-bit register drops it.
  No customary rate is affected.
* `TimersInTime`: a timer attached by an interrupt after `timer_poll` read the clock, if
  the clock wraps between the two, fires early.
* Filled figures partly off the screen: `gfx_filled_hline` draws with `gfx_line`, which
  pulls points to the edge instead of cutting, so that the figure smears along the edge
  row and column; the arms of diagonal markers bend there.
* The graphic cursor is cut at the left and upper edge only (`GSX_MAX_NDC` is 32767): near
  the right or lower edge it wraps into the next row or leaves the framebuffer.
  `place_graphic_cursor` has the addresses the code computes, and `GraphicCursorSound`
  says that removing it restores whatever was recoloured.
* The centre of the graphic cursor is recoloured by both loops (`gfx.c:752-759`), every other
  pixel of its arms by one. `get_xored_index` undoes itself for 133 of the 256 colours of the
  palette, and of the first sixteen for all but 7: on those the centre keeps its colour, and
  what is seen is a cross with a hole. `GraphicCursorSound` counts: once on the arms, twice at
  the centre, and nothing else.
* `gfx_filled_polygon` does not compare the number of points with `MAX_PTSIN`.

`doc/gsx_codes.txt` lists "Draw Text" without the position the code takes as second and
third parameter, and "Draw Bitmap" as not implemented, which it is.

Fairness. `FairSpec` of `KeyRepeat`: the main loop is an infinite loop that nothing
blocks, `WF(Main)`; time passes, `WF(Elapse(s))` for every slot. `FairSpec` of
`UartRing`: `WF(Main)`, and `SF(Ready)` because a transfer of the DMA engine ends, so
that the main loop does not find it running every time it looks. Keyboard reports, the
UART interrupt and the host need none; `BytesShown` excludes in its own premise a host
that sends faster than the loop of `uart_fill_queue` reads. `FairSpec` of `DmaBell`: the
handler runs to its end, `WF(Handle)`; engines load and finish, `WF`; the main loop goes
on whenever interrupts leave it time, however often they come, `SF(Main)`. No key need
be pressed; `RememberedRing` has as its premise that keys do not keep channel 0 busy for
ever. `FairSpec` of `Mailbox`: the processor goes on, `WF(Program)`, and that includes
the time limits of its waits; of the GPU nothing is assumed.

## 4. Proofs

Every safety invariant, action property and refinement the passing runs check is proved
for all values of the constants, except `RatesRotate` and liveness (4.3); where a property
depends on the moment of an interrupt, for the runs the table names. The theorems use the
named assumptions of the modules (`SizeAssumption`, `FontAssumption`, `HostAssumption`,
`MarksAssumption`, `HeapAssumption`, `ClockAssumption`, `UartAssumption`,
`DmaAssumption`, `NoneAssumption`, ...), which TLC evaluates in every run, and where the
table says so a hypothesis of their own. The runs of section 3 satisfy all of these.

| Module | Theorem: property | Hypothesis |
|---|---|---|
| `TerminalProofs` | `TypeCorrect`, `WorkstationTypeCorrect`: `TypeOK` | none, any host |
| | `CursorStaysOnScreen`, `WorkstationKeepsCursor`: `CursorOnScreen` | no position is recalled that is off the screen |
| | `TerminalImplementsScreen`: `ImplementsScreen`; `HiddenCursorIsClean`: `HiddenClean`; `BorderIsKept`: `BorderKept` | `Careful` |
| | `WorkstationImplementsScreen`, `WorkstationHiddenClean`, `WorkstationKeepsBorder`: the same with GSX | `Careful`, `GsxCareful` |
| | `CursorIsSeen`: `ShownDistinct` | `Careful`; no colour is both ink and paper |
| | `MotionsAreExact`: `MotionsAgree` | `Careful`, `GsxCareful` |
| `AnsiProofs` | `ParametersAreOpen`: `ParamsOpen`; `ScannerTypeCorrect`: `TypeOK` | none, any bytes |
| | `BytesAreLogical`: `BytesImplementScreen` | `HostCareful` |
| | `ReportsReturn`: `ReportReturns` | no position is recalled that is off the screen |
| | `PrintScreenIsClear`: `PrintScreenClears` | the same, and no key inside a sequence |
| `KeyRepeatProofs` | `KeyboardAnywhere`: `TypeOK`, one heartbeat at most, no failed assertion before all slots but one hold a repeat | none, any `Windows` |
| | `KeyboardSurvives`: `Survives`; `RepeatsOnce`: `OneRepeat`; `RepeatsWhatIsHeld`: `RepeatsOnlyHeld` | `TwoSlots`; runs whose reports all come at `poll` |
| `MailboxProofs` | `CallsStayInStep`: `InStep` | none |
| | `SuccessIsServed`: `SuccessServed` | `Apart`: only the three requests of `fb_init` share a frame |
| `DmaBellProofs` | `QueuesTypeCorrect`: `TypeOK` | none |
| | `PixelsDrawnAlone`: `DrawsAlone` | `Undisturbed`: no key between a wait and its drawing |
| | `BellKeepsPromise`: `TransferQueue` of the two channels of the bell | `RoomForJob`: three control blocks or more; any `Windows` |
| | `QueuesKeepPromise`: `ImplementsQueue` | `RoomForJob`; runs in which every key finds the main loop `AtRest` |
| `UartRingProofs` | `RingInBounds`: `InBounds` | none, any `Windows` |
| | `RingTypeCorrect`: `TypeOK` | runs without an interrupt at `write` or `wrap_end` |
| | `BytesKeepOrder`: `ImplementsChannel` | `LimitsApart`; runs without an interrupt at `Updating` or `Moving` |
| `AlgorithmsProofs` | `NoByteIsLost`: `Tiling`; `FreeListIsSound`: `ListSound`; `HeapTypeCorrect`: `TypeOK`; `HeapImplementsAllocator`: `ImplementsAllocator` | none |
| | `TimersAreInTime`: `TimersInTime` | none |
| | `LineIsExact`: `LineSound` | none, any points |
| | `BarIsItsRectangle`: `BarSound`; `GraphicCursorIsRestored`: `GraphicCursorSound`; `CircleIsRound`: `CircleSound`; `MarkersAreEven`: `MarkerSound`; `BarsShowStyles`, `CirclesShowStyles`: `StyleSound` | the figure is on the screen; of the graphic cursor the centre, and its arms are shorter than the screen is wide |
| | `TextTurns`: `TextSound` | `Legible`: every glyph fits its cell, and the text in every direction the screen |
| | `PolylineJoinsItsPoints` | the points are on the screen |
| | `ArcsMakeTheCircle`, `ArcsTurn`: `ArcSound` | `Measured`: the angles are those of the first quarter; for the second also `Apart` |
| | `PolygonIsFilled`: `PolygonSound`; `PolygonsShowStyles`: `StyleSound` | the points are on the screen, however many; exact slopes |
| | `PolygonsAreSound`: `PolygonsSound` | the screen is five by five or more, what the polygons of the run take |
| | `FiguresAreSound`: `FiguresSound` | `Fits`: the screen is seven by seven or more, and what the figures of the run take |

### 4.1 The hypotheses

`Careful` excludes the three hazards of the text sequences: showing a shown cursor,
inserting more lines than are left, recalling a position that fell off the screen.
`GsxCareful` excludes the two of section 2.1. `HostCareful` is `Careful` for the scanner
and excludes graphics calls that lack parameters, and figures, which the workstation
covers. They are conditions on the host, and section 3 shows what each prevents.

When an interrupt comes is up to the world, and nothing in the code keeps it from coming
anywhere. So the theorems that hold only for some moments say it as a condition on the run:
`KeyboardSurvives`, `RepeatsOnce` and `RepeatsWhatIsHeld` are about runs whose reports all
come while `timer_poll` looks for a timer that is due; `QueuesKeepPromise` about runs whose
keys all come between the scripts of the main loop, and F10 and F12, whose handlers wait
for nothing, only while channel 0 is idle (`AtRest`); `BytesKeepOrder` about runs without an
interrupt while the main loop writes back a pointer or the count (`Updating`: uncount,
advance, counted, write, wrap_end) or has a byte in hand (`Moving`: leave, load, put);
`RingTypeCorrect` excludes of these the two between which the pointer may lie behind the
buffer. They say that these moments are the only ones that matter: as long as a run keeps to the
condition the property holds, and the tables of section 3 show what the other
moments break. `PixelsDrawnAlone` has the weaker `Undisturbed`: it leaves every point but that
between a wait and its drawing open, and does not need the queue to be in order.

`KeyboardAnywhere`, `BellKeepsPromise`, `RingInBounds` and `QueuesTypeCorrect` say what
is true wherever the interrupt comes: a race may leave repeats running, but the heartbeat is
never doubled, and the program stops only when the table is full of repeats but for one
slot; a key may spoil a transfer on channel 0, but a ring of the bell is always one tone, done
once; bytes may be lost, but what is read lies in the buffer and what is written in it
or one slot behind.

`LimitsApart` says that what the FIFO holds when the line is lowered does not raise it
again; in the code 4096 + 16 is well below 12288. `RoomForJob` holds with the four
blocks of `dma.c:5`. `Apart` fails only if the compiler gives frames of one layout to functions
that are not the same; section 3 has the run that breaks then. No ink is a paper in the
`terminal_colours` run; with the sixteen colours of the code a host may of course
choose ink and paper alike, and then no cursor can be seen.

`Measured` holds of the code: `atan2` of `gfx.c` is between 0 and 90 degrees for the points of
an eighth, rounded to whole degrees. `Apart` says that only the point above the centre
has 90; with the rounding that is true up to a radius of 111. From 112 on its neighbour has 90
too, and an arc that ends or begins on an axis may end a pixel later than its turned image.

### 4.2 The invariants and the argument

*Terminal.* `TypeOK` is not inductive: the type of a row does not say that it is at most
`HEIGHT`, and a scroll takes back one row only. An operation leaves the cursor at most
one past the right edge or one past the bottom (`Landed`), and `EndOfChar` brings it
back onto the page (`Settled`). For the page the invariant is `Good`: settled, on the
screen, and if the cursor is hidden its cell is the saved one. For each operator of
`Gfx` a lemma `...Works` in `GfxProofs` says what it does to the page with the block lifted; `...IsLogical`
names the operation of `LogicalScreen`. `CursorIsSeen` needs two more facts:
`Palette`, inks and papers stay what the host may choose, and `Distinct`, the block and the cell
under it differ. `MotionsAreExact` needs of `Good` only that the cursor is on the page;
the rest is that the mask of the code, which rounds a column down to a multiple of eight,
finds the nearest tab stop.

*Scanner.* `Scanning`: the next state function determines whether parameters may be
open, and what the key handler still has to print is made of printable bytes and
escapes. With `Good` it gives the refinement, byte by byte; the parameters of one `m` are
taken one after the other by a recursive function. `Printing` follows the nine bytes of
Print Screen through the states of the scanner.

*Key repeat.* The invariant says, for each value of `pc`, which of the heartbeat and the
repeat is in the table and which is in the hands of the main loop, and that the handle kept
is that of the only repeat, armed for the newest key. Without the condition on the run less is
left (`Everywhere`): a heartbeat is in the table only while its handler is not running, and
there is one at most, so a table without a free slot is full of repeats but for one slot
(`FullIsFlooded`).

*Mailbox.* `StepInv`: between the writing of a request and its check there is one message
or one answer, and none for anyone else. `ServeInv` gives up this synchrony and keeps
what is left of it: the frame of a call holds its own request, and is marked "ok" only if
that was carried out; the GPU holds this frame at most once, and no other that a call
still to come will use.

*DMA.* `DrawInv`: in what is left of a script every drawing comes right after a wait; if it
begins with the drawing then channel 0 is idle. For the refinement, `Wired` says that a chain of
control blocks only goes up by one, that the blocks of a queue being filled are linked to the
next and the last is open; and `QueueInv` says how far the queue is when a script is at a
given step (`AtStep`): nothing is queued at a wait, a drawing or a bell; at a further
transfer of a scroll exactly its predecessors are; an execution finds a queue and an idle
channel. That no block of a running chain is rewritten then follows from the order of the
steps (`InOrder`), which is proved of every string the terminal and the keys print; that no
colour word changes under a transfer follows because the transfers of one queue use
different words, and the tones none. What is owed is then the same before and after each
step of a script, gains a job when a script begins, and loses its first transfer when an
engine finishes. For `BellKeepsPromise` the jobs and chains of channels 1 and 2 are enough
(`ToneOwed`): only the main loop rings, so no handler touches those two queues, and the
tones use no colour word.

*UART.* `Typed` bounds what the main loop has loaded into `reg` by the point where it uses it.
For `ImplementsChannel`, `CountInv` relates the count to the distance of the pointers,
corrected by what is in the middle of being taken or put, and shows that there is always room for what the FIFO holds.
The contents matter too: `Contents` reads the slots from `start` to
`end` as the sequence of the refinement mapping (`Holds`), and `InOrder` says that what
the main loop has loaded is still there when it is used. That is why the points of
`Moving` are excluded as well: there the interrupt would drop the byte that is being taken,
or store its own before the one in hand.

*Heap.* `HeapInv`: the free list is in the order of the addresses and linked both ways; the
free and the live blocks tile the arena; and no two free blocks touch. The third makes a
refusal final, which `Tiling` and `ListSound` do not need and the refinement of
`Allocator` does. Walks along the list and the turns of the merge are recursive functions.

*Timers.* Time since a timer was last due, taken modulo the clock, is compared exactly as
long as it is below the clock's width less the slack of a poll.

*Figures.* The error term of `gfx_line` is what the line has gone sideways, multiplied out,
less what it should have (`DriftIs`), so it never is more than half a step; that both
directions draw the same, where two pixels are equally near, is `Turned`. A bar is
lines along its rows, and the graphic cursor runs of addresses (`PFB`). In `gfx_circle` the decision variable
is the distance of the next pixel from the circle, `Near` bounds it through every
step, and the eighths meet (`RoundsMeetAll`). Circles and markers are sets of distances
from their centre (`Around`), whose symmetry is immediate. An arc is a set of images
(`Spot`) with their angles (`Bearing`): two arcs that follow each other join, and a quarter of
a turn takes an image to the next but one (`QuarterOn`, `QuarterBack`), where the images on
the axes need `Apart`. A step of either loop
changes two numbers, and the invariant is nonlinear in them: products are
multiplied out in lemmas of their own.

*Polygons.* Of the sorted columns the proof needs only that the k-th is at or before a
pixel exactly if k edges are (`NthIs`). Going round the points, the side of the row
changes an even number of times (`ChangesAreEven`), so the columns come in pairs. The
column of an edge is its true place on the row, rounded down (`CutOff`), and no further
left or right than its ends. So a pixel between the columns of a pair has an odd number of
edges to its left, or one of them passes through it (`PairsFill`). This is about the slopes as
fractions, at any size; what single precision makes of a long edge is in 2.8.

Induction over data is not available in this prover. Where a loop of the code is a
recursive function over numbers, what it computes is proved by a least counterexample:
the set of places where the claim fails has a least element (`LeastNatural`, from the
well-foundedness of finite sets), and the step to it gives the contradiction. So no
hypothesis bounds the length of the list, the chain, the script or the parameters.

### 4.3 Only model-checked

* `RatesRotate` is about one table and is settled by computing it.
* Liveness (`Heartbeat`, `HeldKeyRepeats`, `HostResumed`, `BytesShown`, `JobsDone`,
  `RememberedRing`, `StartUpEnds`): fairness is out of the prover's reach.

## 5. Not modelled

* The Intel HEX loader: `uart_load_ihex` has no caller in the program.
* The USPi library apart from its keyboard driver: vendored. Its environment and samples
  are not linked. `CImg.h`, which is two thirds of the repository's lines, belongs to the
  tool that converts fonts.
* `ee_printf.c` and `console.c` format diagnostics; fonts, build files and linker scripts
  have no behaviour of their own; `dma_memcpy_32` and several calls of `framebuffer.c`
  have no caller.
* A key in the middle of one `gfx_term_putstring`: `DmaBell` has its steps for the DMA
  queues, but text and cursor take each character in one step.
* The calls that only set an attribute of GSX figures, what the key handler writes to the
  host, key maps and LEDs, WordStar mode.
* More parameters than the array of the scanner has room for: nothing counts them.

## 6. Plan

1. `Putstring`: one character in its steps (lift, wait, draw, move, wrap, scroll), with
   the key handler between them, as a refinement question about `Terminal`.
2. Key maps: modifiers, WordStar mode and what reaches the host.
