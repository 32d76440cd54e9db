# A verification project for the convolution reverb

The repository is a convolution reverb on an FPGA: a Nios II program
(`software/src/`: `main.c`, `fft.c`, `fir.c`, `sdram.c`, `sram.c`, `display.c`)
and the cores it drives (`vhdl/`). The impulse response of a room is cut into
three parts:

| part   | length (defines.h)                         | computed by |
|--------|--------------------------------------------|-------------|
| FIR    | `FIR_SIZE` = 512 taps                      | two FIR cores, sample by sample |
| header | `HEADER_BLOCK_NUM` = 14 blocks of 256      | 512-point FFT core, header MAC on the SRAM |
| body   | `BODY_BLOCK_NUM` = 23 blocks of 4096       | 8192-point FFT core, body MAC on the SDRAM |

This directory holds TLA+ models of that program and its hardware, the TLC
configurations that check small instances of them, and proofs for all sizes.

## Inventory

**Program, `test()` in main.c.** State: sample counter, header and body input
buffers and their fill counters, the newest block of the header and of the body
ring (`latest_in_block`, `latest_in_body_block`), the number of header and body
blocks so far (`i_h`, `i_h_body`), MAC result buffers, output buffers.
Operations: set up memories, FFT, impulse response, FIR cores and MACs; per
sample: read the file, FIR, collect; per header block: FFT, store, run the MAC
for left and right, inverse FFT, overlap-add; the same per body block.
Correct when every output sample is the convolution sum by the time it is
played, when no command is lost, and when every poll ends.

**Header MAC, `mac_sram.vhd`.** State: the command state machine, its own newest
block per channel, address registers, four operands, product and sum registers,
two sum RAMs, a second state machine that answers reads. It shares the SRAM with
the processor through `multiplexer.vhd`. Correct when, idle again after a start,
its RAMs hold the sum of the products of impulse response block k with the input
block k older than the newest one.

**Body MAC, `mac_sdram_control_interface.vhd`.** The same promise on the SDRAM,
but it adds to a block in the SDRAM that the program zeroes, in chunks that are
carried through on-chip arrays, and its channel is a command of its own.

**FIR core, `fir.vhd`.** A ring of samples, a coefficient memory, a sequencer
that multiplies and sums, an accumulator two cycles deep, a FIFO on either side.
Correct when each sample yields one output, the sum over the last `FIR_SIZE`
samples of this run of the program.

**FFT wrappers, `fft_wrapper_header.vhd`, `fft_wrapper_body.vhd`.** State
machines between FIFOs and the FFT cores; a PIO bit selects the inverse; the
exponent of the core is undone word by word. Correct when each frame returns its
words completely, in order and with its own exponent. `fft.c` sends both channels
through one transform and takes the spectra apart afterwards.

**Text display, `textmode_controller_*.vhd`, `display_controller.vhd`,
`cursor_controller.vhd`, `display.c`.** A command state machine on a ring of rows
in a video RAM, a scan-out that reads the same RAM, a polled busy flag. Correct
when no command is lost, the screen shows what the commands say, and every pixel
belongs to one cell.

**Touch screen, `touch_controller.vhd`, `avalon_touch_cntrl.vhd`, `get_button`.**
A serial converter clocked bit by bit, registers for one point, a polled flag.
Correct when a delivered point is where the finger is and no two points are mixed.

**Around them:** the WAV reader, fixed-point helpers, audio and SD-card drivers,
the demos in `main.c`; third-party and generated code (kiss_fft, fatlib, the BSP,
the FFT IP cores). What is not modelled is listed at the end.

The interaction is by memory-mapped registers, by polling, and through the SRAM
and SDRAM that processor and MACs share. There are no interrupts and there is one
thread of software: the concurrency is that of the processor with the cores. The
hard behaviours are therefore: the three independent copies of each ring pointer
(processor and the MACs' own); commands that are ignored unless a core is idle;
state that outlives `test()` when it is entered again (delay lines, the PIO bit,
ring pointers); sums written ahead of time by overlap-add; the cycle-level
pipelines, which fetch one element while they sum the one before; FIFOs far
shorter than a frame whose reads block; registers without a reset when the board
is reset (KEY(0)) or the program is loaded again in mid-operation.

## Modules

| module | models |
|---|---|
| `Convolution` | what the reverb promises: output sample t is complete and correct when the loop leaves it, and never changes afterwards |
| `ReverbLoop` | `test()` with all hardware at command level |
| `Unpack` | the loop in `fft.c` that takes the spectra of the two channels apart |
| `MacCommands` | what the program relies on when it drives the header MAC |
| `HeaderMac` | `mac_sram.vhd`, cycle by cycle, with SRAM, multiplexer and the driver code |
| `BodyCommands` | what the program relies on when it drives the body MAC |
| `BodyMac` | `mac_sdram_control_interface.vhd`, cycle by cycle, with SDRAM, driver code and KEY(0) |
| `FirShift` | the software FIR filter (`FIR_HW` = 0), as what the program relies on |
| `FirFilter` | `fir.vhd` and `mac.vhd`, cycle by cycle, with FIFOs, driver code and restarts |
| `FftWrapper` | `fft_wrapper_header.vhd` with FIFOs, PIO, driver code, around an FFT core of unknown pace |
| `Terminal` | what a program may expect of a text display |
| `TextMode` | `textmode_controller_fsm.vhd`, its bus register, `display.c` and the pages of `main.c` |
| `Scan` | display controller, cursor controller and the read side of the video RAM, cycle by cycle |
| `Touch` | `touch_controller.vhd`, `avalon_touch_cntrl.vhd` and `get_button` |
| `MC*` | the small instance of each for TLC |
| `ReverbLoopProofs`, `HeaderMacProofs`, `BodyMacProofs`, `FirFilterProofs`, `FftWrapperProofs`, `TextModeProofs`, `ScanProofs`, `TouchProofs` | the theorems about each and their proofs; those about `Unpack`, which takes over from the transform, are at the end of `FftWrapperProofs` |

How they fit together: `ReverbLoop` implements `Convolution` (property
`HeaderConvolution`). `ReverbLoop` uses MACs that finish a command in one step;
`HeaderMac` and `BodyMac` take thousands of cycles for it. `ReverbLoop` and
`HeaderMac` are both shown to implement `MacCommands`, `ReverbLoop` and `BodyMac`
both `BodyCommands`, so what `ReverbLoop` assumes of a MAC is what its VHDL state
machine does. In the same way `FirFilter` implements `FirShift`, the shift
register that `ReverbLoop` pushes one sample through per `Sample`; `FftWrapper`
shows that a frame comes back as `ReverbLoop` takes it for granted, and
`DirectionHolds` there says what the direction bit `pio_h` of `ReverbLoop` needs.
`TextMode` implements `Terminal` in the sense of `ShowsTerminal`; `Scan` takes
the changes that `TextMode` makes as arbitrary.

### ReverbLoop

The variables are those of `test()` under their own names, plus the state of the
hardware: `fir_coeff`/`fir_line`, `pio_h`, the two memories, the chunk block
`acc`, and state, channel, newest block and result of each MAC. `pc` names the
place in `test()`; each action is the code between two interactions with a MAC
that works on its own (a poll, a command). Calls that complete before they return
(FFT, FIR) are part of the action that makes them.

Samples and taps are named by channel and index. A spectrum is named by the block
of samples it was computed from, which is what the properties tell apart; the
transforms become "zero-extend, multiply, linear convolution" (`Ifft`). An output
sample is the set of products in it, each labelled with the step that added it,
so a product added twice is seen as such.

Two choices stand for what the source leaves open. `BodyStore`: the body FFT
writes past its heap buffers, so each spectrum that is stored is the one of its
block or `Spoilt`, for either channel on its own. `BodyOperands` reads what is
stored: the pairing must be right whichever blocks are spoilt, and a block that is
not spoilt must be the right one. `fir_line` and `sram` start with junk.

`Sample` has one guard that is not in the code: it waits for the reset of the
header MAC, which the program does not poll for (main.c:789). The reset takes 512
cycles, the FIR cores take at least two times that for the first sample. This is
an assumption about time, not a result: no property shows that the first command
finds the header MAC idle after its reset, and `CommandsAccepted` is checked and
proved under that guard.

### Unpack

The loop at the end of `process_header_block_hw` (fft.c:263-281) works in the
buffers it reads. The state is these four arrays and `i`, an action is one pass.
Values are integers, `>> 1` is a division rounding down; sums and differences are
assumed not to overflow a word. This module has no run: it is proved directly (in
`FftWrapperProofs`, as its instance `U`).

`process_body_block_hw` has the same loop (fft.c:380-398), but its two buffers are
too small for it (fft.c:317-318) and may lie over each other, while the arrays here
are disjoint. The module therefore says nothing of the body; what becomes of a
body block is the choice of `BodyStore` in `ReverbLoop`.

### HeaderMac

One action of `Next` is one clock cycle: an access (or pause) of the program on
the slave port, together with one state of the main state machine, one of the read
state machine, the RAM ports and the SRAM. The 25 word states `STATE_A_H_PRE` ..
`STATE_B_H` are eight states with a `flow`: `PRE` for the first bin of a block
(nothing to sum yet), `MID`, and `POST` (nothing to fetch any more). An SRAM word
is named by its address, so a wrong address, a stale half word or the operands of
different bins in one product show up in the sums.

`MaxLatency` bounds the SRAM's read latency. The program's reads follow
`header_mac_hw.tcl` (read wait time 1, read latency 4). `Settle` stands for the
time that passes between the reset and the first stored block.

### BodyMac

As in `HeaderMac` a step is a clock cycle with an access or a pause of the
program, or KEY(0). The states are those of `fsm_t`; `pre` and `post` are the
flags that fill and drain the pipeline; `array` the two on-chip arrays that a
chunk of sums is read into, added to and written back from. The SDRAM takes and
answers an access after any time. A block is named by its place, a word by its
address; the block of sums is kept word by word, and every word that is written
outside of it is recorded in `damaged`.

`Restarts` says when KEY(0) may be pressed. `"key0"` is any cycle but those in
which the last chunk of a run is written; `"key0_last_chunk"` are these. The flag
`goto_idle_after_write`, which ends a run, has no reset
(mac_sdram_control_interface.vhd:313), so a reset in those cycles leaves it set
for the next run. That case is not part of the check; see the divergences below.

### FirFilter

A step is a clock cycle of the core or a bus access of the program, which the
core sees one cycle later. The variables are the signals of `fir.vhd`, the four
registers of the accumulator (`mac.vhd` registers factors and load, adds, and
registers the result) and the two FIFOs. Coefficients are named by the start of
the program that wrote them and their index, samples by number, sums are sets of
products; a product added twice is seen.

`NUM_COEFFICIENTS` is also the number of words in a RAM: `fir_hw.tcl` and the
system use 512 and 9 address bits. The assertion in `fir.vhd` would also let, say,
500 coefficients and 9 bits pass, with which ring and addresses do not fit
together; such a core is not built.

The program may be started again at any cycle: `Reset` is KEY(0), which resets
core and FIFOs but no RAM; `Download` is the debugger starting the program, which
resets neither. `Restarts` says which of them are considered. One core is
modelled: the two channels share nothing.

### FftWrapper

A step is a clock cycle of the wrapper (all three processes, and the core beside
them) or an access of the program to a FIFO or the PIO. The core is external: it
takes words of a frame and returns bins with any pauses, one frame at a time, and
its exponent stands on the port `Lead` cycles before the first bin. A word is
named by frame, bin and part; a word of the output carries the frame and the
direction of each of the two registers that it was shifted with. The driver is
the loops of `fft.c`: select the direction, write a whole frame, read a whole
frame. `Spare` is the number of words that the output FIFO takes although it says
that it is not ready: the last imaginary word is put out without a look
(fft_wrapper_header.vhd:325), and with `Spare` = 0 it can be lost. The vendor's
FIFO has room for it.

### Terminal, TextMode

`Terminal` is a screen and a cursor, and what each command does to them. In
`TextMode` a step is a clock cycle of `textmode_controller_fsm.vhd`, with its
states and registers, a video RAM that is a ring of rows, and a poll or write of
the bus register by `display.c`; `term` is the `Terminal` that the commands
written so far have produced. With `Free` the program makes any display calls;
without, the calls by which `main.c` builds its pages (`Call`, `Button`). KEY(0)
resets the controller and the program at any cycle.

### Scan

Counters, the three steps of a fetch, and the cursor's state machine, cycle by
cycle. The command side (write a cell, scroll, move or configure the cursor,
KEY(0)) may act between any two cycles. `due` and `shown` record the cell that
the screen had when the fetch of a character began, `settled` the cycles since the
cursor's mode was changed. Glyphs are abstracted to "line l of the character of
this cell".

### Touch

A step is a clock cycle of controller and bus registers, an access of
`get_button`, a movement of the finger, or a KEY(0). The converter is external: it
takes a control word bit by bit and returns the bits of the axis that the word asks
for, as of the finger's position when it sampled. Bits are named by axis, position
and number.

`Key0`, in any cycle, resets controller, synchroniser and program; the point in the
bus registers and the converter have no reset. A reset synchroniser reads as a
touched screen, so the converter stays selected and keeps its count of bits. If
that happens within a conversion, `in_step` becomes false: controller and converter
then count from different edges, and what the converter sends is left open (it is
`Unused`) until the finger is lifted and the converter deselected. `PointIsPosition`
is about points of a converter in step; the others can be wrong, see the
divergences.

`steady` and `point_y` are auxiliary, too: that the finger has rested since the
conversion began, and which point x was read from. Of the two registers of a point
only that of y is kept; x is loaded and read in the same cycles, and `point_y` says
of which point it is.

## Checks

| run | what it asks | result |
|---|---|---|
| `safety` | types; `NewestBlock`: processor and MACs agree on the newest block without exchanging it; `CommandsAccepted`: no command is lost; `BodyOperands`: the body sums that are read are those of the right blocks and nothing else; `HeaderConvolution`: FIR and header implement `Convolution`; `HeaderMacCommands`, `BodyMacCommands`: the MACs are used as their promises say; `TestReturns`: the first `test()` comes back | holds |
| `header_mac` | types; `BusOwner`: no bus conflict and no lost request; `ReadsSums`: what the program reads is the finished sum; `ImplementsCommands`; `PollEnds` | holds |
| `body_mac` | types; `OneAccess`: the MAC never overwrites an access of its own; `CopiesSums`: what the program copies is the finished sum; `ImplementsBodyCommands`; `PollEnds`; with the reset button | holds |
| `fir_key0` | types; `FilterOutput`: each result read is the convolution of this run's samples and coefficients; `ImplementsShiftRegister`; with the reset button at any cycle | holds |
| `fir_download` | `ReadsEnd`: no read of the result FIFO blocks for ever, with the program loaded again at any cycle | holds |
| `fft_frames` | types; `ReadsFrame`: what is read are the words of the frame, in order, each scaled with its exponent; `DirectionHolds`; `FramesReturn`: neither side waits for ever | holds |
| `text_any` | types; `ShowsTerminal`: any commands, screen rolling or wrapping | holds |
| `text_pages` | `PageComplete`: nothing of one page is left on the next; `CallsReturn` | holds |
| `scan_frames` | types; `ShowsScreen`: glyph, foreground and background on the wire are one cell of one moment; `SettledCursor`; `CursorBlinks` | holds |
| `touch_read` | types; `PointIsPosition`: a point delivered while the finger rests is its position, bit by bit, if the converter is in step; `OnePoint`: `get_button` mixes no two points; with the reset button at any cycle | holds |
| `body_lost` | "ADD BODY RESULTS TO OUTPUT BUFFER" (main.c:1308) | violated |
| `again` | that `test()` returns when the menu enters it a second time (main.c:624 calls "Init FFT" each time) | violated |

The violated runs each show a defect. `body_lost`: the overlap-add of the body
has the upper bound of the header (main.c:1313) and never runs. `again`:
`fft_h_setup_hw` expects the forward transform while `PIO_H` is still set to
inverse from the last run, so it waits for words that never come.

### Divergences seen while modelling

These are not runs of their own; each is met by the model as the code has it.

- main.c:1338 prints "Exit while" (1341) at the end of the file, but the loop goes
  on.
- fft.c:317 allocates the buffers of the body transform with the size of the
  header (`BodyStore` in `ReverbLoop` is the consequence).
- If the program is loaded again (`make run`) between the write and the read of a
  sample, the FIR setup (fir.c:38-43, "init Output FIFOs") reads one result of the
  old run and leaves its own last one behind; from then on every FIR result belongs
  to the sample before. `fir_download` therefore asks only that reads end.
- `goto_idle_after_write` of the body MAC is not reset
  (mac_sdram_control_interface.vhd:313): after KEY(0) while the last chunk is
  written, the next run ends after its first chunk. With `"key0_last_chunk"` in
  `Restarts` TLC finds `CopiesSums` violated.
- The setup of the FFT (fft.c:45) relies on empty FIFOs, which a download in
  mid-frame does not leave.
- textmode_controller_fsm.vhd:291-307: `CLEAR_SCREEN` clears from the cursor to the
  end of the screen only; `display_clear` moves the cursor home first, and
  `Terminal` says what clearing does only for a cursor at home.
- textmode_controller_fsm.vhd:301 resets the scroll offset with the first write of
  `CLEAR_SCREEN`, so that this write still goes to the row of the old offset. After
  the screen has scrolled, `display_clear` would leave the first character of
  another row on the screen; main.c calls it only once, at the start (77).
  `FreeCall` clears only while nothing has scrolled or is about to.
- textmode_controller_fsm.vhd:211 moves the cursor on when `auto_inc_cursor` is 0,
  the opposite of its name.
- A KEY(0) within a conversion of the touch screen leaves the converter selected
  (touch_controller.vhd:313, since avalon_touch_cntrl.vhd:138 resets the
  synchroniser to "touched") and its count of bits where it was. The controller
  begins anew, and takes the bits of the interrupted conversion for those of its
  own: a finger that rests through it can yield wrong points until it is lifted.
  Nothing in the code notices. The model leaves open which bits come then; without
  `in_step` in `PointIsPosition` TLC finds the property violated by such a point.
- `get_button` clears the flag in an access of its own (main.c:217): a point that
  arrives after the two reads is cleared with it. `OnePoint` is about the reads.
- avalon_touch_cntrl.vhd:126 delivers the axes exchanged; `interrupt_mask` (103)
  is never assigned.
- The record demo stores the right sample at even indices while its comments say
  left; it returns on "back" without `wav_free`, and the play demo never frees its
  file.

## Bounds

`MCReverbLoop`: header blocks of 2 samples, 2 of them, FIR of 4 taps,
body blocks of 8 samples, 2 of them; three body blocks of input (then `test()`
returns), two entries of `test()`. The relations of `defines.h` are kept: the FIR
covers `HEADER_BLOCK_SIZE_ZE` samples and FIR and header together one body block.
The header ring wraps six times and the body ring twice, overlaps meet in every
position, and state left by the first entry is met by the second. The second entry
stalls in the FFT setup (`again`); what follows it is checked by the proofs, which
do not bound the number of entries.

`MCHeaderMac`: three bins (a first, a middle, a last), three blocks, SRAM latency
1 or 2, any pauses of the program, any number of runs and resets: that state space
is finite without a bound.

`MCBodyMac`: three chunks (a first, a middle, a last) of two bins, which are the
first and the last of a chunk; two blocks, so that the input ring wraps in a run;
one place of the area in the SDRAM; any number of runs, any latency, any pauses.

`MCFirFilter`: four coefficients, so that the ring wraps at every position; two
runs with eleven samples between them, divided by a restart at any cycle, so that
either can go round the ring twice. FIFOs of one word, so that a left-over word
makes the core wait for the program.

`MCFftWrapper`: four bins, FIFOs of three words (a frame is eight), one spare
word, exponent two cycles ahead; any sequence of frames and directions. Three
frame names suffice to tell the frame in question from the one before and after.

`MCTextMode`: `any` has three rows of two columns, a first, a middle and a last
row, and one colour (the proof covers all); every sequence of commands is possible, so every offset of the ring meets
every cursor position. `pages` has seven rows of four columns with the rows of
messages (up to `CLEAR_END` = 3) and of buttons (from 4, two lines) in the order
of the real screen; a page is interrupted by KEY(0) anywhere.

`MCScan`: a screen of two rows and two columns, characters two lines high, one
character of porch on either side and one line above and below. A frame has 192
cycles, a phase of the cursor 18, so that the end of a phase meets each step of a
fetch (the real phase is 45 frames). `MaxChanges` = 2: the properties relate a
character to the changes between its fetch and its last pixel, of which the second
already meets the first in every order. The proofs need neither bound.

`MCTouch`: a divider of 6, the smallest the controller's counters allow (the real
one is 500), one cycle of acquisition per bit, the real numbers of bits and cycles
of the converter; two positions, exchanged by symmetry; KEY(0) at any cycle and
any number of times.

## Fairness

`ReverbLoop`: the processor (setup and loop), the header MAC and the
body MAC each keep taking steps while they can; the software is one thread
without interrupts, the MACs are clocked. No fairness for pressing a button.
`HeaderMac`: the program makes its next access eventually; the clock needs none
of its own since every step is a cycle. `BodyMac`: the same, the clock keeps
running beside KEY(0), and the SDRAM serves an access in the end (it refreshes, it
does not stop). `FirFilter`: the core is clocked and the program goes on whenever
its FIFO access can; none for restarts or for more samples. `FftWrapper`: the core
takes and returns words in the end, the program goes on with a frame it has begun;
none for beginning one. `TextMode`: the controller is clocked and the program does
not stop inside a display call. `Scan`: the clock. `Touch` has no liveness property:
nothing there has to happen if nobody touches the screen.

`CHECK_DEADLOCK FALSE` stands in the runs of `ReverbLoop`, which can stop for good:
the second `test()` stalls, as `again` shows.

## Proofs

### Reverb loop

For every size with at least two blocks per part, any file and any number of
entries of `test()` (`SizeAssumption`):

- `TypeCorrect`: `TypeOK` always holds; in particular all ring pointers stay in
  their rings and sums contain only blocks of the memory.
- `NewestBlockCorrect` and `CommandsAcceptedCorrect`.
- `HeaderMacImplements`, `BodyMacImplements`: `ReverbLoop` implements
  `MacCommands` and `BodyCommands`.
- `BodyOperandsCorrect`: `BodyOperands`.
- `HeaderConvolutionCorrect`: `ReverbLoop` implements `Convolution` with the taps
  that FIR and header cover. The body adds nothing to the output (`body_lost`), so
  nothing is claimed of it.

The last two also need the relations between the sizes that `defines.h` has and
`test()` relies on (`PartitionAssumption`): header blocks of more than one sample,
`FIR_SIZE` = 2 * `HEADER_BLOCK_SIZE`, and body blocks of at least that many
samples.

Neither `NewestBlock` nor `CommandsAccepted` is inductive. The invariant `IInv`
adds where the processor can be while a MAC is busy (`HmHandshake`,
`BmHandshake`), that the program's pointers are fresh when the MACs are reset
(`FreshRings`), and, for every place in the loop, how far each MAC's pointer is
behind the program's (`HeaderSync`, `BodySync`): by none after the MAC was started
for that channel, by one ring position before. The refinements need only
`TypeOK` from it: a few actions touch what the promise speaks of, all others are
stutters.

`MemoryInv` is the history of the data: how many samples were read and blocks
were formed (`Counted`), which samples the input buffers hold (`Buffered`), which
block lies at each place of the impulse responses (`HeaderIr`, `BodyIr`) and of the
rings (`HeaderRing`, `BodyRing`), and which products a finished sum has
(`HeaderSums`, `BodySums`). `BodyOperands` follows from it. `OutputInv` is what is
in an output sample when the loop leaves it: the FIR's products (`FirFlushed`),
and of the header those of all blocks that are due (`Outputted`).

That these are the products of the convolution, each once, is arithmetic on
blocks. Every index lies in exactly one block (`BlockExists`, `BlockUnique`), so a
product is added by one step only (`TermUnique`, `NoneTwice`). Whatever is added
to an output belongs to it (`PairsDue`), and when n header blocks have been added,
the first (n + 2) * `HEADER_BLOCK_SIZE` outputs lack nothing (`PairsComplete`):
the two blocks in front are what the FIR covers while header block n is collected
and transformed. A header block is added to outputs that are still to come
(`HeaderAddsLater`). `ConvolutionStep` puts that together: a pass of the loop is a
step of `Convolution`, everything else a stutter.

### Unpack

`UnpackSeparates`, for the header: for any even number of bins and any integers in the buffers,
when the loop is through, each channel has a spectrum with the symmetry of a real
signal, and left + j * right is the result of the transform but for the bit that
the shift loses. The invariant: bins 1 to `i` - 1 and their mirror images are
done, the others are as they were; since a pass reads exactly the two bins it
writes, writing in place is harmless.

### FIR core

For any number of coefficients greater than one, any FIFO depth, any number of
starts and samples (`FirFilterAssumption`):

- `FirTypeCorrect`: `TypeOK` always holds, whatever the restarts.
- `FirImplements` and `FirOutputCorrect`, assuming `"download" \notin Restarts`
  (without it both are violated, see the divergences).

`FilterInv` is the invariant of the refinement: one sample in flight at most, so
coefficients are constant while a sum is formed; coefficients differ by index, so
no product is added twice; after `mul_cnt` products the accumulator holds the
products 1 to `mul_cnt`, or is about to be loaded. The step `Output` is then the
one that filters, all other clock cycles are stutters; `ModLow` and `ModHigh` do
the ring arithmetic. `RunInv` adds what the line holds at each place in the
program (`i` zeros while it is flushed, the run's history afterwards) and is
argued on the shift register, through the refinement.

### Header MAC

For any block size, at least two blocks and any latency of the SRAM
(`HeaderMacAssumption`), whatever pauses the program makes:

- `HeaderTypeCorrect`: `TypeOK`.
- `BusOwned`: `BusOwner`; the multiplexer never takes the SRAM from the MAC while
  an access is open, nor leaves it with the MAC while the program stores blocks.
- `SumsRead`: `ReadsSums`.
- `PipelineImplements`: `ImplementsCommands`, the step from thousands of cycles to
  one command.

`ControlInv` has no data in it: which blocks and which bin the counters address at
each state (`Selected`, `Addressed`), that a request is open only where the main
machine waits for a word (`Requests`), and that the program goes on only after it
saw the MAC idle (`Polling`). It suffices for the first two theorems.

`PipelineInv` follows a bin through the pipeline, whose stages work on different
bins at once. A word on its way from the SRAM is the one waited for (`Asked`); the
words of the new bin have arrived in order (`Fetched`); operands and products of
the bin before are kept as long as they are needed (`Kept`); sums are read back
from the RAM in time (`Accumulated`); the bins up to `RealDone` and `ImagDone`
have the products of the pair worked on, the others not yet (`Stored`). Two lemmas
make sums comparable with sets of pairs of blocks: products of different pairs
differ, so adding never meets a product that is there (`NewProducts`), and a pair
is known by its products (`KnownPair`). The end of the last pair is then `RunDone`
of `MacCommands`; every other cycle is a command or a stutter. `Reading` adds the
way of a word from the RAM to the program.

### Body MAC

For any chunk of at least two bins, at least two chunks and two blocks, any
place of the area in the SDRAM and any latency, whatever pauses the program
makes (`BodyMacAssumption`):

- `BodyTypeCorrect`: `TypeOK`, and `BodyAccesses`: `OneAccess`, wherever KEY(0) is
  pressed.
- `BodyCopiesSums`: `CopiesSums`, and `BodyImplementsCommands`:
  `ImplementsBodyCommands`, assuming `"key0_last_chunk" \notin Restarts`: with it
  TLC refutes the first (see the divergences).

The argument is that of the header MAC with one layer more, since the sums are
in the SDRAM and go through the chip in chunks. `ControlInv` has no data: which
block and which element the counters address in each state (`Selected`,
`Counted`), that an access is open only in the states that wait for it
(`Requests`), and what the program has seen (`Polling`, `Replying`). `SumInv`
adds the data. The addresses follow from the counters (`Based`, `Located`), and
an open access is the one that the state waits for (`Asked`). The words of the
new bin arrive in order (`Fetched`) while operands, products and sums of the bin
before are kept (`Kept`, `Accumulated`). `Loaded` says for each element of the
on-chip arrays, and `Stored` for each word of the block of sums in the SDRAM,
how many block pairs it contains already; before a run it contains none
(`Zeroed`). `LastBlock` is where the flag that ends the run matters. In the
refinement a run up to its last write is a stutter, since `BodyCommands` says
nothing of the sum while the MAC is busy; the last write is `RunDone`, KEY(0) is
`BoardReset`.

### FFT wrapper

For any frame length and depth of the FIFOs and any pauses of core and program
(`FftWrapperAssumption`):

- `FftTypeCorrect`: `TypeOK`; no FIFO ever overflows.
- `FftDirection`: `DirectionHolds`.
- `FftReadsFrame`: `ReadsFrame`, assuming `Lead` > 1. With `Lead` = 1 the wrapper
  shifts the first bin with the exponent of the frame before, and TLC refutes the
  property. How early the exponent stands on the port is up to the generated core,
  so this is an assumption about it.

`FrameInv` has a part for each station of a word: on its way to the wrapper
(`Sent`), collected for the core (`Collected`), put out and scaled (`Emitted`),
the last ones of a frame that the core is through with (`Ended`), on its way to
the program (`Received`). `Computed` follows the exponent through its two
registers, `Directed` the PIO bit. A frame is in one phase of the core at a
time, so a cycle is one of collecting, of computing or of putting out
(`CollectClock`, `ComputeClock`, `EmitClock`). No hypothesis on `Spare` is
needed: the word that the wrapper puts out without a look may get lost in a full
FIFO, but nothing gets out of line.

### Touch screen

For any divider of the serial clock greater than 5, any number of cycles of
acquisition and any positions (`TouchAssumption`): `TouchTypeCorrect`
(`TypeOK`), `PointCorrect` (`PointIsPosition`) and `PointRead` (`OnePoint`).

`PointInv` ties the controller's state to the edge counter and the divider
(`Timed`), the converter's bit counter to the controller's (`Clocked`), and says
which bits of the control word the converter has (`Commanded`), which bits of
the answer are in the shift register (`Sampled`) and what the registers on the
bus hold (`Delivered`). `Clocked`, `Commanded` and `Sampled` hold while the
converter is in step; out of step it is `Unused`, until it is deselected with a
controller between two conversions, from where they hold again. `ResetStep` is
KEY(0) at any cycle.

### Text display

For any size of the screen of at least two rows and columns, any colours and any
configurations (`TerminalAssumption`, `TextModeAssumption`), whatever the program
writes and however long it pauses, and for any resets:

- `TextTypeCorrect`: `TypeOK`; every write of a cell is inside the video RAM.
- `TerminalShown`: `ShowsTerminal`.
- `PagesComplete`: `PageComplete`, for the calls of main.c with any number of lines
  of buttons and any rows for the messages that fit on the screen. There must be
  a line of buttons (main.c has five): without one, what tells the pages apart is
  not on the screen.

A command is written once and takes up to a screenful of cycles, during which the
screen shows neither the old nor the new state. The invariant `TerminalInv`
therefore tells a command by what is left of it: `Finishes` has a line for each
state of the controller, which says that `term`, the terminal that the program may
expect, is what is shown now (`Now`) after the rest of the command, such as the
rest of the line to be cleared or a new line after a character. A cycle then only
moves a part of the command from the rest to the screen (`WorkFinishes`), and
writing a command changes `term` by the whole of it (`WriteStep`). `ClearsHome`
follows `display_clear` from the script to the controller: it always meets the
cursor at home and an offset of zero. On the ring, a write changes one place of
the screen (`Written`), and a step of the offset moves all rows up (`Scrolled`).

A page is told in the same way by what is left of it. `PageComplete` speaks of the
moment when the program has nothing left to do; in the invariant `PageInv`, `Ends`
says what the terminal will be after the commands that are left of the call that is
under way, and `Stage` what that terminal must show given the calls that are left of
the page: which lines of the buttons are those of the new page, which rows of the
messages may still hold those of the old one, and where the cursor is whenever the
next call relies on it. That is all a page hands on to the next: any page may be
left for any other from its last stage (`NextPage`), because every row that the old
page wrote is written over or cleared by the calls of the new one. The effects of
the calls are in `ShowRow` (a full row puts the cursor on the next one, which it
clears), `ShowMessage`, `ShowLine`, `ShowFeed`, `ClearLineShown` (which leaves the
last column as it is) and `ClearShown`; `StageStep` takes a page from call to call.

For the scan-out, with any size of the screen, its characters and its porches, any
length of a phase, any contents and any number of changes (`ScanAssumption`):

- `ScanTypeCorrect`: `TypeOK`; no character outside the screen is ever fetched.
- `ScreenShown`: `ShowsScreen`.
- `CursorSettles`: `SettledCursor`, which is about a cursor that is on or off; one
  that blinks is only model-checked (`CursorBlinks`).

`ScanInv` says what the registers between the RAM and the wire hold at each of the
eight cycles of a character (`Fetched`), which states of the cursor a mode can
still be in a given number of cycles after it was set (`ModeReached`), and from
when on the cursor's output and the fetched background agree with the position
(`CursorFetched`, `CursorShown`). The arithmetic of counters, columns and lines is
in the lemmas before it.

### Not proved

Only model-checked: all liveness (`TestReturns`, `PollEnds`, `ReadsEnd`,
`FramesReturn`, `CallsReturn`, `CursorBlinks`). Liveness, ENABLED, and what a
recursive definition computes are out of the prover's reach.

## Not modelled

- Sample values, rounding and the wrap of 16-bit sums; the FFT cores (generated);
  glyphs and colours of the display.
- `kiss_fft` and all software paths beside the hardware ones: compiled out by
  `defines.h`; fixed-point helpers, which only these and debug output use.
  Simulation variants of the cores and VHDL that no design instantiates.
- Parsing and saving of WAV files and the demos: straight-line code on one file or
  buffer, with no other actor than vendor drivers.
- fatlib, the BSP, drivers, synthesis projects, `template/`: third-party,
  generated, or the project's starting point. They are most of the repository's
  lines.
- Failure of `wav_read`, exhaustion of the heap, writes behind the output
  buffers near the end of a file: see the hazards without a property in
  PROJECT.json.
