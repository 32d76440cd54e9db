----------------------------- MODULE ReverbLoop -----------------------------
(***************************************************************************)
(* The reverb program, test() of main.c, with the hardware it drives: the  *)
(* two FIR filters, the header and body FFT (fft.c), the header MAC and    *)
(* its SRAM, the body MAC and its SDRAM.  The impulse response is cut into  *)
(* FIR_SIZE samples for the FIR filters, HEADER_BLOCK_NUM short blocks for  *)
(* the header and BODY_BLOCK_NUM long blocks for the body.                 *)
(*                                                                         *)
(* Data.  A sample or an impulse response tap is named by its channel and  *)
(* its index; a block (whose spectrum is what the memories really hold) is *)
(* the vector of the samples it was computed from; a product of spectra is *)
(* the pair of the two blocks; an output sample is the set of the products *)
(* summed into it, each labelled with the step that added it.              *)
(*                                                                         *)
(* The processor and the two MACs are separate actors: a MAC that has been *)
(* given a command works on its own, the processor polls it.               *)
(***************************************************************************)
EXTENDS Integers, FiniteSets

CONSTANTS
  FIR_SIZE,            \* taps of the FIR filters (defines.h: 512)
  HEADER_BLOCK_SIZE,   \* samples in a header block (256)
  HEADER_BLOCK_NUM,    \* header blocks of the impulse response (14)
  BODY_BLOCK_SIZE,     \* samples in a body block (4096)
  BODY_BLOCK_NUM,      \* body blocks of the impulse response (23)
  FileSizes,           \* lengths the input file may have, in samples
  MaxRuns              \* bound: how often test() is entered

ASSUME SizeAssumption ==
  /\ FIR_SIZE \in Nat \ {0}
  /\ HEADER_BLOCK_SIZE \in Nat \ {0}
  /\ HEADER_BLOCK_NUM \in Nat \ {0, 1}
  /\ BODY_BLOCK_SIZE \in Nat \ {0}
  /\ BODY_BLOCK_NUM \in Nat \ {0, 1}
  /\ FileSizes \subseteq Nat
  /\ MaxRuns \in Nat \ {0}

(* What the proofs use of the partition (defines.h: 256, 512, 4096).  The  *)
(* end of a block is not looked for at the first sample; the FIR filters   *)
(* cover the time that the first header block is late; and the loop that   *)
(* adds the body results, whose bounds mix the two block sizes, is empty.  *)
ASSUME PartitionAssumption ==
  /\ HEADER_BLOCK_SIZE > 1
  /\ FIR_SIZE = 2 * HEADER_BLOCK_SIZE
  /\ BODY_BLOCK_SIZE >= 2 * HEADER_BLOCK_SIZE

HEADER_BLOCK_SIZE_ZE == 2 * HEADER_BLOCK_SIZE
BODY_BLOCK_SIZE_ZE == 2 * BODY_BLOCK_SIZE

(* The left channel's input blocks are a ring behind the impulse response  *)
(* blocks of both channels; the right channel's ring follows it.           *)
HEADER_IN_BLOCK_MIN == 2 * HEADER_BLOCK_NUM
HEADER_IN_BLOCK_MAX == 3 * HEADER_BLOCK_NUM - 1
BODY_IN_BLOCK_MIN == 2 * BODY_BLOCK_NUM
BODY_IN_BLOCK_MAX == 3 * BODY_BLOCK_NUM - 1

Channels == {1, 2}     \* left, right

HeaderShift(c) == (c - 1) * HEADER_BLOCK_NUM
BodyShift(c) == (c - 1) * BODY_BLOCK_NUM

VARIABLES
  pc,                    \* where the processor is in test()
  side,                  \* the channel whose MAC it is driving
  runs,                  \* how often test() has been entered
  samples_in_file, sample_counter,
  header_fill,           \* sample_counter_header_buffer
  body_fill,             \* sample_counter_body_buffer
  i_in,                  \* i_in_1, i_in_2: header input buffers
  in_body,               \* in_buffer_body_1, in_buffer_body_2
  latest_in_block, latest_in_body_block, i_h, i_h_body, body_runs,
  mac_buffer, body_mac_buffer,
  out,                   \* output_buffer_1, output_buffer_2
  fir_coeff, fir_line,   \* coefficients and delay lines of the FIR filters
  pio_h,                 \* the bit that selects the inverse header FFT
  sram, sdram, acc,      \* header blocks, body blocks, the chunk block
  hm_state, hm_channel, hm_latest, hm_ram,   \* header MAC
  bm_state, bm_channel, bm_latest            \* body MAC

swVars == <<samples_in_file, sample_counter, header_fill, body_fill, i_in,
            in_body, latest_in_block, latest_in_body_block, i_h, i_h_body,
            body_runs, mac_buffer, body_mac_buffer, out>>
firVars == <<fir_coeff, fir_line>>
memVars == <<sram, sdram, acc>>
hmVars == <<hm_state, hm_channel, hm_latest, hm_ram>>
bmVars == <<bm_state, bm_channel, bm_latest>>
vars == <<pc, side, runs, swVars, firVars, pio_h, memVars, hmVars, bmVars>>

-----------------------------------------------------------------------------
(* Data *)

Zero == <<0, 0>>               \* a sample that is 0
Junk == <<0, 1>>               \* what a RAM holds at power-up
Element == ({0} \cup Channels) \X Nat
Vector(n) == [0 .. n - 1 -> Element]
ZeroVector(n) == [j \in 0 .. n - 1 |-> Zero]

HeaderBlock == Vector(HEADER_BLOCK_SIZE)
BodyBlock == Vector(BODY_BLOCK_SIZE)
ZeroBodyBlock == ZeroVector(BODY_BLOCK_SIZE)

HeaderSlots == 0 .. 4 * HEADER_BLOCK_NUM - 1
BodySlots == 0 .. 4 * BODY_BLOCK_NUM - 1

(* test() stops at the third full body block, so no sample after it is     *)
(* read; the header block that ends there still adds to later outputs.     *)
Horizon == 3 * BODY_BLOCK_SIZE + 3 * HEADER_BLOCK_SIZE
Outputs == 0 .. Horizon - 1
NoOutput == [c \in Channels |-> [t \in Outputs |-> {}]]

Product(tap, sample, by) == [tap |-> tap, sample |-> sample, by |-> by]

(* Sample ii of the inverse FFT of a sum of products of spectra: the       *)
(* blocks are zero extended to twice their length, so the circular         *)
(* convolution is the linear one.                                          *)
Ifft(pairs, ii, len, by) ==
  UNION { { Product(p.ir[j], p.in[ii - j], by) :
              j \in { k \in 0 .. len - 1 :
                        /\ ii - k \in 0 .. len - 1
                        /\ p.ir[k] # Zero
                        /\ p.in[ii - k] # Zero } } : p \in pairs }

(* The ring of input blocks, as the program and the MACs step through it.  *)
RingNextNoWrap(b, min, max) == b + 1                     \* mutant
RingNext(b, min, max) == IF b = max THEN min ELSE b + 1
RingBackNoWrap(b, k, min, num) == b - k                  \* mutant
RingBack(b, k, min, num) == IF b - k < min THEN b - k + num ELSE b - k

(* What a MAC sums up when its newest input block is b: block k of the      *)
(* impulse response with the input block that is k older.                  *)
MacPairs(mem, b, ir_min, in_min, num) ==
  { [in |-> mem[RingBack(b, k, in_min, num)], ir |-> mem[ir_min + k]] :
      k \in 0 .. num - 1 }

HeaderInMin(c) == HEADER_IN_BLOCK_MIN + HeaderShift(c)
HeaderInMax(c) == HEADER_IN_BLOCK_MAX + HeaderShift(c)
BodyInMin(c) == BODY_IN_BLOCK_MIN + BodyShift(c)
BodyInMax(c) == BODY_IN_BLOCK_MAX + BodyShift(c)

(* After a reset the newest block of a MAC is one before the last of the   *)
(* ring, because a start command first moves on to the next block.         *)
HmResetLatestAtEnd == [c \in Channels |-> HeaderInMax(c)]    \* mutant
HmResetLatest == [c \in Channels |-> HeaderInMax(c) - 1]
BmResetLatest == [c \in Channels |-> BodyInMax(c) - 1]

HeaderDue == (sample_counter + 1) % HEADER_BLOCK_SIZE = 0 /\ sample_counter > 0
BodyDue == (sample_counter + 1) % BODY_BLOCK_SIZE = 0 /\ sample_counter > 0

(* The impulse response taps of header block k and of body block k.        *)
HeaderTaps(c, k) ==
  [j \in 0 .. HEADER_BLOCK_SIZE - 1 |->
     <<c, FIR_SIZE + k * HEADER_BLOCK_SIZE + j>>]
BodyTaps(c, k) ==
  [j \in 0 .. BODY_BLOCK_SIZE - 1 |->
     <<c, FIR_SIZE + HEADER_BLOCK_NUM * HEADER_BLOCK_SIZE
            + k * BODY_BLOCK_SIZE + j>>]

(* A FIR filter's delay line after n zeros were sent through it.           *)
Flushed(line, n) ==
  [i \in 0 .. FIR_SIZE - 1 |-> IF i < n THEN Zero ELSE line[i - n]]

-----------------------------------------------------------------------------
(* test(): setup *)

Init ==
  /\ pc = "boot" /\ side = 1 /\ runs = 1
  /\ samples_in_file = 0 /\ sample_counter = 0
  /\ header_fill = 0 /\ body_fill = 0
  /\ i_in = [c \in Channels |-> ZeroVector(HEADER_BLOCK_SIZE)]
  /\ in_body = [c \in Channels |-> ZeroVector(BODY_BLOCK_SIZE)]
  /\ latest_in_block = HEADER_IN_BLOCK_MAX
  /\ latest_in_body_block = BODY_IN_BLOCK_MAX
  /\ i_h = 0 /\ i_h_body = 0 /\ body_runs = 0
  /\ mac_buffer = [c \in Channels |-> {}]
  /\ body_mac_buffer = [c \in Channels |-> {}]
  /\ out = NoOutput
  /\ fir_coeff = [c \in Channels |-> [i \in 0 .. FIR_SIZE - 1 |-> Junk]]
  /\ fir_line = [c \in Channels |-> [i \in 0 .. FIR_SIZE - 1 |-> Junk]]
  /\ pio_h = 0
  /\ sram = [b \in HeaderSlots |-> [j \in 0 .. HEADER_BLOCK_SIZE - 1 |-> Junk]]
  /\ sdram = [b \in BodySlots |-> ZeroBodyBlock]
  /\ acc = {}
  /\ hm_state = "IDLE" /\ hm_channel = 1 /\ hm_latest = HmResetLatest
  /\ hm_ram = {}
  /\ bm_state = "IDLE" /\ bm_channel \in Channels /\ bm_latest = BmResetLatest

Goto(from, to) == pc = from /\ pc' = to

(* The SRAM is shared: while the header MAC works it owns the bus.         *)
SramWrite(content) == sram' = IF hm_state = "IDLE" THEN content ELSE sram

(* Clear the input rings; a fresh SDRAM area, its chunk block included.    *)
SetupMemory ==
  /\ Goto("boot", "ffth_setup")
  /\ SramWrite([b \in HeaderSlots |->
       IF b >= HEADER_IN_BLOCK_MIN THEN ZeroVector(HEADER_BLOCK_SIZE)
       ELSE sram[b]])
  /\ sdram' = [b \in BodySlots |-> ZeroBodyBlock]
  /\ acc' = {}
  /\ UNCHANGED <<side, runs, swVars, firVars, pio_h, hmVars, bmVars>>

(* One frame of zeros is sent through the header FFT, and twice its length *)
(* in words is read back.  The FFT returns two words per bin, but only the *)
(* real one when the inverse is selected; a read of the empty FIFO stalls. *)
FftWords == IF pio_h = 1 THEN HEADER_BLOCK_SIZE_ZE ELSE 2 * HEADER_BLOCK_SIZE_ZE

FftHSetup ==
  /\ FftWords >= 2 * HEADER_BLOCK_SIZE_ZE
  /\ Goto("ffth_setup", "ir_header")
  /\ UNCHANGED <<side, runs, swVars, firVars, pio_h, memVars, hmVars, bmVars>>

PreProcessHeader ==
  /\ Goto("ir_header", "ir_body")
  /\ SramWrite([b \in HeaderSlots |->
       IF b < HEADER_BLOCK_NUM THEN HeaderTaps(1, b)
       ELSE IF b < HEADER_IN_BLOCK_MIN THEN HeaderTaps(2, b - HEADER_BLOCK_NUM)
       ELSE sram[b]])
  /\ pio_h' = 0
  /\ UNCHANGED <<side, runs, swVars, firVars, sdram, acc, hmVars, bmVars>>

(* The body FFT writes BODY_BLOCK_SIZE_ZE bins into buffers allocated for   *)
(* HEADER_BLOCK_SIZE_ZE of them.  Whether the spectra of the two channels  *)
(* overlap is up to the heap: what is stored is the block, or something    *)
(* else in its place.                                                      *)
Spoilt == [j \in 0 .. BODY_BLOCK_SIZE - 1 |-> Junk]
BodyStore(block) == {block, Spoilt}

PreProcessBody ==
  /\ Goto("ir_body", "fir_setup")
  /\ \E spoilt \in SUBSET (0 .. BODY_IN_BLOCK_MIN - 1) :
       sdram' = [b \in BodySlots |->
         IF b >= BODY_IN_BLOCK_MIN THEN sdram[b]
         ELSE IF b \in spoilt THEN Spoilt
         ELSE IF b < BODY_BLOCK_NUM THEN BodyTaps(1, b)
         ELSE BodyTaps(2, b - BODY_BLOCK_NUM)]
  /\ UNCHANGED <<side, runs, swVars, firVars, pio_h, sram, acc, hmVars, bmVars>>

FirSetupShort ==                                             \* mutant
  /\ Goto("fir_setup", "prepare")
  /\ fir_coeff' = [c \in Channels |-> [i \in 0 .. FIR_SIZE - 1 |-> <<c, i>>]]
  /\ fir_line' = [c \in Channels |-> Flushed(fir_line[c], FIR_SIZE - 2)]
  /\ UNCHANGED <<side, runs, swVars, pio_h, memVars, hmVars, bmVars>>

(* Both filters: load the coefficients, then flush the delay line.         *)
FirSetup ==
  /\ Goto("fir_setup", "prepare")
  /\ fir_coeff' = [c \in Channels |-> [i \in 0 .. FIR_SIZE - 1 |-> <<c, i>>]]
  /\ fir_line' = [c \in Channels |-> Flushed(fir_line[c], FIR_SIZE)]
  /\ UNCHANGED <<side, runs, swVars, pio_h, memVars, hmVars, bmVars>>

(* The locals of the loop.                                                 *)
PrepareLoop ==
  /\ Goto("prepare", "reset_hm")
  /\ samples_in_file' \in FileSizes
  /\ sample_counter' = 0 /\ header_fill' = 0 /\ body_fill' = 0
  /\ i_in' = [c \in Channels |-> ZeroVector(HEADER_BLOCK_SIZE)]
  /\ in_body' = [c \in Channels |-> ZeroVector(BODY_BLOCK_SIZE)]
  /\ latest_in_block' = HEADER_IN_BLOCK_MAX
  /\ latest_in_body_block' = BODY_IN_BLOCK_MAX
  /\ i_h' = 0 /\ i_h_body' = 0 /\ body_runs' = 0
  /\ mac_buffer' = [c \in Channels |-> {}]
  /\ body_mac_buffer' = [c \in Channels |-> {}]
  /\ out' = NoOutput
  /\ UNCHANGED <<side, runs, firVars, pio_h, memVars, hmVars, bmVars>>

(* The header MAC is reset and not waited for; a MAC ignores a command     *)
(* that comes while it is not idle.                                        *)
ResetHeaderMac ==
  /\ Goto("reset_hm", "reset_bm")
  /\ IF hm_state = "IDLE"
       THEN hm_state' = "RESET" /\ hm_latest' = HmResetLatest
       ELSE UNCHANGED <<hm_state, hm_latest>>
  /\ UNCHANGED <<side, runs, swVars, firVars, pio_h, memVars, hm_channel,
                 hm_ram, bmVars>>

BmWrite(command) ==
  bm_state' = IF bm_state = "IDLE" THEN command ELSE bm_state

ResetBodyMac ==
  /\ Goto("reset_bm", "wait_reset")
  /\ BmWrite("RESET")
  /\ UNCHANGED <<side, runs, swVars, firVars, pio_h, memVars, hmVars,
                 bm_channel, bm_latest>>

WaitBodyReset ==
  /\ bm_state = "IDLE"
  /\ Goto("wait_reset", "sample")
  /\ UNCHANGED <<side, runs, swVars, firVars, pio_h, memVars, hmVars, bmVars>>

-----------------------------------------------------------------------------
(* test(): the loop over the samples *)

(* One sample: store it in the header and the body buffers, and add what   *)
(* the FIR filters return for it.  The guard is no test of the program,    *)
(* which does not wait for the reset of the header MAC: it stands for the  *)
(* time that passes.  The processor waits for each filter, which takes two *)
(* clock cycles for each of its FIR_SIZE coefficients, and by then the     *)
(* header MAC has cleared its HEADER_BLOCK_SIZE_ZE words.                  *)
Sample ==
  /\ hm_state # "RESET"
  /\ Goto("sample",
          IF HeaderDue THEN "hfft" ELSE IF BodyDue THEN "bfft" ELSE "next")
  /\ i_in' = [c \in Channels |->
                [i_in[c] EXCEPT ![header_fill] = <<c, sample_counter>>]]
  /\ in_body' = [c \in Channels |->
                   [in_body[c] EXCEPT ![body_fill] = <<c, sample_counter>>]]
  /\ header_fill' = header_fill + 1
  /\ body_fill' = body_fill + 1
  /\ fir_line' = [c \in Channels |-> [i \in 0 .. FIR_SIZE - 1 |->
                    IF i = 0 THEN <<c, sample_counter>> ELSE fir_line[c][i - 1]]]
  /\ out' = [c \in Channels |-> [out[c] EXCEPT ![sample_counter] = @ \cup
               { Product(fir_coeff[c][i], fir_line'[c][i], <<"fir", 0>>) :
                   i \in { k \in 0 .. FIR_SIZE - 1 : fir_line'[c][k] # Zero } }]]
  /\ UNCHANGED <<side, runs, samples_in_file, sample_counter, latest_in_block,
                 latest_in_body_block, i_h, i_h_body, body_runs, mac_buffer,
                 body_mac_buffer, fir_coeff, pio_h, memVars, hmVars, bmVars>>

(* A full header block: its spectra go to the newest slot of the rings.    *)
HeaderFft ==
  /\ Goto("hfft", "hset")
  /\ header_fill' = 0
  /\ pio_h' = 0
  /\ SramWrite([sram EXCEPT ![latest_in_block] = i_in[1],
                            ![HEADER_BLOCK_NUM + latest_in_block] = i_in[2]])
  /\ side' = 1
  /\ UNCHANGED <<runs, samples_in_file, sample_counter, body_fill, i_in,
                 in_body, latest_in_block, latest_in_body_block, i_h, i_h_body,
                 body_runs, mac_buffer, body_mac_buffer, out, firVars, sdram,
                 acc, hmVars, bmVars>>

HeaderSetChannel ==
  /\ Goto("hset", "hstart")
  /\ hm_channel' = IF hm_state = "IDLE" THEN side ELSE hm_channel
  /\ UNCHANGED <<side, runs, swVars, firVars, pio_h, memVars, hm_state,
                 hm_latest, hm_ram, bmVars>>

(* A start moves the MAC on to the next input block of its channel.        *)
HeaderStart ==
  /\ Goto("hstart", "hpoll")
  /\ IF hm_state = "IDLE"
       THEN /\ hm_state' = "RUN"
            /\ hm_latest' = [hm_latest EXCEPT ![hm_channel] =
                 RingNext(@, HeaderInMin(hm_channel), HeaderInMax(hm_channel))]
       ELSE UNCHANGED <<hm_state, hm_latest>>
  /\ UNCHANGED <<side, runs, swVars, firVars, pio_h, memVars, hm_channel,
                 hm_ram, bmVars>>

HeaderPollSkipped ==                                         \* mutant
  /\ Goto("hpoll", "hread")
  /\ UNCHANGED <<side, runs, swVars, firVars, pio_h, memVars, hmVars, bmVars>>

HeaderPoll ==
  /\ hm_state = "IDLE"
  /\ Goto("hpoll", "hread")
  /\ UNCHANGED <<side, runs, swVars, firVars, pio_h, memVars, hmVars, bmVars>>

(* Read the sums; the left channel is followed by the right one.           *)
HeaderRead ==
  /\ pc = "hread"
  /\ mac_buffer' = [mac_buffer EXCEPT ![side] = hm_ram]
  /\ IF side = 1 THEN side' = 2 /\ pc' = "hset"
                 ELSE UNCHANGED side /\ pc' = "hifft"
  /\ UNCHANGED <<runs, samples_in_file, sample_counter, header_fill, body_fill,
                 i_in, in_body, latest_in_block, latest_in_body_block, i_h,
                 i_h_body, body_runs, body_mac_buffer, out, firVars, pio_h,
                 memVars, hmVars, bmVars>>

(* Inverse FFT, overlap-add into the output, advance the ring.             *)
HeaderAdd ==
  /\ Goto("hifft", IF BodyDue THEN "bfft" ELSE "next")
  /\ pio_h' = 1
  /\ LET first == HEADER_BLOCK_SIZE_ZE + i_h * HEADER_BLOCK_SIZE
         last == HEADER_BLOCK_SIZE_ZE + (i_h + 2) * HEADER_BLOCK_SIZE - 1
         Terms(c, t) == IF t \in first .. last
                        THEN Ifft(mac_buffer[c], t - first, HEADER_BLOCK_SIZE,
                                  <<"header", i_h>>)
                        ELSE {}
     IN out' = [c \in Channels |->
                  [t \in Outputs |-> out[c][t] \cup Terms(c, t)]]
  /\ i_h' = i_h + 1
  /\ latest_in_block' =
       RingNext(latest_in_block, HEADER_IN_BLOCK_MIN, HEADER_IN_BLOCK_MAX)
  /\ UNCHANGED <<side, runs, samples_in_file, sample_counter, header_fill,
                 body_fill, i_in, in_body, latest_in_body_block, i_h_body,
                 body_runs, mac_buffer, body_mac_buffer, firVars, memVars,
                 hmVars, bmVars>>

(* The third full body block ends test().                                  *)
BodyReturn ==
  /\ body_runs = 2
  /\ Goto("bfft", "menu")
  /\ UNCHANGED <<side, runs, swVars, firVars, pio_h, memVars, hmVars, bmVars>>

BodyFft ==
  /\ body_runs # 2
  /\ Goto("bfft", "bclear")
  /\ body_runs' = body_runs + 1
  /\ body_fill' = 0
  /\ \E left \in BodyStore(in_body[1]), right \in BodyStore(in_body[2]) :
       sdram' = [sdram EXCEPT ![latest_in_body_block] = left,
                              ![BODY_BLOCK_NUM + latest_in_body_block] = right]
  /\ side' = 1
  /\ UNCHANGED <<runs, samples_in_file, sample_counter, header_fill, i_in,
                 in_body, latest_in_block, latest_in_body_block, i_h, i_h_body,
                 mac_buffer, body_mac_buffer, out, firVars, pio_h, sram, acc,
                 hmVars, bmVars>>

ResetAccSkipped ==                                           \* mutant
  /\ Goto("bclear", "bset")
  /\ UNCHANGED <<side, runs, swVars, firVars, pio_h, memVars, hmVars, bmVars>>

(* The body MAC adds to the chunk block, which the program zeroes first.   *)
ResetAcc ==
  /\ Goto("bclear", "bset")
  /\ acc' = {}
  /\ UNCHANGED <<side, runs, swVars, firVars, pio_h, sram, sdram, hmVars, bmVars>>

BodySetChannel ==
  /\ Goto("bset", "bset_wait")
  /\ BmWrite(IF side = 1 THEN "SET_LEFT" ELSE "SET_RIGHT")
  /\ UNCHANGED <<side, runs, swVars, firVars, pio_h, memVars, hmVars,
                 bm_channel, bm_latest>>

WaitBodyChannelInverted ==                                   \* mutant
  /\ bm_state # "IDLE"
  /\ Goto("bset_wait", "bstart")
  /\ UNCHANGED <<side, runs, swVars, firVars, pio_h, memVars, hmVars, bmVars>>

WaitBodyChannel ==
  /\ bm_state = "IDLE"
  /\ Goto("bset_wait", "bstart")
  /\ UNCHANGED <<side, runs, swVars, firVars, pio_h, memVars, hmVars, bmVars>>

BodyStart ==
  /\ Goto("bstart", "bpoll")
  /\ BmWrite("RUN")
  /\ UNCHANGED <<side, runs, swVars, firVars, pio_h, memVars, hmVars,
                 bm_channel, bm_latest>>

WaitBodyRunSkipped ==                                        \* mutant
  /\ Goto("bpoll", "bread")
  /\ UNCHANGED <<side, runs, swVars, firVars, pio_h, memVars, hmVars, bmVars>>

WaitBodyRun ==
  /\ bm_state = "IDLE"
  /\ Goto("bpoll", "bread")
  /\ UNCHANGED <<side, runs, swVars, firVars, pio_h, memVars, hmVars, bmVars>>

BodyRead ==
  /\ pc = "bread"
  /\ body_mac_buffer' = [body_mac_buffer EXCEPT ![side] = acc]
  /\ IF side = 1 THEN side' = 2 /\ pc' = "bclear"
                 ELSE UNCHANGED side /\ pc' = "bifft"
  /\ UNCHANGED <<runs, samples_in_file, sample_counter, header_fill, body_fill,
                 i_in, in_body, latest_in_block, latest_in_body_block, i_h,
                 i_h_body, body_runs, mac_buffer, out, firVars, pio_h, memVars,
                 hmVars, bmVars>>

(* The bounds of this loop mix body and header block sizes.                *)
BodyAdd ==
  /\ Goto("bifft", "next")
  /\ LET first == BODY_BLOCK_SIZE_ZE + i_h_body * BODY_BLOCK_SIZE
         last == HEADER_BLOCK_SIZE_ZE + (i_h_body + 2) * HEADER_BLOCK_SIZE - 1
         Terms(c, t) == IF t \in first .. last
                        THEN Ifft(body_mac_buffer[c], t - first,
                                  BODY_BLOCK_SIZE, <<"body", i_h_body>>)
                        ELSE {}
     IN out' = [c \in Channels |->
                  [t \in Outputs |-> out[c][t] \cup Terms(c, t)]]
  /\ i_h_body' = i_h_body + 1
  /\ latest_in_body_block' =
       RingNext(latest_in_body_block, BODY_IN_BLOCK_MIN, BODY_IN_BLOCK_MAX)
  /\ UNCHANGED <<side, runs, samples_in_file, sample_counter, header_fill,
                 body_fill, i_in, in_body, latest_in_block, i_h, body_runs,
                 mac_buffer, body_mac_buffer, firVars, pio_h, memVars, hmVars,
                 bmVars>>

(* At the end of the file the program prints a message and goes on.        *)
NextSample ==
  /\ Goto("next", "sample")
  /\ sample_counter' = sample_counter + 1
  /\ UNCHANGED <<side, runs, samples_in_file, header_fill, body_fill, i_in,
                 in_body, latest_in_block, latest_in_body_block, i_h, i_h_body,
                 body_runs, mac_buffer, body_mac_buffer, out, firVars, pio_h,
                 memVars, hmVars, bmVars>>

-----------------------------------------------------------------------------
(* main(): the menu that calls test() again *)

PressTest ==
  /\ runs < MaxRuns
  /\ Goto("menu", "boot")
  /\ runs' = runs + 1
  /\ UNCHANGED <<side, swVars, firVars, pio_h, memVars, hmVars, bmVars>>

(* No button is pressed: get_button() returns -1 and main() polls again.   *)
MenuIdle == pc = "menu" /\ UNCHANGED vars

-----------------------------------------------------------------------------
(* The two MACs *)

HmResetDone ==
  /\ hm_state = "RESET"
  /\ hm_state' = "IDLE"
  /\ hm_ram' = {}
  /\ UNCHANGED <<pc, side, runs, swVars, firVars, pio_h, memVars, hm_channel,
                 hm_latest, bmVars>>

HmRunDone ==
  /\ hm_state = "RUN"
  /\ hm_state' = "IDLE"
  /\ hm_ram' = MacPairs(sram, hm_latest[hm_channel], HeaderShift(hm_channel),
                        HeaderInMin(hm_channel), HEADER_BLOCK_NUM)
  /\ UNCHANGED <<pc, side, runs, swVars, firVars, pio_h, memVars, hm_channel,
                 hm_latest, bmVars>>

BmResetDone ==
  /\ bm_state = "RESET"
  /\ bm_state' = "IDLE"
  /\ bm_latest' = BmResetLatest
  /\ UNCHANGED <<pc, side, runs, swVars, firVars, pio_h, memVars, hmVars,
                 bm_channel>>

BmSetDone ==
  /\ bm_state \in {"SET_LEFT", "SET_RIGHT"}
  /\ bm_state' = "IDLE"
  /\ bm_channel' = IF bm_state = "SET_LEFT" THEN 1 ELSE 2
  /\ UNCHANGED <<pc, side, runs, swVars, firVars, pio_h, memVars, hmVars,
                 bm_latest>>

(* A run selects the next input block and adds its products to the chunk   *)
(* block in the SDRAM.                                                     *)
BmRunDone ==
  /\ bm_state = "RUN"
  /\ bm_state' = "IDLE"
  /\ bm_latest' = [bm_latest EXCEPT ![bm_channel] =
                     RingNext(@, BodyInMin(bm_channel), BodyInMax(bm_channel))]
  /\ acc' = acc \cup MacPairs(sdram, bm_latest'[bm_channel], BodyShift(bm_channel),
                              BodyInMin(bm_channel), BODY_BLOCK_NUM)
  /\ UNCHANGED <<pc, side, runs, swVars, firVars, pio_h, sram, sdram, hmVars,
                 bm_channel>>

-----------------------------------------------------------------------------
Setup == SetupMemory \/ FftHSetup \/ PreProcessHeader \/ PreProcessBody
         \/ FirSetup \/ PrepareLoop \/ ResetHeaderMac \/ ResetBodyMac
         \/ WaitBodyReset

Loop == Sample \/ HeaderFft \/ HeaderSetChannel \/ HeaderStart \/ HeaderPoll
        \/ HeaderRead \/ HeaderAdd \/ BodyReturn \/ BodyFft \/ ResetAcc
        \/ BodySetChannel \/ WaitBodyChannel \/ BodyStart \/ WaitBodyRun
        \/ BodyRead \/ BodyAdd \/ NextSample

HeaderMac == HmResetDone \/ HmRunDone
BodyMac == BmResetDone \/ BmSetDone \/ BmRunDone

Next == Setup \/ Loop \/ PressTest \/ MenuIdle \/ HeaderMac \/ BodyMac

Spec == Init /\ [][Next]_vars

(* The processor runs one thread without interrupts, the MACs are clocked: *)
(* whichever of them can take a step does.  A button may never be pressed. *)
FairSpec ==
  /\ Spec
  /\ WF_vars(Setup \/ Loop)
  /\ WF_vars(HeaderMac)
  /\ WF_vars(BodyMac)

-----------------------------------------------------------------------------
(* Properties *)

Pcs ==
  {"boot", "ffth_setup", "ir_header", "ir_body", "fir_setup", "prepare",
   "reset_hm", "reset_bm", "wait_reset", "sample", "hfft", "hset", "hstart",
   "hpoll", "hread", "hifft", "bfft", "bclear", "bset", "bset_wait", "bstart",
   "bpoll", "bread", "bifft", "next", "menu"}

HeaderPairs == [in : HeaderBlock, ir : HeaderBlock]
BodyPairs == [in : BodyBlock, ir : BodyBlock]
Products ==
  [tap : Element, sample : Element, by : {"fir", "header", "body"} \X Nat]

(* Every variable keeps its type: in particular the ring pointers of the   *)
(* program and of both MACs stay inside their rings, and a header product  *)
(* never contains a slot from outside the SRAM.                            *)
TypeOK ==
  /\ pc \in Pcs /\ side \in Channels /\ runs \in 1 .. MaxRuns
  /\ samples_in_file \in Nat /\ sample_counter \in Nat
  /\ header_fill \in Nat /\ body_fill \in Nat
  /\ i_in \in [Channels -> HeaderBlock]
  /\ in_body \in [Channels -> Vector(BODY_BLOCK_SIZE)]
  /\ latest_in_block \in HEADER_IN_BLOCK_MIN .. HEADER_IN_BLOCK_MAX
  /\ latest_in_body_block \in BODY_IN_BLOCK_MIN .. BODY_IN_BLOCK_MAX
  /\ i_h \in Nat /\ i_h_body \in Nat /\ body_runs \in 0 .. 2
  /\ mac_buffer \in [Channels -> SUBSET HeaderPairs]
  /\ body_mac_buffer \in [Channels -> SUBSET BodyPairs]
  /\ out \in [Channels -> [Outputs -> SUBSET Products]]
  /\ fir_coeff \in [Channels -> Vector(FIR_SIZE)]
  /\ fir_line \in [Channels -> Vector(FIR_SIZE)]
  /\ pio_h \in {0, 1}
  /\ sram \in [HeaderSlots -> HeaderBlock]
  /\ sdram \in [BodySlots -> BodyBlock]
  /\ acc \in SUBSET BodyPairs
  /\ hm_state \in {"IDLE", "RESET", "RUN"}
  /\ hm_channel \in Channels
  /\ hm_latest \in [Channels -> HeaderSlots]
  /\ \A c \in Channels : hm_latest[c] \in HeaderInMin(c) .. HeaderInMax(c)
  /\ hm_ram \in SUBSET HeaderPairs
  /\ bm_state \in {"IDLE", "RESET", "SET_LEFT", "SET_RIGHT", "RUN"}
  /\ bm_channel \in Channels
  /\ bm_latest \in [Channels -> BodySlots]
  /\ \A c \in Channels : bm_latest[c] \in BodyInMin(c) .. BodyInMax(c)

(* Program and MACs advance their ring pointers independently, without     *)
(* ever exchanging them.  Whenever a MAC works, it works for the channel   *)
(* the program asked for and starts from the block the program has just    *)
(* stored for that channel (the body MAC moves on when its run ends).      *)
NewestBlock ==
  /\ hm_state = "RUN" =>
       /\ hm_channel = side
       /\ hm_latest[side] = latest_in_block + HeaderShift(side)
  /\ bm_state = "RUN" =>
       /\ bm_channel = side
       /\ RingNext(bm_latest[side], BodyInMin(side), BodyInMax(side))
            = latest_in_body_block + BodyShift(side)

(* No command is written while a MAC is busy (it would be ignored), and    *)
(* the program does not touch the SRAM while the header MAC owns it.  That *)
(* the reset of the header MAC, which is not polled for, is over before    *)
(* the first sample is, is not shown but assumed: see Sample.              *)
CommandsAccepted ==
  /\ pc \in {"boot", "ir_header", "reset_hm", "hfft", "hset", "hstart", "hread"}
       => hm_state = "IDLE"
  /\ pc \in {"reset_bm", "bset", "bstart", "bread", "bclear", "bfft"}
       => bm_state = "IDLE"

(* The header MAC of this module, with whatever the program writes to it   *)
(* and to the SRAM, does what MacCommands promises; HeaderMac implements   *)
(* the same promise cycle by cycle.                                        *)
HeaderMacUse == INSTANCE MacCommands
  WITH NUM <- HEADER_BLOCK_NUM, state <- hm_state, channel <- hm_channel,
       latest <- hm_latest, mem <- sram,
       sums <- IF hm_state = "IDLE" THEN hm_ram ELSE {}

HeaderMacCommands == HeaderMacUse!CommandSpec

(* The same for the body MAC, the blocks in the SDRAM and the chunk block: *)
(* the program stores and zeroes only while that MAC is idle.  BodyMac     *)
(* implements the same promise cycle by cycle.                             *)
BodyMacUse == INSTANCE BodyCommands
  WITH NUM <- BODY_BLOCK_NUM, state <- bm_state, channel <- bm_channel,
       latest <- bm_latest, mem <- sdram

BodyMacCommands == BodyMacUse!CommandSpec

(* What the program copies out of the chunk block for body block n is, for *)
(* each channel, exactly the products of what is stored for the last       *)
(* BODY_BLOCK_NUM input blocks with what is stored for the impulse         *)
(* response, the newest with the first; and that is each time the block    *)
(* itself, of this channel, this run and this place in the ring, unless    *)
(* its own FFT has spoilt it.                                              *)
BodySamples(c, n) ==
  [j \in 0 .. BODY_BLOCK_SIZE - 1 |->
     IF n < 0 THEN Zero ELSE <<c, n * BODY_BLOCK_SIZE + j>>]

BodyInput(c, n) == IF n < 0 THEN {BodySamples(c, n)} ELSE BodyStore(BodySamples(c, n))

StoredPairs(c, mem, newest) ==
  MacPairs(mem, newest + BodyShift(c), BodyShift(c), BodyInMin(c), BODY_BLOCK_NUM)

BodyOperands ==
  pc = "bifft" =>
    \A c \in Channels :
      /\ body_mac_buffer[c] = StoredPairs(c, sdram, latest_in_body_block)
      /\ \A k \in 0 .. BODY_BLOCK_NUM - 1 :
           /\ sdram[RingBack(latest_in_body_block + BodyShift(c), k, BodyInMin(c),
                             BODY_BLOCK_NUM)] \in BodyInput(c, i_h_body - k)
           /\ sdram[BodyShift(c) + k] \in BodyStore(BodyTaps(c, k))

(* The loop implements the convolution with the part of the impulse        *)
(* response that the FIR filters and the header cover: no output sample    *)
(* lacks a product when the loop leaves it, has a wrong or a second one,   *)
(* or changes afterwards.  A product added twice shows up as Twice.        *)
Twice == { [tap |-> Junk, sample |-> Junk] }

SumOf(products) ==
  IF \E x, y \in products : x # y /\ x.tap = y.tap /\ x.sample = y.sample
  THEN Twice
  ELSE { [tap |-> x.tap, sample |-> x.sample] : x \in products }

Reverb == INSTANCE Convolution
  WITH Taps <- FIR_SIZE + HEADER_BLOCK_NUM * HEADER_BLOCK_SIZE,
       played <- sample_counter,
       sum <- [c \in Channels |-> [t \in Outputs |-> SumOf(out[c][t])]]

HeaderConvolution == Reverb!ConvSpec

(* test() comes back to the menu: no poll and no FIFO read waits for ever  *)
(* (at the first entry; see SecondTestReturns).                            *)
TestReturns == (pc = "boot" /\ runs = 1) ~> pc = "menu"

(* main.c:624 "Init FFT": each entry of test() initialises what it needs   *)
(* and comes back to the menu.                                             *)
SecondTestReturns == pc = "boot" ~> pc = "menu"

(* "ADD BODY RESULTS TO OUTPUT BUFFER" (main.c:1308): after a body block   *)
(* each channel's output has products that this block contributed.         *)
BodyReachesOutput ==
  pc = "next" =>
    \A n \in 0 .. i_h_body - 1 : \A c \in Channels :
      \E t \in Outputs : \E x \in out[c][t] : x.by = <<"body", n>>
=============================================================================
