----------------------------- MODULE FftWrapper -----------------------------
(***************************************************************************)
(* The wrapper between the FIFOs and the generated FFT core                *)
(* (fft_wrapper_header.vhd; fft_wrapper_body.vhd differs in the length),   *)
(* clock cycle by clock cycle, with both FIFOs, the PIO that selects the   *)
(* inverse transform, and the driver code of fft.c.                        *)
(*                                                                         *)
(* A forward frame is N pairs of words in and N pairs out; an inverse      *)
(* frame is N pairs in and N words out.  The core scales a frame by a      *)
(* common exponent, which the wrapper undoes word by word.                 *)
(*                                                                         *)
(* Data.  A word is named by the frame it belongs to, its bin and its part *)
(* (real or imaginary); a word of the output also by the two registers it  *)
(* was shifted with, each of which names the frame and the direction that  *)
(* the exponent was computed for.                                          *)
(*                                                                         *)
(* The core is external: it takes a frame when it likes, needs its time,   *)
(* and puts out the bins with gaps.  Its exponent is on the port Lead      *)
(* cycles before the first bin.                                            *)
(***************************************************************************)
EXTENDS Integers, Sequences

CONSTANTS
  N,               \* FFT_LENGTH (512)
  FIFO_DEPTH,      \* words in a FIFO (64)
  Spare,           \* words the output FIFO takes when it is not ready any more
  Lead             \* see above

ASSUME FftWrapperAssumption ==
  /\ N \in Nat \ {0, 1}
  /\ Spare \in Nat /\ Lead \in Nat \ {0}
  /\ FIFO_DEPTH \in Nat /\ FIFO_DEPTH > Spare

VARIABLES
  state,                     \* state: TRANSFER_TO_FFT or OUTPUT_DATA
  input_state, index, temp_in,
  output_state, receive_index, temp_out,
  exponent, exponent_abs,
  core,                      \* the FFT core
  inverse,                   \* the PIO
  m2s, s2m,                  \* input and output FIFO
  pc, frame, i               \* the program

inputVars == <<input_state, index, temp_in>>
outputVars == <<output_state, receive_index, temp_out>>
wrapperVars == <<state, inputVars, outputVars, exponent, exponent_abs>>
programVars == <<pc, frame, i>>
vars == <<wrapperVars, core, inverse, m2s, s2m, programVars>>

-----------------------------------------------------------------------------
(* Data.  Three frames are told apart, so a left-over word is not taken    *)
(* for one of the frame in question.                                       *)

Frames == 0 .. 2
Bin == 0 .. N - 1
Word(f, d, k, part) == [frame |-> f, dir |-> d, bin |-> k, part |-> part]
In(f, j) == Word(f, 0, j \div 2, IF j % 2 = 0 THEN "re" ELSE "im")
None == Word(0, 0, -1, "re")
Junk == Word(0, 0, -2, "re")

FrameWords(d) == IF d = 1 THEN N ELSE 2 * N

(* The word that the program should read as the j-th of its frame.         *)
Out(f, d, j) ==
  [word |-> IF d = 1 THEN Word(f, d, j, "re")
            ELSE Word(f, d, j \div 2, IF j % 2 = 0 THEN "re" ELSE "im"),
   exponent |-> <<f, d>>, exponent_abs |-> <<f, d>>]

Init ==
  /\ state = "TRANSFER"
  /\ input_state = "REAL" /\ index = 0 /\ temp_in = None
  /\ output_state = "REAL" /\ receive_index = 0 /\ temp_out = None
  /\ exponent = <<0, 0>> /\ exponent_abs = <<0, 0>>
  /\ core = [phase |-> "collect", n |-> 0, frame |-> 0, dir |-> 0, ok |-> TRUE,
             valid |-> FALSE, exp |-> 0]
  /\ inverse = 0
  /\ m2s = <<>> /\ s2m = <<>>
  /\ pc = "send" /\ frame = 1 /\ i = 0

-----------------------------------------------------------------------------
(* input_proc: pairs of words are put together for the core.  si_ready is  *)
(* the core's choice in every cycle.                                       *)

Arrives(si_ready) == state = "TRANSFER" /\ si_ready /\ m2s # <<>>

InputReal(si_ready) ==
  /\ input_state = "REAL"
  /\ \/ /\ index = N /\ index' = 0
        /\ UNCHANGED <<input_state, temp_in>>
     \/ /\ index # N /\ Arrives(si_ready)
        /\ temp_in' = Head(m2s) /\ input_state' = "IMAG"
        /\ UNCHANGED index
     \/ /\ index # N /\ ~Arrives(si_ready)
        /\ UNCHANGED inputVars

InputImag(si_ready) ==
  /\ input_state = "IMAG"
  /\ \/ /\ Arrives(si_ready)
        /\ index' = index + 1 /\ input_state' = "REAL"
        /\ UNCHANGED temp_in
     \/ ~Arrives(si_ready) /\ UNCHANGED inputVars

Input(si_ready) ==
  /\ InputReal(si_ready) \/ InputImag(si_ready)
  /\ m2s' = IF Arrives(si_ready) THEN Tail(m2s) ELSE m2s

Pair(si_ready) == input_state = "IMAG" /\ Arrives(si_ready)

-----------------------------------------------------------------------------
(* fft_proc *)

StateNext ==
  IF state = "TRANSFER" THEN (IF index = N THEN "OUTPUT" ELSE state)
  ELSE IF receive_index = N /\ output_state \in {"REAL", "INVERSE"}
       THEN "TRANSFER" ELSE state

Exponent ==
  /\ exponent' = IF state = "OUTPUT" THEN <<core.exp, inverse>> ELSE exponent
  /\ exponent_abs' = exponent

-----------------------------------------------------------------------------
(* output_proc: a bin is put out as two words, or as its real part only.   *)
(* While the imaginary word goes out, the next bin is kept waiting.        *)

stout_ready == Len(s2m) < FIFO_DEPTH - Spare

src(part) == IF core.ok THEN Word(core.frame, core.dir, core.n, part) ELSE Junk
src_valid == core.valid

Take == stout_ready /\ src_valid /\ "OUTPUT" \in {state, StateNext}

Shifted(x) == [word |-> x, exponent |-> exponent, exponent_abs |-> exponent_abs]

(* A word is put out; the FIFO drops it when it has no room.               *)
Put(x) == s2m' = IF Len(s2m) < FIFO_DEPTH THEN Append(s2m, Shifted(x)) ELSE s2m

(* output_state without a reason to do otherwise.                          *)
Default == IF inverse = 1 THEN "INVERSE" ELSE output_state

Quiet == UNCHANGED s2m

EndOfFrame ==
  /\ output_state \in {"REAL", "INVERSE"} /\ receive_index = N
  /\ output_state = "INVERSE" => inverse = 1
  /\ receive_index' = 0
  /\ output_state' = IF output_state = "INVERSE" THEN "REAL" ELSE Default
  /\ temp_out' = IF output_state = "REAL" THEN None ELSE temp_out
  /\ Quiet

OutputReal ==
  /\ output_state = "REAL" /\ receive_index # N
  /\ IF Take
     THEN /\ Put(IF receive_index = 0 THEN src("re") ELSE temp_out)
          /\ output_state' = "IMAG" /\ temp_out' = src("im")
     ELSE output_state' = Default /\ Quiet /\ UNCHANGED temp_out
  /\ UNCHANGED receive_index

(* The last imaginary word does not wait for a next bin, nor for the FIFO. *)
LastImag == output_state = "IMAG" /\ receive_index = N - 1

OutputImagLastWaits ==                                       \* mutant
  /\ output_state = "IMAG"
  /\ IF Take
     THEN /\ Put(temp_out)
          /\ output_state' = "REAL"
          /\ temp_out' = IF LastImag THEN None ELSE src("re")
          /\ receive_index' = receive_index + 1
     ELSE output_state' = Default /\ Quiet /\ UNCHANGED <<temp_out, receive_index>>

OutputImag ==
  /\ output_state = "IMAG"
  /\ IF LastImag \/ Take
     THEN /\ Put(temp_out)
          /\ output_state' = "REAL"
          /\ temp_out' = IF LastImag THEN None ELSE src("re")
          /\ receive_index' = receive_index + 1
     ELSE output_state' = Default /\ Quiet /\ UNCHANGED <<temp_out, receive_index>>

OutputInverse ==
  /\ output_state = "INVERSE"
  /\ \/ /\ inverse = 0
        /\ output_state' = "REAL" /\ Quiet /\ UNCHANGED receive_index
     \/ /\ inverse = 1 /\ receive_index # N
        /\ UNCHANGED output_state
        /\ IF Take THEN Put(src("re")) /\ receive_index' = receive_index + 1
                   ELSE Quiet /\ UNCHANGED receive_index
  /\ UNCHANGED temp_out

Output == EndOfFrame \/ OutputReal \/ OutputImag \/ OutputInverse

src_ready_always == stout_ready                              \* mutant
src_ready == stout_ready /\ ~(output_state = "IMAG" /\ (LastImag \/ Take))

-----------------------------------------------------------------------------
(* The core.  A frame is in order when its pairs are, with the marks of    *)
(* the first and the last one; the direction counts at the first one.      *)

Expected(k) == <<In(core.frame, 2 * k), In(core.frame, 2 * k + 1)>>

Collect(pair) ==
  LET sop == index = 0
      eop == index = N - 1
      f == IF core.n = 0 THEN Head(m2s).frame ELSE core.frame
      good == /\ temp_in = In(f, 2 * core.n) /\ Head(m2s) = In(f, 2 * core.n + 1)
              /\ sop = (core.n = 0) /\ eop = (core.n = N - 1)
  IN core' = IF ~pair THEN core
             ELSE [core EXCEPT
                    !.n = IF core.n = N - 1 THEN 0 ELSE @ + 1,
                    !.phase = IF core.n = N - 1 THEN "compute" ELSE @,
                    !.frame = f,
                    !.dir = IF sop THEN inverse ELSE @,
                    !.ok = good /\ (core.n > 0 => @)]

Compute(moves) ==
  core' = IF ~moves THEN core
          ELSE IF core.n < Lead
          THEN [core EXCEPT !.n = @ + 1, !.exp = core.frame]
          ELSE [core EXCEPT !.phase = "emit", !.n = 0, !.valid = TRUE]

Emit(moves) ==
  core' = IF ~core.valid THEN [core EXCEPT !.valid = moves]
          ELSE IF ~src_ready THEN core
          ELSE IF core.n = N - 1
          THEN [core EXCEPT !.phase = "collect", !.n = 0, !.valid = FALSE]
          ELSE [core EXCEPT !.n = @ + 1, !.valid = moves]

(* Once the exponent is out, the first bin follows Lead cycles later.      *)
Core(si_ready, moves) ==
  \/ core.phase = "collect" /\ Collect(Pair(si_ready))
  \/ core.phase = "compute" /\ (core.n > 0 => moves) /\ Compute(moves)
  \/ core.phase = "emit" /\ Emit(moves)

Clock(si_ready, moves) ==
  /\ Input(si_ready)
  /\ state' = StateNext
  /\ Exponent
  /\ Output
  /\ Core(si_ready, moves)
  /\ UNCHANGED <<inverse, programVars>>

-----------------------------------------------------------------------------
(* The program.  fft_h_setup_hw sends a frame without touching the PIO,    *)
(* then come forward frames (process_header_block_hw) and inverse ones     *)
(* (ifft_header_hw) in any order.  An access to a FIFO waits while the     *)
(* FIFO is full or empty.                                                  *)

SelectDirection ==
  /\ pc = "idle" /\ pc' = "send"
  /\ inverse' \in {0, 1}
  /\ UNCHANGED <<wrapperVars, core, m2s, s2m, frame, i>>

SendWordNoWait ==                                            \* mutant
  /\ pc = "send"
  /\ m2s' = Append(m2s, In(frame, i))
  /\ IF i = 2 * N - 1 THEN pc' = "receive" /\ i' = 0
                      ELSE i' = i + 1 /\ UNCHANGED pc
  /\ UNCHANGED <<wrapperVars, core, inverse, s2m, frame>>

SendWord ==
  /\ pc = "send" /\ Len(m2s) < FIFO_DEPTH
  /\ m2s' = Append(m2s, In(frame, i))
  /\ IF i = 2 * N - 1 THEN pc' = "receive" /\ i' = 0
                      ELSE i' = i + 1 /\ UNCHANGED pc
  /\ UNCHANGED <<wrapperVars, core, inverse, s2m, frame>>

ReadWordsShort(d) == IF d = 1 THEN N ELSE 2 * N - 1          \* mutant
ReadWords(d) == IF d = 1 THEN N ELSE 2 * N

ReadWord ==
  /\ pc = "receive" /\ s2m # <<>>
  /\ s2m' = Tail(s2m)
  /\ IF i = ReadWords(inverse) - 1
       THEN pc' = "idle" /\ i' = 0 /\ frame' = (frame + 1) % 3
       ELSE i' = i + 1 /\ UNCHANGED <<pc, frame>>
  /\ UNCHANGED <<wrapperVars, core, inverse, m2s>>

Next ==
  \/ \E si_ready, moves \in BOOLEAN : Clock(si_ready, moves)
  \/ SelectDirection \/ SendWord \/ ReadWord

Spec == Init /\ [][Next]_vars

(* The wrapper is clocked, the core takes and returns words in the end,    *)
(* and the program goes on with what it has begun.                         *)
FairSpec ==
  /\ Spec
  /\ WF_vars(Clock(TRUE, TRUE))
  /\ WF_vars(SendWord \/ ReadWord)

-----------------------------------------------------------------------------
(* Properties *)

TypeOK ==
  /\ state \in {"TRANSFER", "OUTPUT"}
  /\ input_state \in {"REAL", "IMAG"} /\ index \in 0 .. N
  /\ output_state \in {"REAL", "IMAG", "INVERSE"} /\ receive_index \in 0 .. N
  /\ exponent \in Frames \X {0, 1} /\ exponent_abs \in Frames \X {0, 1}
  /\ core.phase \in {"collect", "compute", "emit"} /\ inverse \in {0, 1}
  /\ Len(m2s) <= FIFO_DEPTH /\ Len(s2m) <= FIFO_DEPTH
  /\ pc \in {"idle", "send", "receive"} /\ frame \in Frames /\ i \in 0 .. 2 * N - 1

(* What waits in the output FIFO are the next words of the frame that the  *)
(* program reads, in order, each shifted with the exponent and for the     *)
(* direction of this frame; before the program has sent the whole frame    *)
(* there is nothing.  In particular no word of a frame is left to be taken *)
(* for the first one of the next.                                          *)
ReadsFrame ==
  LET got == IF pc = "receive" THEN i ELSE 0
  IN /\ \A k \in 1 .. Len(s2m) : s2m[k] = Out(frame, inverse, got + k - 1)
     /\ s2m # <<>> => pc = "receive"
     /\ pc = "receive" => got + Len(s2m) <= FrameWords(inverse)

(* The wrapper listens to the core exactly while the core collects, and    *)
(* the direction is that of the frame in the core for as long as a word of *)
(* it is still to be put out.                                              *)
DirectionHolds ==
  /\ core.phase # "collect" => inverse = core.dir
  /\ core.phase = "emit" /\ core.valid => state = "OUTPUT"
  /\ output_state = "IMAG" => inverse = 0

(* A frame that was begun is read to its end: neither side waits for the   *)
(* other for ever.                                                         *)
FramesReturn == pc = "send" ~> pc = "idle"
=============================================================================
