-------------------------- MODULE ReverbLoopProofs --------------------------
(***************************************************************************)
(* Proofs about ReverbLoop, for every size of the partition: the types,    *)
(* the agreement of the program's and the MACs' ring pointers, that no MAC *)
(* command is lost, and which blocks the sums of both MACs are made of.    *)
(*                                                                         *)
(* Neither NewestBlock nor CommandsAccepted is inductive: they speak of    *)
(* the moment a MAC works, and hold because of what was true of the        *)
(* pointers and of the MACs all along.  Handshake says where the processor *)
(* can be while a MAC is busy; HeaderSync and BodySync say how far apart   *)
(* the pointers are at every point of the loop.                            *)
(***************************************************************************)
EXTENDS ReverbLoop, TLAPS

(* Where the processor can be while a MAC is busy, and which channel the   *)
(* MAC is set to.                                                          *)
HmHandshake ==
  /\ hm_state = "RESET" => pc \in {"reset_bm", "wait_reset", "sample"}
  /\ hm_state = "RUN" => pc = "hpoll"
  /\ pc \in {"hstart", "hpoll", "hread"} => hm_channel = side

BmHandshake ==
  /\ bm_state = "RESET" => pc = "wait_reset"
  /\ bm_state \in {"SET_LEFT", "SET_RIGHT"} => pc = "bset_wait"
  /\ bm_state = "SET_LEFT" => side = 1
  /\ bm_state = "SET_RIGHT" => side = 2
  /\ bm_state = "RUN" => pc = "bpoll"
  /\ pc \in {"bstart", "bpoll", "bread"} => bm_channel = side
  /\ pc = "bset_wait" /\ bm_state = "IDLE" => bm_channel = side

(* The MAC has been started on the block the program stored last.          *)
HeaderStarted(c) ==
  \/ pc \in {"hset", "hstart"} /\ c < side
  \/ pc \in {"hpoll", "hread"} /\ c <= side
  \/ pc = "hifft"

BodyStarted(c) ==
  \/ pc \in {"bclear", "bset", "bset_wait", "bstart", "bpoll"} /\ c < side
  \/ pc = "bpoll" /\ c = side /\ bm_state = "IDLE"
  \/ pc = "bread" /\ c <= side
  \/ pc = "bifft"

RingPrev(b, min, max) == IF b = min THEN max ELSE b - 1

SetupPcs ==
  {"boot", "ffth_setup", "ir_header", "ir_body", "fir_setup", "prepare",
   "reset_hm", "reset_bm", "wait_reset"}

(* The program starts with the last block of its rings.                    *)
FreshRings ==
  pc \in {"reset_hm", "reset_bm", "wait_reset"} =>
    /\ latest_in_block = HEADER_IN_BLOCK_MAX
    /\ latest_in_body_block = BODY_IN_BLOCK_MAX

HeaderSync ==
  (pc \notin SetupPcs \/ pc \in {"reset_bm", "wait_reset"}) =>
    \A c \in Channels :
      hm_latest[c] = HeaderShift(c) +
        (IF HeaderStarted(c) THEN latest_in_block
         ELSE RingPrev(latest_in_block, HEADER_IN_BLOCK_MIN,
                       HEADER_IN_BLOCK_MAX))

BodySync ==
  (pc \notin SetupPcs \/ (pc = "wait_reset" /\ bm_state = "IDLE")) =>
    \A c \in Channels :
      bm_latest[c] = BodyShift(c) +
        (IF BodyStarted(c) THEN latest_in_body_block
         ELSE RingPrev(latest_in_body_block, BODY_IN_BLOCK_MIN,
                       BODY_IN_BLOCK_MAX))

IInv ==
  /\ TypeOK
  /\ HmHandshake
  /\ BmHandshake
  /\ FreshRings
  /\ HeaderSync
  /\ BodySync

-----------------------------------------------------------------------------
(* Lemmas about the data *)

(* The rings of the two channels lie behind each other in the memories.    *)
LEMMA RingLayout ==
  /\ HeaderShift(1) = 0 /\ HeaderShift(2) = HEADER_BLOCK_NUM
  /\ HeaderInMin(1) = 2 * HEADER_BLOCK_NUM
  /\ HeaderInMax(1) = 3 * HEADER_BLOCK_NUM - 1
  /\ HeaderInMin(2) = 3 * HEADER_BLOCK_NUM
  /\ HeaderInMax(2) = 4 * HEADER_BLOCK_NUM - 1
  /\ BodyShift(1) = 0 /\ BodyShift(2) = BODY_BLOCK_NUM
  /\ BodyInMin(1) = 2 * BODY_BLOCK_NUM
  /\ BodyInMax(1) = 3 * BODY_BLOCK_NUM - 1
  /\ BodyInMin(2) = 3 * BODY_BLOCK_NUM
  /\ BodyInMax(2) = 4 * BODY_BLOCK_NUM - 1
<1>1. /\ HEADER_BLOCK_NUM \in Nat /\ BODY_BLOCK_NUM \in Nat
  BY SizeAssumption
<1>2. /\ HeaderShift(1) = 0 /\ HeaderShift(2) = HEADER_BLOCK_NUM
      /\ BodyShift(1) = 0 /\ BodyShift(2) = BODY_BLOCK_NUM
  BY <1>1 DEF HeaderShift, BodyShift
<1>3. QED
  BY <1>1, <1>2
  DEF HeaderInMin, HeaderInMax, BodyInMin, BodyInMax, HEADER_IN_BLOCK_MIN,
      HEADER_IN_BLOCK_MAX, BODY_IN_BLOCK_MIN, BODY_IN_BLOCK_MAX

(* The ring of a channel lies within the memory; a reset MAC points into   *)
(* it.                                                                     *)
LEMMA ResetLatestType ==
  /\ HmResetLatest \in [Channels -> HeaderSlots]
  /\ BmResetLatest \in [Channels -> BodySlots]
  /\ \A c \in Channels :
       /\ HmResetLatest[c] \in HeaderInMin(c) .. HeaderInMax(c)
       /\ BmResetLatest[c] \in BodyInMin(c) .. BodyInMax(c)
<1>1. ASSUME NEW c \in Channels
      PROVE  /\ HeaderInMax(c) - 1 \in HeaderInMin(c) .. HeaderInMax(c)
             /\ BodyInMax(c) - 1 \in BodyInMin(c) .. BodyInMax(c)
             /\ HeaderInMax(c) - 1 \in HeaderSlots
             /\ BodyInMax(c) - 1 \in BodySlots
  <2>1. CASE c = 1
    BY <2>1, RingLayout, SizeAssumption DEF HeaderSlots, BodySlots
  <2>2. CASE c = 2
    BY <2>2, RingLayout, SizeAssumption DEF HeaderSlots, BodySlots
  <2>3. QED
    BY <2>1, <2>2 DEF Channels
<1>2. QED
  BY <1>1 DEF HmResetLatest, BmResetLatest

(* A sample, a tap, silence and a power-up value are elements.             *)
LEMMA Elements ==
  /\ Zero \in Element /\ Junk \in Element
  /\ \A c \in Channels : \A n \in Nat : <<c, n>> \in Element
BY DEF Zero, Junk, Element, Channels

(* The blocks the program computes have the length of their partition.     *)
LEMMA VectorTypes ==
  /\ \A n \in Nat : ZeroVector(n) \in Vector(n)
  /\ \A c \in Channels : \A k \in Nat :
       /\ HeaderTaps(c, k) \in HeaderBlock
       /\ BodyTaps(c, k) \in BodyBlock
  /\ ZeroBodyBlock \in BodyBlock
  /\ Spoilt \in BodyBlock
  /\ \A v \in BodyBlock : BodyStore(v) \subseteq BodyBlock
<1>1. \A n \in Nat : ZeroVector(n) \in Vector(n)
  BY Elements DEF ZeroVector, Vector
<1>2. ASSUME NEW c \in Channels, NEW k \in Nat
      PROVE  /\ HeaderTaps(c, k) \in HeaderBlock
             /\ BodyTaps(c, k) \in BodyBlock
  <2>1. \A j \in 0 .. HEADER_BLOCK_SIZE - 1 :
          FIR_SIZE + k * HEADER_BLOCK_SIZE + j \in Nat
    BY SizeAssumption
  <2>2. \A j \in 0 .. BODY_BLOCK_SIZE - 1 :
          FIR_SIZE + HEADER_BLOCK_NUM * HEADER_BLOCK_SIZE
            + k * BODY_BLOCK_SIZE + j \in Nat
    BY SizeAssumption
  <2>3. QED
    BY <2>1, <2>2, Elements DEF HeaderTaps, BodyTaps, HeaderBlock, BodyBlock, Vector
<1>3. ZeroBodyBlock \in BodyBlock
  BY <1>1, SizeAssumption DEF ZeroBodyBlock, BodyBlock
<1>4. Spoilt \in BodyBlock
  BY Elements DEF Spoilt, BodyBlock, Vector
<1>5. QED
  BY <1>1, <1>2, <1>3, <1>4 DEF BodyStore

(* Flushing a delay line leaves samples in it.                             *)
LEMMA FlushedType ==
  ASSUME NEW line \in Vector(FIR_SIZE)
  PROVE  Flushed(line, FIR_SIZE) \in Vector(FIR_SIZE)
BY Elements, SizeAssumption DEF Flushed, Vector

(* Stepping back in a ring of num blocks by less than num stays in it.     *)
LEMMA RingBackInRing ==
  ASSUME NEW num \in Nat, NEW min \in Nat, NEW b \in min .. min + num - 1,
         NEW k \in 0 .. num - 1
  PROVE  RingBack(b, k, min, num) \in min .. min + num - 1
BY DEF RingBack

(* A MAC whose ring lies in its memory pairs blocks of that memory.        *)
LEMMA MacPairsType ==
  ASSUME NEW Block, NEW size \in Nat, NEW mem \in [0 .. size - 1 -> Block],
         NEW num \in Nat, NEW min \in Nat, min + num <= size,
         NEW b \in min .. min + num - 1,
         NEW ir_min \in Nat, ir_min + num <= size
  PROVE  MacPairs(mem, b, ir_min, min, num) \in SUBSET [in : Block, ir : Block]
<1>1. ASSUME NEW k \in 0 .. num - 1
      PROVE  /\ mem[RingBack(b, k, min, num)] \in Block
             /\ mem[ir_min + k] \in Block
  <2>1. RingBack(b, k, min, num) \in min .. min + num - 1
    BY RingBackInRing
  <2>2. ir_min + k \in 0 .. size - 1
    OBVIOUS
  <2>3. min .. min + num - 1 \subseteq 0 .. size - 1
    OBVIOUS
  <2>4. QED
    BY <2>1, <2>2, <2>3
<1>2. QED
  BY <1>1 DEF MacPairs

(* An inverse FFT yields products of the elements of the paired blocks.    *)
LEMMA IfftType ==
  ASSUME NEW len \in Nat, NEW ii \in Int,
         NEW pairs \in SUBSET [in : Vector(len), ir : Vector(len)],
         NEW by \in {"fir", "header", "body"} \X Nat
  PROVE  Ifft(pairs, ii, len, by) \in SUBSET Products
<1>1. ASSUME NEW p \in pairs, NEW j \in 0 .. len - 1, ii - j \in 0 .. len - 1
      PROVE  Product(p.ir[j], p.in[ii - j], by) \in Products
  <2>1. p.ir \in [0 .. len - 1 -> Element] /\ p.in \in [0 .. len - 1 -> Element]
    BY DEF Vector
  <2>2. p.ir[j] \in Element /\ p.in[ii - j] \in Element
    BY <1>1, <2>1
  <2>3. QED
    BY <2>2 DEF Product, Products
<1>2. QED
  BY <1>1 DEF Ifft

-----------------------------------------------------------------------------
(* Types *)

(* The actions that move no sample data, only control.                     *)
ControlStep ==
  \/ FftHSetup \/ ResetBodyMac \/ WaitBodyReset \/ HeaderSetChannel
  \/ HeaderPoll \/ BodyReturn \/ BodySetChannel \/ WaitBodyChannel
  \/ BodyStart \/ WaitBodyRun \/ NextSample \/ PressTest \/ MenuIdle
  \/ ResetAcc \/ HmResetDone \/ BmSetDone

LEMMA TypeControl ==
  ASSUME TypeOK, ControlStep
  PROVE  TypeOK'
<1> USE DEF TypeOK, Goto, Pcs, Channels, vars, swVars, firVars, memVars,
            hmVars, bmVars
<1>1. CASE FftHSetup
  BY <1>1 DEF FftHSetup
<1>2. CASE ResetBodyMac
  BY <1>2 DEF ResetBodyMac, BmWrite
<1>3. CASE WaitBodyReset
  BY <1>3 DEF WaitBodyReset
<1>4. CASE HeaderSetChannel
  BY <1>4 DEF HeaderSetChannel
<1>5. CASE HeaderPoll
  BY <1>5 DEF HeaderPoll
<1>6. CASE BodyReturn
  BY <1>6 DEF BodyReturn
<1>7. CASE BodySetChannel
  BY <1>7 DEF BodySetChannel, BmWrite
<1>8. CASE WaitBodyChannel
  BY <1>8 DEF WaitBodyChannel
<1>9. CASE BodyStart
  BY <1>9 DEF BodyStart, BmWrite
<1>10. CASE WaitBodyRun
  BY <1>10 DEF WaitBodyRun
<1>11. CASE NextSample
  BY <1>11 DEF NextSample
<1>12. CASE PressTest
  BY <1>12, SizeAssumption DEF PressTest
<1>13. CASE MenuIdle
  BY <1>13 DEF MenuIdle
<1>14. CASE ResetAcc
  BY <1>14 DEF ResetAcc
<1>15. CASE HmResetDone
  BY <1>15 DEF HmResetDone
<1>16. CASE BmSetDone
  BY <1>16 DEF BmSetDone
<1>17. QED
  BY <1>1, <1>2, <1>3, <1>4, <1>5, <1>6, <1>7, <1>8, <1>9, <1>10, <1>11, <1>12, <1>13, <1>14, <1>15, <1>16 DEF ControlStep

LEMMA TypeInit == Init => TypeOK
<1> SUFFICES ASSUME Init PROVE TypeOK
  OBVIOUS
<1>1. /\ i_in \in [Channels -> HeaderBlock]
      /\ in_body \in [Channels -> Vector(BODY_BLOCK_SIZE)]
      /\ sdram \in [BodySlots -> BodyBlock]
  BY VectorTypes, SizeAssumption DEF Init, HeaderBlock
<1>2. /\ fir_coeff \in [Channels -> Vector(FIR_SIZE)]
      /\ fir_line \in [Channels -> Vector(FIR_SIZE)]
      /\ sram \in [HeaderSlots -> HeaderBlock]
  BY Elements DEF Init, Vector, HeaderBlock
<1>3. /\ hm_latest \in [Channels -> HeaderSlots]
      /\ bm_latest \in [Channels -> BodySlots]
      /\ \A c \in Channels : /\ hm_latest[c] \in HeaderInMin(c) .. HeaderInMax(c)
                             /\ bm_latest[c] \in BodyInMin(c) .. BodyInMax(c)
  BY ResetLatestType DEF Init
<1>4. /\ latest_in_block \in HEADER_IN_BLOCK_MIN .. HEADER_IN_BLOCK_MAX
      /\ latest_in_body_block \in BODY_IN_BLOCK_MIN .. BODY_IN_BLOCK_MAX
      /\ runs \in 1 .. MaxRuns
  BY SizeAssumption
  DEF Init, HEADER_IN_BLOCK_MIN, HEADER_IN_BLOCK_MAX, BODY_IN_BLOCK_MIN,
      BODY_IN_BLOCK_MAX
<1>5. /\ out \in [Channels -> [Outputs -> SUBSET Products]]
      /\ side \in Channels /\ bm_channel \in Channels
      /\ mac_buffer \in [Channels -> SUBSET HeaderPairs]
      /\ body_mac_buffer \in [Channels -> SUBSET BodyPairs]
  BY DEF Init, NoOutput, Channels
<1>6. /\ pc \in Pcs /\ samples_in_file \in Nat /\ sample_counter \in Nat
      /\ header_fill \in Nat /\ body_fill \in Nat
      /\ i_h \in Nat /\ i_h_body \in Nat /\ body_runs \in 0 .. 2
      /\ pio_h \in {0, 1} /\ acc \in SUBSET BodyPairs
      /\ hm_ram \in SUBSET HeaderPairs
      /\ hm_state \in {"IDLE", "RESET", "RUN"}
      /\ hm_channel \in Channels
      /\ bm_state \in {"IDLE", "RESET", "SET_LEFT", "SET_RIGHT", "RUN"}
  BY DEF Init, Pcs, Channels
<1>7. QED
  BY <1>1, <1>2, <1>3, <1>4, <1>5, <1>6 DEF TypeOK

(* The setup actions fill memories, filters and locals.                    *)
LEMMA TypeSetup ==
  ASSUME TypeOK, Setup
  PROVE  TypeOK'
<1> USE DEF TypeOK, Goto, Pcs, swVars, firVars, memVars, hmVars, bmVars
<1>1. CASE SetupMemory
  <2>1. sram' \in [HeaderSlots -> HeaderBlock]
    BY <1>1, VectorTypes, SizeAssumption DEF SetupMemory, SramWrite, HeaderBlock
  <2>2. sdram' \in [BodySlots -> BodyBlock]
    BY <1>1, VectorTypes DEF SetupMemory
  <2>3. QED
    BY <1>1, <2>1, <2>2 DEF SetupMemory
<1>2. CASE PreProcessHeader
  <2>1. \A b \in HeaderSlots :
          /\ b < HEADER_BLOCK_NUM => HeaderTaps(1, b) \in HeaderBlock
          /\ ~(b < HEADER_BLOCK_NUM) =>
               HeaderTaps(2, b - HEADER_BLOCK_NUM) \in HeaderBlock
    BY VectorTypes, SizeAssumption DEF HeaderSlots, Channels
  <2>2. sram' \in [HeaderSlots -> HeaderBlock]
    BY <1>2, <2>1 DEF PreProcessHeader, SramWrite
  <2>3. QED
    BY <1>2, <2>2 DEF PreProcessHeader
<1>3. CASE PreProcessBody
  <2>1. PICK spoilt \in SUBSET (0 .. BODY_IN_BLOCK_MIN - 1) :
          sdram' = [b \in BodySlots |->
            IF b >= BODY_IN_BLOCK_MIN THEN sdram[b]
            ELSE IF b \in spoilt THEN Spoilt
            ELSE IF b < BODY_BLOCK_NUM THEN BodyTaps(1, b)
            ELSE BodyTaps(2, b - BODY_BLOCK_NUM)]
    BY <1>3 DEF PreProcessBody
  <2>2. ASSUME NEW b \in BodySlots, b < BODY_BLOCK_NUM
        PROVE  BodyTaps(1, b) \in BodyBlock
    BY <2>2, VectorTypes, SizeAssumption DEF BodySlots, Channels
  <2>3. ASSUME NEW b \in BodySlots, ~(b < BODY_BLOCK_NUM),
               ~(b >= BODY_IN_BLOCK_MIN)
        PROVE  BodyTaps(2, b - BODY_BLOCK_NUM) \in BodyBlock
    <3>1. b - BODY_BLOCK_NUM \in 0 .. BODY_BLOCK_NUM - 1
      BY <2>3, SizeAssumption DEF BodySlots, BODY_IN_BLOCK_MIN
    <3>2. QED
      BY <3>1, VectorTypes, SizeAssumption DEF Channels
  <2>4. sdram' \in [BodySlots -> BodyBlock]
    BY <2>1, <2>2, <2>3, VectorTypes
  <2>5. QED
    BY <1>3, <2>4 DEF PreProcessBody
<1>4. CASE FirSetup
  <2>1. fir_coeff' \in [Channels -> Vector(FIR_SIZE)]
    BY <1>4, Elements, SizeAssumption DEF FirSetup, Vector
  <2>2. fir_line' \in [Channels -> Vector(FIR_SIZE)]
    BY <1>4, FlushedType DEF FirSetup
  <2>3. QED
    BY <1>4, <2>1, <2>2 DEF FirSetup
<1>5. CASE PrepareLoop
  <2>1. /\ i_in' \in [Channels -> HeaderBlock]
        /\ in_body' \in [Channels -> Vector(BODY_BLOCK_SIZE)]
    BY <1>5, VectorTypes, SizeAssumption DEF PrepareLoop, HeaderBlock
  <2>2. /\ latest_in_block' \in HEADER_IN_BLOCK_MIN .. HEADER_IN_BLOCK_MAX
        /\ latest_in_body_block' \in BODY_IN_BLOCK_MIN .. BODY_IN_BLOCK_MAX
        /\ samples_in_file' \in Nat
    BY <1>5, SizeAssumption
    DEF PrepareLoop, HEADER_IN_BLOCK_MIN, HEADER_IN_BLOCK_MAX,
        BODY_IN_BLOCK_MIN, BODY_IN_BLOCK_MAX
  <2>3. /\ out' \in [Channels -> [Outputs -> SUBSET Products]]
        /\ mac_buffer' \in [Channels -> SUBSET HeaderPairs]
        /\ body_mac_buffer' \in [Channels -> SUBSET BodyPairs]
    BY <1>5 DEF PrepareLoop, NoOutput
  <2>4. QED
    BY <1>5, <2>1, <2>2, <2>3 DEF PrepareLoop
<1>6. CASE ResetHeaderMac
  <2>1. /\ hm_latest' \in [Channels -> HeaderSlots]
        /\ \A c \in Channels : hm_latest'[c] \in HeaderInMin(c) .. HeaderInMax(c)
    BY <1>6, ResetLatestType DEF ResetHeaderMac
  <2>2. QED
    BY <1>6, <2>1 DEF ResetHeaderMac
<1>7. QED
  BY <1>1, <1>2, <1>3, <1>4, <1>5, <1>6, TypeControl
  DEF Setup, ControlStep

(* The samples, header blocks and body blocks of the loop.                 *)
LEMMA TypeSample ==
  ASSUME TypeOK, Sample
  PROVE  TypeOK'
<1> USE DEF TypeOK, Goto, swVars, firVars, memVars, hmVars, bmVars
<1>1. \A c \in Channels : <<c, sample_counter>> \in Element
  BY Elements
<1>2. i_in' \in [Channels -> HeaderBlock]
  BY <1>1 DEF Sample, HeaderBlock, Vector
<1>3. in_body' \in [Channels -> Vector(BODY_BLOCK_SIZE)]
  BY <1>1 DEF Sample, Vector
<1>4. fir_line' \in [Channels -> Vector(FIR_SIZE)]
  <2>1. ASSUME NEW c \in Channels, NEW i \in 0 .. FIR_SIZE - 1, i # 0
        PROVE  fir_line[c][i - 1] \in Element
    <3>1. i - 1 \in 0 .. FIR_SIZE - 1
      BY <2>1, SizeAssumption
    <3>2. fir_line[c] \in [0 .. FIR_SIZE - 1 -> Element]
      BY DEF Vector
    <3> HIDE DEF TypeOK
    <3>3. QED
      BY <3>1, <3>2
  <2>2. QED
    BY <1>1, <2>1 DEF Sample, Vector
<1>5. out' \in [Channels -> [Outputs -> SUBSET Products]]
  <2>1. ASSUME NEW c \in Channels, NEW i \in 0 .. FIR_SIZE - 1
        PROVE  Product(fir_coeff[c][i], fir_line'[c][i], <<"fir", 0>>)
                 \in Products
    <3>1. /\ fir_coeff[c] \in [0 .. FIR_SIZE - 1 -> Element]
          /\ fir_line'[c] \in [0 .. FIR_SIZE - 1 -> Element]
      BY <1>4 DEF Vector
    <3>2. fir_coeff[c][i] \in Element /\ fir_line'[c][i] \in Element
      BY <3>1
    <3>3. QED
      BY <3>2 DEF Product, Products
  <2> DEFINE Added(c) ==
               { Product(fir_coeff[c][i], fir_line'[c][i], <<"fir", 0>>) :
                   i \in { k \in 0 .. FIR_SIZE - 1 : fir_line'[c][k] # Zero } }
  <2>2. \A c \in Channels : Added(c) \in SUBSET Products
    BY <2>1
  <2>3. out' = [c \in Channels |->
                  [out[c] EXCEPT ![sample_counter] = @ \cup Added(c)]]
    BY DEF Sample
  <2> HIDE DEF Added
  <2>4. ASSUME NEW c \in Channels
        PROVE  [out[c] EXCEPT ![sample_counter] = @ \cup Added(c)]
                 \in [Outputs -> SUBSET Products]
    <3> DEFINE line == out[c]
               more == Added(c)
    <3>1. line \in [Outputs -> SUBSET Products] /\ more \in SUBSET Products
      BY <2>2
    <3> HIDE DEF line, more, TypeOK
    <3>2. [line EXCEPT ![sample_counter] = line[sample_counter] \cup more]
            \in [Outputs -> SUBSET Products]
      <4>1. CASE sample_counter \in Outputs
        BY <3>1, <4>1
      <4>2. CASE sample_counter \notin Outputs
        BY <3>1, <4>2
      <4>3. QED
        BY <4>1, <4>2
    <3>3. QED
      BY <3>2 DEF line, more
  <2>5. QED
    BY <2>3, <2>4
<1>6. pc' \in Pcs /\ header_fill' \in Nat /\ body_fill' \in Nat
  BY DEF Sample, Pcs
<1>7. QED
  BY <1>2, <1>3, <1>4, <1>5, <1>6 DEF Sample

(* A slot of the program's ring, and the same slot of the right channel.   *)
LEMMA ProgramSlots ==
  /\ \A b \in HEADER_IN_BLOCK_MIN .. HEADER_IN_BLOCK_MAX :
       b \in HeaderSlots /\ HEADER_BLOCK_NUM + b \in HeaderSlots
  /\ \A b \in BODY_IN_BLOCK_MIN .. BODY_IN_BLOCK_MAX :
       b \in BodySlots /\ BODY_BLOCK_NUM + b \in BodySlots
BY SizeAssumption
DEF HEADER_IN_BLOCK_MIN, HEADER_IN_BLOCK_MAX, BODY_IN_BLOCK_MIN,
    BODY_IN_BLOCK_MAX, HeaderSlots, BodySlots

(* The program's ring pointers stay in their rings.                        *)
LEMMA ProgramRings ==
  /\ \A b \in HEADER_IN_BLOCK_MIN .. HEADER_IN_BLOCK_MAX :
       RingNext(b, HEADER_IN_BLOCK_MIN, HEADER_IN_BLOCK_MAX)
         \in HEADER_IN_BLOCK_MIN .. HEADER_IN_BLOCK_MAX
  /\ \A b \in BODY_IN_BLOCK_MIN .. BODY_IN_BLOCK_MAX :
       RingNext(b, BODY_IN_BLOCK_MIN, BODY_IN_BLOCK_MAX)
         \in BODY_IN_BLOCK_MIN .. BODY_IN_BLOCK_MAX
BY SizeAssumption
DEF HEADER_IN_BLOCK_MIN, HEADER_IN_BLOCK_MAX, BODY_IN_BLOCK_MIN,
    BODY_IN_BLOCK_MAX, RingNext

(* So do the MACs' ring pointers, each in the ring of its channel.         *)
LEMMA MacRings ==
  ASSUME NEW c \in Channels
  PROVE  /\ \A b \in HeaderInMin(c) .. HeaderInMax(c) :
              /\ RingNext(b, HeaderInMin(c), HeaderInMax(c))
                   \in HeaderInMin(c) .. HeaderInMax(c)
              /\ RingNext(b, HeaderInMin(c), HeaderInMax(c)) \in HeaderSlots
         /\ \A b \in BodyInMin(c) .. BodyInMax(c) :
              /\ RingNext(b, BodyInMin(c), BodyInMax(c))
                   \in BodyInMin(c) .. BodyInMax(c)
              /\ RingNext(b, BodyInMin(c), BodyInMax(c)) \in BodySlots
<1>1. CASE c = 1
  BY <1>1, RingLayout, SizeAssumption DEF RingNext, HeaderSlots, BodySlots
<1>2. CASE c = 2
  BY <1>2, RingLayout, SizeAssumption DEF RingNext, HeaderSlots, BodySlots
<1>3. QED
  BY <1>1, <1>2 DEF Channels

LEMMA TypeHeader ==
  ASSUME TypeOK, HeaderFft \/ HeaderStart \/ HeaderRead \/ HeaderAdd
  PROVE  TypeOK'
<1> USE DEF TypeOK, Goto, swVars, firVars, memVars, hmVars, bmVars
<1>1. CASE HeaderFft
  <2>1. sram' \in [HeaderSlots -> HeaderBlock]
    BY <1>1, ProgramSlots DEF HeaderFft, SramWrite, Channels
  <2>2. pc' \in Pcs /\ side' \in Channels
    BY <1>1 DEF HeaderFft, Pcs, Channels
  <2>3. QED
    BY <1>1, <2>1, <2>2 DEF HeaderFft
<1>2. CASE HeaderStart
  <2>1. /\ hm_latest' \in [Channels -> HeaderSlots]
        /\ \A c \in Channels : hm_latest'[c] \in HeaderInMin(c) .. HeaderInMax(c)
    <3>1. CASE hm_state = "IDLE"
      <4>1. hm_latest' = [hm_latest EXCEPT ![hm_channel] =
              RingNext(hm_latest[hm_channel], HeaderInMin(hm_channel),
                       HeaderInMax(hm_channel))]
        BY <1>2, <3>1 DEF HeaderStart
      <4>2. QED
        BY <3>1, <4>1, MacRings
    <3>2. CASE hm_state # "IDLE"
      BY <1>2, <3>2 DEF HeaderStart
    <3>3. QED
      BY <3>1, <3>2
  <2>2. pc' \in Pcs /\ hm_state' \in {"IDLE", "RESET", "RUN"}
    BY <1>2 DEF HeaderStart, Pcs
  <2>3. QED
    BY <1>2, <2>1, <2>2 DEF HeaderStart
<1>3. CASE HeaderRead
  <2>1. mac_buffer' \in [Channels -> SUBSET HeaderPairs]
    BY <1>3 DEF HeaderRead
  <2>2. pc' \in Pcs /\ side' \in Channels
    BY <1>3 DEF HeaderRead, Pcs, Channels
  <2>3. QED
    BY <1>3, <2>1, <2>2 DEF HeaderRead
<1>4. CASE HeaderAdd
  <2> DEFINE first == HEADER_BLOCK_SIZE_ZE + i_h * HEADER_BLOCK_SIZE
             last == HEADER_BLOCK_SIZE_ZE + (i_h + 2) * HEADER_BLOCK_SIZE - 1
             Terms(c, t) == IF t \in first .. last
                            THEN Ifft(mac_buffer[c], t - first,
                                      HEADER_BLOCK_SIZE, <<"header", i_h>>)
                            ELSE {}
  <2>1. first \in Int
    BY SizeAssumption DEF HEADER_BLOCK_SIZE_ZE
  <2>2. ASSUME NEW c \in Channels, NEW t \in Outputs
        PROVE  Terms(c, t) \in SUBSET Products
    <3>1. t - first \in Int
      BY <2>1 DEF Outputs
    <3>2. mac_buffer[c] \in SUBSET [in : Vector(HEADER_BLOCK_SIZE),
                                    ir : Vector(HEADER_BLOCK_SIZE)]
      BY DEF HeaderPairs, HeaderBlock
    <3>3. <<"header", i_h>> \in {"fir", "header", "body"} \X Nat
      OBVIOUS
    <3>4. HEADER_BLOCK_SIZE \in Nat
      BY SizeAssumption
    <3> HIDE DEF first
    <3>5. Ifft(mac_buffer[c], t - first, HEADER_BLOCK_SIZE, <<"header", i_h>>)
            \in SUBSET Products
      BY <3>1, <3>2, <3>3, <3>4, IfftType
    <3>6. QED
      BY <3>5
  <2>3. out' = [c \in Channels |-> [t \in Outputs |-> out[c][t] \cup Terms(c, t)]]
    BY <1>4 DEF HeaderAdd
  <2> HIDE DEF Terms
  <2>4. out' \in [Channels -> [Outputs -> SUBSET Products]]
    BY <2>2, <2>3
  <2>5. pc' \in Pcs /\ pio_h' \in {0, 1} /\ i_h' \in Nat
    BY <1>4 DEF HeaderAdd, Pcs
  <2>6. latest_in_block' \in HEADER_IN_BLOCK_MIN .. HEADER_IN_BLOCK_MAX
    BY <1>4, ProgramRings DEF HeaderAdd
  <2>7. QED
    BY <1>4, <2>4, <2>5, <2>6 DEF HeaderAdd
<1>5. QED
  BY <1>1, <1>2, <1>3, <1>4

LEMMA TypeBody ==
  ASSUME TypeOK, BodyFft \/ BodyRead \/ BodyAdd
  PROVE  TypeOK'
<1> USE DEF TypeOK, Goto, swVars, firVars, memVars, hmVars, bmVars
<1>1. CASE BodyFft
  <2>1. PICK left \in BodyStore(in_body[1]), right \in BodyStore(in_body[2]) :
          sdram' = [sdram EXCEPT ![latest_in_body_block] = left,
                                 ![BODY_BLOCK_NUM + latest_in_body_block] = right]
    BY <1>1 DEF BodyFft
  <2>2. left \in BodyBlock /\ right \in BodyBlock
    BY VectorTypes DEF Channels, BodyBlock
  <2>3. sdram' \in [BodySlots -> BodyBlock]
    BY <2>1, <2>2, ProgramSlots
  <2>4. pc' \in Pcs /\ side' \in Channels /\ body_runs' \in 0 .. 2
        /\ body_fill' \in Nat
    BY <1>1 DEF BodyFft, Pcs, Channels
  <2>5. QED
    BY <1>1, <2>3, <2>4 DEF BodyFft
<1>2. CASE BodyRead
  <2>1. body_mac_buffer' \in [Channels -> SUBSET BodyPairs]
    BY <1>2 DEF BodyRead
  <2>2. pc' \in Pcs /\ side' \in Channels
    BY <1>2 DEF BodyRead, Pcs, Channels
  <2>3. QED
    BY <1>2, <2>1, <2>2 DEF BodyRead
<1>3. CASE BodyAdd
  <2> DEFINE first == BODY_BLOCK_SIZE_ZE + i_h_body * BODY_BLOCK_SIZE
             last == HEADER_BLOCK_SIZE_ZE
                       + (i_h_body + 2) * HEADER_BLOCK_SIZE - 1
             Terms(c, t) == IF t \in first .. last
                            THEN Ifft(body_mac_buffer[c], t - first,
                                      BODY_BLOCK_SIZE, <<"body", i_h_body>>)
                            ELSE {}
  <2>1. first \in Int
    BY SizeAssumption DEF BODY_BLOCK_SIZE_ZE
  <2>2. ASSUME NEW c \in Channels, NEW t \in Outputs
        PROVE  Terms(c, t) \in SUBSET Products
    <3>1. t - first \in Int
      BY <2>1 DEF Outputs
    <3>2. body_mac_buffer[c] \in SUBSET [in : Vector(BODY_BLOCK_SIZE),
                                         ir : Vector(BODY_BLOCK_SIZE)]
      BY DEF BodyPairs, BodyBlock
    <3>3. <<"body", i_h_body>> \in {"fir", "header", "body"} \X Nat
      OBVIOUS
    <3>4. BODY_BLOCK_SIZE \in Nat
      BY SizeAssumption
    <3> HIDE DEF first
    <3>5. Ifft(body_mac_buffer[c], t - first, BODY_BLOCK_SIZE,
               <<"body", i_h_body>>) \in SUBSET Products
      BY <3>1, <3>2, <3>3, <3>4, IfftType
    <3>6. QED
      BY <3>5
  <2>3. out' = [c \in Channels |-> [t \in Outputs |-> out[c][t] \cup Terms(c, t)]]
    BY <1>3 DEF BodyAdd
  <2> HIDE DEF Terms
  <2>4. out' \in [Channels -> [Outputs -> SUBSET Products]]
    BY <2>2, <2>3
  <2>5. pc' \in Pcs /\ i_h_body' \in Nat
    BY <1>3 DEF BodyAdd, Pcs
  <2>6. latest_in_body_block' \in BODY_IN_BLOCK_MIN .. BODY_IN_BLOCK_MAX
    BY <1>3, ProgramRings DEF BodyAdd
  <2>7. QED
    BY <1>3, <2>4, <2>5, <2>6 DEF BodyAdd
<1>4. QED
  BY <1>1, <1>2, <1>3

LEMMA TypeMacs ==
  ASSUME TypeOK, HmHandshake, HmRunDone \/ BmResetDone \/ BmRunDone
  PROVE  TypeOK'
<1> USE DEF TypeOK, swVars, firVars, memVars, hmVars, bmVars
<1>1. CASE HmRunDone
  <2>1. hm_channel \in Channels
    BY <1>1 DEF HmRunDone, HmHandshake
  <2> DEFINE c == hm_channel
  <2>2. /\ HeaderInMin(c) \in Nat /\ HeaderShift(c) \in Nat
        /\ HeaderInMax(c) = HeaderInMin(c) + HEADER_BLOCK_NUM - 1
        /\ HeaderInMin(c) + HEADER_BLOCK_NUM <= 4 * HEADER_BLOCK_NUM
        /\ HeaderShift(c) + HEADER_BLOCK_NUM <= 4 * HEADER_BLOCK_NUM
        /\ 4 * HEADER_BLOCK_NUM \in Nat /\ HEADER_BLOCK_NUM \in Nat
    BY <2>1, RingLayout, SizeAssumption DEF Channels
  <2>3. /\ hm_latest[c] \in HeaderInMin(c) .. HeaderInMin(c) + HEADER_BLOCK_NUM - 1
        /\ sram \in [0 .. 4 * HEADER_BLOCK_NUM - 1 -> HeaderBlock]
    BY <2>1, <2>2 DEF HeaderSlots
  <2> HIDE DEF TypeOK
  <2>4. MacPairs(sram, hm_latest[c], HeaderShift(c), HeaderInMin(c),
                 HEADER_BLOCK_NUM) \in SUBSET [in : HeaderBlock, ir : HeaderBlock]
    BY <2>2, <2>3, MacPairsType
  <2>5. hm_ram' \in SUBSET HeaderPairs
    BY <1>1, <2>4 DEF HmRunDone, HeaderPairs
  <2> USE DEF TypeOK
  <2>6. QED
    BY <1>1, <2>5 DEF HmRunDone
<1>2. CASE BmResetDone
  BY <1>2, ResetLatestType DEF BmResetDone
<1>3. CASE BmRunDone
  <2> DEFINE c == bm_channel
  <2>1. /\ BodyInMin(c) \in Nat /\ BodyShift(c) \in Nat
        /\ BodyInMax(c) = BodyInMin(c) + BODY_BLOCK_NUM - 1
        /\ BodyInMin(c) + BODY_BLOCK_NUM <= 4 * BODY_BLOCK_NUM
        /\ BodyShift(c) + BODY_BLOCK_NUM <= 4 * BODY_BLOCK_NUM
        /\ 4 * BODY_BLOCK_NUM \in Nat /\ BODY_BLOCK_NUM \in Nat
    BY RingLayout, SizeAssumption DEF Channels
  <2>2. /\ bm_latest' \in [Channels -> BodySlots]
        /\ \A d \in Channels : bm_latest'[d] \in BodyInMin(d) .. BodyInMax(d)
    BY <1>3, MacRings DEF BmRunDone
  <2>3. /\ bm_latest'[c] \in BodyInMin(c) .. BodyInMin(c) + BODY_BLOCK_NUM - 1
        /\ sdram \in [0 .. 4 * BODY_BLOCK_NUM - 1 -> Vector(BODY_BLOCK_SIZE)]
    BY <2>1, <2>2 DEF BodySlots, BodyBlock
  <2> DEFINE latest == bm_latest'[c]
  <2> HIDE DEF TypeOK, latest
  <2>4. MacPairs(sdram, latest, BodyShift(c), BodyInMin(c), BODY_BLOCK_NUM)
          \in SUBSET [in : Vector(BODY_BLOCK_SIZE), ir : Vector(BODY_BLOCK_SIZE)]
    BY <2>1, <2>3, MacPairsType DEF latest
  <2>5. acc' \in SUBSET BodyPairs
    BY <1>3, <2>4 DEF BmRunDone, BodyPairs, BodyBlock, latest, TypeOK
  <2> USE DEF TypeOK
  <2>6. QED
    BY <1>3, <2>2, <2>5 DEF BmRunDone
<1>4. QED
  BY <1>1, <1>2, <1>3

LEMMA TypeStep ==
  ASSUME TypeOK, HmHandshake, [Next]_vars
  PROVE  TypeOK'
<1>1. CASE Next
  BY <1>1, TypeControl, TypeSetup, TypeSample, TypeHeader, TypeBody, TypeMacs
  DEF Next, Loop, HeaderMac, BodyMac, ControlStep
<1>2. CASE UNCHANGED vars
  BY <1>2
  DEF vars, swVars, firVars, memVars, hmVars, bmVars, TypeOK
<1>3. QED
  BY <1>1, <1>2

-----------------------------------------------------------------------------
(* Handshakes *)

LEMMA HmHandshakeStep ==
  ASSUME TypeOK, HmHandshake, [Next]_vars
  PROVE  HmHandshake'
<1> USE DEF TypeOK, HmHandshake, Goto, swVars, firVars, memVars, hmVars, bmVars,
            Channels
<1>1. CASE SetupMemory
  BY <1>1 DEF SetupMemory
<1>2. CASE FftHSetup
  BY <1>2 DEF FftHSetup
<1>3. CASE PreProcessHeader
  BY <1>3 DEF PreProcessHeader
<1>4. CASE PreProcessBody
  BY <1>4 DEF PreProcessBody
<1>5. CASE FirSetup
  BY <1>5 DEF FirSetup
<1>6. CASE PrepareLoop
  BY <1>6 DEF PrepareLoop
<1>7. CASE ResetHeaderMac
  BY <1>7 DEF ResetHeaderMac
<1>8. CASE ResetBodyMac
  BY <1>8 DEF ResetBodyMac
<1>9. CASE WaitBodyReset
  BY <1>9 DEF WaitBodyReset
<1>10. CASE Sample
  BY <1>10 DEF Sample
<1>11. CASE HeaderFft
  BY <1>11 DEF HeaderFft
<1>12. CASE HeaderSetChannel
  BY <1>12 DEF HeaderSetChannel
<1>13. CASE HeaderStart
  BY <1>13 DEF HeaderStart
<1>14. CASE HeaderPoll
  BY <1>14 DEF HeaderPoll
<1>15. CASE HeaderRead
  BY <1>15 DEF HeaderRead
<1>16. CASE HeaderAdd
  BY <1>16 DEF HeaderAdd
<1>17. CASE BodyReturn
  BY <1>17 DEF BodyReturn
<1>18. CASE BodyFft
  BY <1>18 DEF BodyFft
<1>19. CASE ResetAcc
  BY <1>19 DEF ResetAcc
<1>20. CASE BodySetChannel
  BY <1>20 DEF BodySetChannel
<1>21. CASE WaitBodyChannel
  BY <1>21 DEF WaitBodyChannel
<1>22. CASE BodyStart
  BY <1>22 DEF BodyStart
<1>23. CASE WaitBodyRun
  BY <1>23 DEF WaitBodyRun
<1>24. CASE BodyRead
  BY <1>24 DEF BodyRead
<1>25. CASE BodyAdd
  BY <1>25 DEF BodyAdd
<1>26. CASE NextSample
  BY <1>26 DEF NextSample
<1>27. CASE PressTest
  BY <1>27 DEF PressTest
<1>28. CASE MenuIdle
  BY <1>28 DEF MenuIdle, vars
<1>29. CASE HmResetDone
  BY <1>29 DEF HmResetDone
<1>30. CASE HmRunDone
  BY <1>30 DEF HmRunDone
<1>31. CASE BmResetDone
  BY <1>31 DEF BmResetDone
<1>32. CASE BmSetDone
  BY <1>32 DEF BmSetDone
<1>33. CASE BmRunDone
  BY <1>33 DEF BmRunDone
<1>34. CASE UNCHANGED vars
  BY <1>34 DEF vars
<1>35. QED
  BY <1>1, <1>2, <1>3, <1>4, <1>5, <1>6, <1>7, <1>8, <1>9, <1>10, <1>11,
     <1>12, <1>13, <1>14, <1>15, <1>16, <1>17, <1>18, <1>19, <1>20, <1>21,
     <1>22, <1>23, <1>24, <1>25, <1>26, <1>27, <1>28, <1>29, <1>30, <1>31,
     <1>32, <1>33, <1>34 DEF Next, Setup, Loop, HeaderMac, BodyMac

LEMMA BmHandshakeStep ==
  ASSUME TypeOK, BmHandshake, [Next]_vars
  PROVE  BmHandshake'
<1> USE DEF TypeOK, BmHandshake, Goto, swVars, firVars, memVars, hmVars, bmVars,
            Channels, BmWrite
<1>1. CASE SetupMemory
  BY <1>1 DEF SetupMemory
<1>2. CASE FftHSetup
  BY <1>2 DEF FftHSetup
<1>3. CASE PreProcessHeader
  BY <1>3 DEF PreProcessHeader
<1>4. CASE PreProcessBody
  BY <1>4 DEF PreProcessBody
<1>5. CASE FirSetup
  BY <1>5 DEF FirSetup
<1>6. CASE PrepareLoop
  BY <1>6 DEF PrepareLoop
<1>7. CASE ResetHeaderMac
  BY <1>7 DEF ResetHeaderMac
<1>8. CASE ResetBodyMac
  BY <1>8 DEF ResetBodyMac
<1>9. CASE WaitBodyReset
  BY <1>9 DEF WaitBodyReset
<1>10. CASE Sample
  BY <1>10 DEF Sample
<1>11. CASE HeaderFft
  BY <1>11 DEF HeaderFft
<1>12. CASE HeaderSetChannel
  BY <1>12 DEF HeaderSetChannel
<1>13. CASE HeaderStart
  BY <1>13 DEF HeaderStart
<1>14. CASE HeaderPoll
  BY <1>14 DEF HeaderPoll
<1>15. CASE HeaderRead
  BY <1>15 DEF HeaderRead
<1>16. CASE HeaderAdd
  BY <1>16 DEF HeaderAdd
<1>17. CASE BodyReturn
  BY <1>17 DEF BodyReturn
<1>18. CASE BodyFft
  BY <1>18 DEF BodyFft
<1>19. CASE ResetAcc
  BY <1>19 DEF ResetAcc
<1>20. CASE BodySetChannel
  BY <1>20 DEF BodySetChannel
<1>21. CASE WaitBodyChannel
  BY <1>21 DEF WaitBodyChannel
<1>22. CASE BodyStart
  BY <1>22 DEF BodyStart
<1>23. CASE WaitBodyRun
  BY <1>23 DEF WaitBodyRun
<1>24. CASE BodyRead
  BY <1>24 DEF BodyRead
<1>25. CASE BodyAdd
  BY <1>25 DEF BodyAdd
<1>26. CASE NextSample
  BY <1>26 DEF NextSample
<1>27. CASE PressTest
  BY <1>27 DEF PressTest
<1>28. CASE MenuIdle
  BY <1>28 DEF MenuIdle, vars
<1>29. CASE HmResetDone
  BY <1>29 DEF HmResetDone
<1>30. CASE HmRunDone
  BY <1>30 DEF HmRunDone
<1>31. CASE BmResetDone
  BY <1>31 DEF BmResetDone
<1>32. CASE BmSetDone
  BY <1>32 DEF BmSetDone
<1>33. CASE BmRunDone
  BY <1>33 DEF BmRunDone
<1>34. CASE UNCHANGED vars
  BY <1>34 DEF vars
<1>35. QED
  BY <1>1, <1>2, <1>3, <1>4, <1>5, <1>6, <1>7, <1>8, <1>9, <1>10, <1>11,
     <1>12, <1>13, <1>14, <1>15, <1>16, <1>17, <1>18, <1>19, <1>20, <1>21,
     <1>22, <1>23, <1>24, <1>25, <1>26, <1>27, <1>28, <1>29, <1>30, <1>31,
     <1>32, <1>33, <1>34 DEF Next, Setup, Loop, HeaderMac, BodyMac

LEMMA FreshRingsStep ==
  ASSUME TypeOK, FreshRings, [Next]_vars
  PROVE  FreshRings'
<1> USE DEF TypeOK, FreshRings, Goto, swVars, firVars, memVars, hmVars, bmVars
<1>1. CASE SetupMemory
  BY <1>1 DEF SetupMemory
<1>2. CASE FftHSetup
  BY <1>2 DEF FftHSetup
<1>3. CASE PreProcessHeader
  BY <1>3 DEF PreProcessHeader
<1>4. CASE PreProcessBody
  BY <1>4 DEF PreProcessBody
<1>5. CASE FirSetup
  BY <1>5 DEF FirSetup
<1>6. CASE PrepareLoop
  BY <1>6 DEF PrepareLoop
<1>7. CASE ResetHeaderMac
  BY <1>7 DEF ResetHeaderMac
<1>8. CASE ResetBodyMac
  BY <1>8 DEF ResetBodyMac
<1>9. CASE WaitBodyReset
  BY <1>9 DEF WaitBodyReset
<1>10. CASE Sample
  BY <1>10 DEF Sample
<1>11. CASE HeaderFft
  BY <1>11 DEF HeaderFft
<1>12. CASE HeaderSetChannel
  BY <1>12 DEF HeaderSetChannel
<1>13. CASE HeaderStart
  BY <1>13 DEF HeaderStart
<1>14. CASE HeaderPoll
  BY <1>14 DEF HeaderPoll
<1>15. CASE HeaderRead
  BY <1>15 DEF HeaderRead
<1>16. CASE HeaderAdd
  BY <1>16 DEF HeaderAdd
<1>17. CASE BodyReturn
  BY <1>17 DEF BodyReturn
<1>18. CASE BodyFft
  BY <1>18 DEF BodyFft
<1>19. CASE ResetAcc
  BY <1>19 DEF ResetAcc
<1>20. CASE BodySetChannel
  BY <1>20 DEF BodySetChannel
<1>21. CASE WaitBodyChannel
  BY <1>21 DEF WaitBodyChannel
<1>22. CASE BodyStart
  BY <1>22 DEF BodyStart
<1>23. CASE WaitBodyRun
  BY <1>23 DEF WaitBodyRun
<1>24. CASE BodyRead
  BY <1>24 DEF BodyRead
<1>25. CASE BodyAdd
  BY <1>25 DEF BodyAdd
<1>26. CASE NextSample
  BY <1>26 DEF NextSample
<1>27. CASE PressTest
  BY <1>27 DEF PressTest
<1>28. CASE MenuIdle
  BY <1>28 DEF MenuIdle, vars
<1>29. CASE HmResetDone
  BY <1>29 DEF HmResetDone
<1>30. CASE HmRunDone
  BY <1>30 DEF HmRunDone
<1>31. CASE BmResetDone
  BY <1>31 DEF BmResetDone
<1>32. CASE BmSetDone
  BY <1>32 DEF BmSetDone
<1>33. CASE BmRunDone
  BY <1>33 DEF BmRunDone
<1>34. CASE UNCHANGED vars
  BY <1>34 DEF vars
<1>35. QED
  BY <1>1, <1>2, <1>3, <1>4, <1>5, <1>6, <1>7, <1>8, <1>9, <1>10, <1>11,
     <1>12, <1>13, <1>14, <1>15, <1>16, <1>17, <1>18, <1>19, <1>20, <1>21,
     <1>22, <1>23, <1>24, <1>25, <1>26, <1>27, <1>28, <1>29, <1>30, <1>31,
     <1>32, <1>33, <1>34 DEF Next, Setup, Loop, HeaderMac, BodyMac

-----------------------------------------------------------------------------
(* Ring pointers *)

(* Stepping on from the block before b leads to b, and the other way       *)
(* round, in the program's ring and in the channel's part of the memory.   *)
LEMMA HeaderRingSteps ==
  ASSUME NEW c \in Channels,
         NEW b \in HEADER_IN_BLOCK_MIN .. HEADER_IN_BLOCK_MAX
  PROVE  /\ RingNext(HeaderShift(c)
                       + RingPrev(b, HEADER_IN_BLOCK_MIN, HEADER_IN_BLOCK_MAX),
                     HeaderInMin(c), HeaderInMax(c)) = HeaderShift(c) + b
         /\ RingPrev(RingNext(b, HEADER_IN_BLOCK_MIN, HEADER_IN_BLOCK_MAX),
                     HEADER_IN_BLOCK_MIN, HEADER_IN_BLOCK_MAX) = b
<1>1. CASE c = 1
  BY <1>1, RingLayout, SizeAssumption
  DEF RingNext, RingPrev, HEADER_IN_BLOCK_MIN, HEADER_IN_BLOCK_MAX
<1>2. CASE c = 2
  BY <1>2, RingLayout, SizeAssumption
  DEF RingNext, RingPrev, HEADER_IN_BLOCK_MIN, HEADER_IN_BLOCK_MAX
<1>3. QED
  BY <1>1, <1>2 DEF Channels

LEMMA BodyRingSteps ==
  ASSUME NEW c \in Channels,
         NEW b \in BODY_IN_BLOCK_MIN .. BODY_IN_BLOCK_MAX
  PROVE  /\ RingNext(BodyShift(c)
                       + RingPrev(b, BODY_IN_BLOCK_MIN, BODY_IN_BLOCK_MAX),
                     BodyInMin(c), BodyInMax(c)) = BodyShift(c) + b
         /\ RingPrev(RingNext(b, BODY_IN_BLOCK_MIN, BODY_IN_BLOCK_MAX),
                     BODY_IN_BLOCK_MIN, BODY_IN_BLOCK_MAX) = b
<1>1. CASE c = 1
  BY <1>1, RingLayout, SizeAssumption
  DEF RingNext, RingPrev, BODY_IN_BLOCK_MIN, BODY_IN_BLOCK_MAX
<1>2. CASE c = 2
  BY <1>2, RingLayout, SizeAssumption
  DEF RingNext, RingPrev, BODY_IN_BLOCK_MIN, BODY_IN_BLOCK_MAX
<1>3. QED
  BY <1>1, <1>2 DEF Channels

(* A reset MAC is one block behind a program that starts with the last     *)
(* block of its ring.                                                      *)
LEMMA ResetSync ==
  /\ \A c \in Channels :
       HmResetLatest[c] = HeaderShift(c)
         + RingPrev(HEADER_IN_BLOCK_MAX, HEADER_IN_BLOCK_MIN,
                    HEADER_IN_BLOCK_MAX)
  /\ \A c \in Channels :
       BmResetLatest[c] = BodyShift(c)
         + RingPrev(BODY_IN_BLOCK_MAX, BODY_IN_BLOCK_MIN, BODY_IN_BLOCK_MAX)
<1>1. ASSUME NEW c \in Channels
      PROVE  /\ HeaderInMax(c) - 1 = HeaderShift(c)
                  + RingPrev(HEADER_IN_BLOCK_MAX, HEADER_IN_BLOCK_MIN,
                             HEADER_IN_BLOCK_MAX)
             /\ BodyInMax(c) - 1 = BodyShift(c)
                  + RingPrev(BODY_IN_BLOCK_MAX, BODY_IN_BLOCK_MIN,
                             BODY_IN_BLOCK_MAX)
  <2>1. CASE c = 1
    BY <2>1, RingLayout, SizeAssumption
    DEF RingPrev, HEADER_IN_BLOCK_MIN, HEADER_IN_BLOCK_MAX, BODY_IN_BLOCK_MIN,
        BODY_IN_BLOCK_MAX
  <2>2. CASE c = 2
    BY <2>2, RingLayout, SizeAssumption
    DEF RingPrev, HEADER_IN_BLOCK_MIN, HEADER_IN_BLOCK_MAX, BODY_IN_BLOCK_MIN,
        BODY_IN_BLOCK_MAX
  <2>3. QED
    BY <2>1, <2>2 DEF Channels
<1>2. QED
  BY <1>1 DEF HmResetLatest, BmResetLatest

LEMMA HeaderSyncStep ==
  ASSUME TypeOK, HmHandshake, FreshRings, HeaderSync, [Next]_vars
  PROVE  HeaderSync'
<1> USE DEF TypeOK, HeaderSync, HeaderStarted, SetupPcs, Goto, swVars, firVars,
            memVars, hmVars, bmVars, Channels
<1>1. CASE SetupMemory
  BY <1>1 DEF SetupMemory
<1>2. CASE FftHSetup
  BY <1>2 DEF FftHSetup
<1>3. CASE PreProcessHeader
  BY <1>3 DEF PreProcessHeader
<1>4. CASE PreProcessBody
  BY <1>4 DEF PreProcessBody
<1>5. CASE FirSetup
  BY <1>5 DEF FirSetup
<1>6. CASE PrepareLoop
  BY <1>6 DEF PrepareLoop
<1>7. CASE ResetHeaderMac
  <2>1. hm_latest' = HmResetLatest
    BY <1>7 DEF ResetHeaderMac, HmHandshake
  <2>2. latest_in_block' = HEADER_IN_BLOCK_MAX /\ pc' = "reset_bm"
    BY <1>7 DEF ResetHeaderMac, FreshRings
  <2>3. QED
    BY <2>1, <2>2, ResetSync
<1>8. CASE ResetBodyMac
  BY <1>8 DEF ResetBodyMac
<1>9. CASE WaitBodyReset
  BY <1>9 DEF WaitBodyReset
<1>10. CASE Sample
  BY <1>10 DEF Sample
<1>11. CASE HeaderFft
  BY <1>11 DEF HeaderFft
<1>12. CASE HeaderSetChannel
  BY <1>12 DEF HeaderSetChannel
<1>13. CASE HeaderStart
  <2>1. /\ pc = "hstart" /\ pc' = "hpoll" /\ hm_channel = side
        /\ hm_state = "IDLE"
    BY <1>13 DEF HeaderStart, HmHandshake
  <2>2. /\ hm_latest' = [hm_latest EXCEPT ![side] = RingNext(hm_latest[side],
                           HeaderInMin(side), HeaderInMax(side))]
        /\ UNCHANGED <<side, latest_in_block>>
    BY <1>13, <2>1 DEF HeaderStart
  <2>3. hm_latest'[side] = HeaderShift(side) + latest_in_block
    BY <2>1, <2>2, HeaderRingSteps
  <2>4. \A c \in Channels \ {side} : hm_latest'[c] = hm_latest[c]
    BY <2>2
  <2>5. QED
    BY <2>1, <2>2, <2>3, <2>4
<1>14. CASE HeaderPoll
  BY <1>14 DEF HeaderPoll
<1>15. CASE HeaderRead
  BY <1>15 DEF HeaderRead
<1>16. CASE HeaderAdd
  <2>1. \A c \in Channels : hm_latest[c] = HeaderShift(c) + latest_in_block
    BY <1>16 DEF HeaderAdd
  <2>2. /\ latest_in_block = RingPrev(latest_in_block', HEADER_IN_BLOCK_MIN,
                                      HEADER_IN_BLOCK_MAX)
        /\ pc' \in {"bfft", "next"} /\ hm_latest' = hm_latest
    BY <1>16, HeaderRingSteps DEF HeaderAdd
  <2>3. QED
    BY <2>1, <2>2
<1>17. CASE BodyReturn
  BY <1>17 DEF BodyReturn
<1>18. CASE BodyFft
  BY <1>18 DEF BodyFft
<1>19. CASE ResetAcc
  BY <1>19 DEF ResetAcc
<1>20. CASE BodySetChannel
  BY <1>20 DEF BodySetChannel
<1>21. CASE WaitBodyChannel
  BY <1>21 DEF WaitBodyChannel
<1>22. CASE BodyStart
  BY <1>22 DEF BodyStart
<1>23. CASE WaitBodyRun
  BY <1>23 DEF WaitBodyRun
<1>24. CASE BodyRead
  BY <1>24 DEF BodyRead
<1>25. CASE BodyAdd
  BY <1>25 DEF BodyAdd
<1>26. CASE NextSample
  BY <1>26 DEF NextSample
<1>27. CASE PressTest
  BY <1>27 DEF PressTest
<1>28. CASE MenuIdle
  BY <1>28 DEF MenuIdle, vars
<1>29. CASE HmResetDone
  BY <1>29 DEF HmResetDone
<1>30. CASE HmRunDone
  BY <1>30 DEF HmRunDone
<1>31. CASE BmResetDone
  BY <1>31 DEF BmResetDone
<1>32. CASE BmSetDone
  BY <1>32 DEF BmSetDone
<1>33. CASE BmRunDone
  BY <1>33 DEF BmRunDone
<1>34. CASE UNCHANGED vars
  BY <1>34 DEF vars
<1>35. QED
  BY <1>1, <1>2, <1>3, <1>4, <1>5, <1>6, <1>7, <1>8, <1>9, <1>10, <1>11,
     <1>12, <1>13, <1>14, <1>15, <1>16, <1>17, <1>18, <1>19, <1>20, <1>21,
     <1>22, <1>23, <1>24, <1>25, <1>26, <1>27, <1>28, <1>29, <1>30, <1>31,
     <1>32, <1>33, <1>34 DEF Next, Setup, Loop, HeaderMac, BodyMac

LEMMA BodySyncStep ==
  ASSUME TypeOK, BmHandshake, FreshRings, BodySync, [Next]_vars
  PROVE  BodySync'
<1> USE DEF TypeOK, BodySync, BodyStarted, SetupPcs, Goto, swVars, firVars,
            memVars, hmVars, bmVars, Channels
<1>1. CASE SetupMemory
  BY <1>1 DEF SetupMemory
<1>2. CASE FftHSetup
  BY <1>2 DEF FftHSetup
<1>3. CASE PreProcessHeader
  BY <1>3 DEF PreProcessHeader
<1>4. CASE PreProcessBody
  BY <1>4 DEF PreProcessBody
<1>5. CASE FirSetup
  BY <1>5 DEF FirSetup
<1>6. CASE PrepareLoop
  BY <1>6 DEF PrepareLoop
<1>7. CASE ResetHeaderMac
  BY <1>7 DEF ResetHeaderMac
<1>8. CASE ResetBodyMac
  BY <1>8 DEF ResetBodyMac, BmWrite, BmHandshake
<1>9. CASE WaitBodyReset
  BY <1>9 DEF WaitBodyReset
<1>10. CASE Sample
  BY <1>10 DEF Sample
<1>11. CASE HeaderFft
  BY <1>11 DEF HeaderFft
<1>12. CASE HeaderSetChannel
  BY <1>12 DEF HeaderSetChannel
<1>13. CASE HeaderStart
  BY <1>13 DEF HeaderStart
<1>14. CASE HeaderPoll
  BY <1>14 DEF HeaderPoll
<1>15. CASE HeaderRead
  BY <1>15 DEF HeaderRead
<1>16. CASE HeaderAdd
  BY <1>16 DEF HeaderAdd
<1>17. CASE BodyReturn
  BY <1>17 DEF BodyReturn
<1>18. CASE BodyFft
  BY <1>18 DEF BodyFft
<1>19. CASE ResetAcc
  BY <1>19 DEF ResetAcc
<1>20. CASE BodySetChannel
  BY <1>20 DEF BodySetChannel, BmWrite, BmHandshake
<1>21. CASE WaitBodyChannel
  BY <1>21 DEF WaitBodyChannel
<1>22. CASE BodyStart
  BY <1>22 DEF BodyStart, BmWrite, BmHandshake
<1>23. CASE WaitBodyRun
  BY <1>23 DEF WaitBodyRun
<1>24. CASE BodyRead
  BY <1>24 DEF BodyRead
<1>25. CASE BodyAdd
  <2>1. \A c \in Channels : bm_latest[c] = BodyShift(c) + latest_in_body_block
    BY <1>25 DEF BodyAdd
  <2>2. /\ latest_in_body_block = RingPrev(latest_in_body_block',
                                           BODY_IN_BLOCK_MIN, BODY_IN_BLOCK_MAX)
        /\ pc' = "next" /\ bm_latest' = bm_latest
    BY <1>25, BodyRingSteps DEF BodyAdd
  <2>3. QED
    BY <2>1, <2>2
<1>26. CASE NextSample
  BY <1>26 DEF NextSample
<1>27. CASE PressTest
  BY <1>27 DEF PressTest
<1>28. CASE MenuIdle
  BY <1>28 DEF MenuIdle, vars
<1>29. CASE HmResetDone
  BY <1>29 DEF HmResetDone
<1>30. CASE HmRunDone
  BY <1>30 DEF HmRunDone
<1>31. CASE BmResetDone
  <2>1. /\ bm_latest' = BmResetLatest /\ pc' = "wait_reset"
        /\ latest_in_body_block' = BODY_IN_BLOCK_MAX
    BY <1>31 DEF BmResetDone, BmHandshake, FreshRings
  <2>2. QED
    BY <2>1, ResetSync
<1>32. CASE BmSetDone
  BY <1>32 DEF BmSetDone, BmHandshake
<1>33. CASE BmRunDone
  <2>1. /\ pc = "bpoll" /\ bm_channel = side /\ bm_state = "RUN"
        /\ bm_state' = "IDLE"
        /\ UNCHANGED <<pc, side, latest_in_body_block>>
        /\ bm_latest' = [bm_latest EXCEPT ![side] = RingNext(bm_latest[side],
                           BodyInMin(side), BodyInMax(side))]
    BY <1>33 DEF BmRunDone, BmHandshake
  <2>2. bm_latest'[side] = BodyShift(side) + latest_in_body_block
    BY <2>1, BodyRingSteps
  <2>3. \A c \in Channels \ {side} : bm_latest'[c] = bm_latest[c]
    BY <2>1
  <2>4. QED
    BY <2>1, <2>2, <2>3
<1>34. CASE UNCHANGED vars
  BY <1>34 DEF vars
<1>35. QED
  BY <1>1, <1>2, <1>3, <1>4, <1>5, <1>6, <1>7, <1>8, <1>9, <1>10, <1>11,
     <1>12, <1>13, <1>14, <1>15, <1>16, <1>17, <1>18, <1>19, <1>20, <1>21,
     <1>22, <1>23, <1>24, <1>25, <1>26, <1>27, <1>28, <1>29, <1>30, <1>31,
     <1>32, <1>33, <1>34 DEF Next, Setup, Loop, HeaderMac, BodyMac

-----------------------------------------------------------------------------
(* Theorems *)

LEMMA IInvInit == Init => IInv
BY TypeInit
DEF Init, IInv, HmHandshake, BmHandshake, FreshRings, HeaderSync, BodySync,
    SetupPcs

LEMMA IInvStep == IInv /\ [Next]_vars => IInv'
BY TypeStep, HmHandshakeStep, BmHandshakeStep, FreshRingsStep, HeaderSyncStep,
   BodySyncStep
DEF IInv

LEMMA IInvCorrect == Spec => []IInv
BY IInvInit, IInvStep, PTL DEF Spec

(* The ring pointers of the program and of both MACs never leave their     *)
(* rings, so no block outside a channel's part of a memory is used; every  *)
(* other variable keeps its type (test() in main.c, the MACs in VHDL).     *)
THEOREM TypeCorrect == Spec => []TypeOK
BY IInvCorrect, PTL DEF IInv

(* A MAC that works, works for the channel the program asked for and from  *)
(* the block the program stored last, however many blocks, and however     *)
(* often test() has been entered before (main.c:965-1013, 1191-1248).      *)
THEOREM NewestBlockCorrect == Spec => []NewestBlock
<1>1. IInv => NewestBlock
  <2> SUFFICES ASSUME IInv PROVE NewestBlock
    OBVIOUS
  <2> USE DEF IInv, TypeOK
  <2>1. side \in Channels
    OBVIOUS
  <2>2. ASSUME hm_state = "RUN"
        PROVE  /\ hm_channel = side
               /\ hm_latest[side] = latest_in_block + HeaderShift(side)
    <3>1. pc = "hpoll" /\ hm_channel = side
      BY <2>2 DEF HmHandshake
    <3>2. hm_latest[side] = HeaderShift(side) + latest_in_block
      BY <2>1, <3>1 DEF HeaderSync, HeaderStarted, SetupPcs, Channels
    <3>3. HeaderShift(side) \in Int /\ latest_in_block \in Int
      BY <2>1, RingLayout, SizeAssumption DEF Channels
    <3>4. QED
      BY <3>1, <3>2, <3>3
  <2>3. ASSUME bm_state = "RUN"
        PROVE  /\ bm_channel = side
               /\ RingNext(bm_latest[side], BodyInMin(side), BodyInMax(side))
                    = latest_in_body_block + BodyShift(side)
    <3>1. pc = "bpoll" /\ bm_channel = side
      BY <2>3 DEF BmHandshake
    <3>2. bm_latest[side] = BodyShift(side)
            + RingPrev(latest_in_body_block, BODY_IN_BLOCK_MIN,
                       BODY_IN_BLOCK_MAX)
      BY <2>1, <2>3, <3>1 DEF BodySync, BodyStarted, SetupPcs, Channels
    <3>3. RingNext(bm_latest[side], BodyInMin(side), BodyInMax(side))
            = BodyShift(side) + latest_in_body_block
      BY <2>1, <3>2, BodyRingSteps
    <3>4. BodyShift(side) \in Int /\ latest_in_body_block \in Int
      BY <2>1, RingLayout, SizeAssumption DEF Channels
    <3>5. QED
      BY <3>1, <3>3, <3>4
  <2>4. QED
    BY <2>2, <2>3 DEF NewestBlock
<1>2. QED
  BY <1>1, IInvCorrect, PTL

(* No command is written to a busy MAC and the SRAM is left alone while    *)
(* the header MAC owns it, although the program does not wait for the      *)
(* header MAC's reset (main.c:785-793).                                    *)
THEOREM CommandsAcceptedCorrect == Spec => []CommandsAccepted
<1>1. IInv => CommandsAccepted
  BY DEF IInv, TypeOK, HmHandshake, BmHandshake, CommandsAccepted
<1>2. QED
  BY <1>1, IInvCorrect, PTL
-----------------------------------------------------------------------------
(* The data in the memories                                                *)
(*                                                                         *)
(* BodyOperands is not inductive either: it holds because of what has been *)
(* in the buffers, in the rings and in the sums since test() was entered.  *)
(* MemoryInv says what that is, at every point of the loop.                *)

(* The samples of block n of channel c; there is silence before block 0.   *)
HeaderSamples(c, n) ==
  [j \in 0 .. HEADER_BLOCK_SIZE - 1 |->
     IF n < 0 THEN Zero ELSE <<c, n * HEADER_BLOCK_SIZE + j>>]

HeaderOperands(c, n) ==
  { [in |-> HeaderSamples(c, n - k), ir |-> HeaderTaps(c, k)] :
      k \in 0 .. HEADER_BLOCK_NUM - 1 }

InLoop ==
  pc \notin {"boot", "ffth_setup", "ir_header", "ir_body", "fir_setup", "prepare",
             "menu"}

(* A full block has been stored, its sums have not been added yet.         *)
HeaderStored == pc \in {"hset", "hstart", "hpoll", "hread", "hifft"}
BodyStored ==
  pc \in {"bclear", "bset", "bset_wait", "bstart", "bpoll", "bread", "bifft"}

HeaderBlocks == IF HeaderStored THEN i_h + 1 ELSE i_h
BodyBlocks == IF BodyStored THEN i_h_body + 1 ELSE i_h_body

(* Samples taken from the file.                                            *)
Taken ==
  IF pc \in {"reset_hm", "reset_bm", "wait_reset", "sample"}
  THEN sample_counter ELSE sample_counter + 1

(* Samples, blocks and what is in the buffers add up; a buffer is never    *)
(* full but on the way to its FFT.                                         *)
Counted ==
  InLoop =>
    /\ Taken = HeaderBlocks * HEADER_BLOCK_SIZE + header_fill
    /\ header_fill \in 0 .. HEADER_BLOCK_SIZE
    /\ header_fill = HEADER_BLOCK_SIZE <=> pc = "hfft"
    /\ Taken = BodyBlocks * BODY_BLOCK_SIZE + body_fill
    /\ body_fill \in 0 .. BODY_BLOCK_SIZE
    /\ body_fill = BODY_BLOCK_SIZE =>
         pc \in {"hfft", "hset", "hstart", "hpoll", "hread", "hifft", "bfft"}
    /\ pc = "bfft" => body_fill = BODY_BLOCK_SIZE
    /\ pc \in {"hfft", "hset", "hstart", "hpoll", "hread", "hifft"} => body_fill # 0
    /\ body_runs = BodyBlocks

Buffered ==
  InLoop =>
    \A c \in Channels :
      /\ \A j \in 0 .. header_fill - 1 :
           i_in[c][j] = <<c, HeaderBlocks * HEADER_BLOCK_SIZE + j>>
      /\ \A j \in 0 .. body_fill - 1 :
           in_body[c][j] = <<c, BodyBlocks * BODY_BLOCK_SIZE + j>>

(* The memories hold the impulse response, and as many of the newest       *)
(* blocks as the ring has room for.                                        *)
HeaderIr ==
  pc \notin {"boot", "ffth_setup", "ir_header"} =>
    \A c \in Channels : \A k \in 0 .. HEADER_BLOCK_NUM - 1 :
      sram[HeaderShift(c) + k] = HeaderTaps(c, k)

BodyIr ==
  pc \notin {"boot", "ffth_setup", "ir_header", "ir_body"} =>
    \A c \in Channels : \A k \in 0 .. BODY_BLOCK_NUM - 1 :
      sdram[BodyShift(c) + k] \in BodyStore(BodyTaps(c, k))

HeaderRing ==
  /\ pc \in {"ffth_setup", "ir_header", "ir_body", "fir_setup", "prepare"} =>
       \A b \in HEADER_IN_BLOCK_MIN .. 4 * HEADER_BLOCK_NUM - 1 :
         sram[b] = ZeroVector(HEADER_BLOCK_SIZE)
  /\ InLoop =>
       \A c \in Channels :
         \A k \in (IF HeaderStored THEN 0 ELSE 1) .. HEADER_BLOCK_NUM - 1 :
           sram[RingBack(latest_in_block + HeaderShift(c), k, HeaderInMin(c),
                         HEADER_BLOCK_NUM)] = HeaderSamples(c, i_h - k)

BodyRing ==
  /\ pc \in {"ffth_setup", "ir_header", "ir_body", "fir_setup", "prepare"} =>
       \A b \in BODY_IN_BLOCK_MIN .. 4 * BODY_BLOCK_NUM - 1 :
         sdram[b] = ZeroVector(BODY_BLOCK_SIZE)
  /\ InLoop =>
       \A c \in Channels :
         \A k \in (IF BodyStored THEN 0 ELSE 1) .. BODY_BLOCK_NUM - 1 :
           sdram[RingBack(latest_in_body_block + BodyShift(c), k, BodyInMin(c),
                          BODY_BLOCK_NUM)] \in BodyInput(c, i_h_body - k)

(* Sums that are finished, in the MAC or copied from it.                   *)
HeaderSums ==
  /\ pc = "hread" \/ (pc = "hpoll" /\ hm_state = "IDLE") =>
       hm_ram = HeaderOperands(side, i_h)
  /\ \A c \in Channels :
       (HeaderStored /\ c < side) \/ pc = "hifft" =>
         mac_buffer[c] = HeaderOperands(c, i_h)

BodySums ==
  /\ pc \in {"bset", "bset_wait", "bstart"} \/ (pc = "bpoll" /\ bm_state = "RUN") =>
       acc = {}
  /\ pc = "bread" \/ (pc = "bpoll" /\ bm_state = "IDLE") =>
       acc = StoredPairs(side, sdram, latest_in_body_block)
  /\ \A c \in Channels :
       (BodyStored /\ c < side) \/ pc = "bifft" =>
         body_mac_buffer[c] = StoredPairs(c, sdram, latest_in_body_block)

MemoryInv ==
  /\ Counted /\ Buffered
  /\ HeaderIr /\ BodyIr /\ HeaderRing /\ BodyRing
  /\ HeaderSums /\ BodySums

-----------------------------------------------------------------------------
(* Whole blocks *)

(* Products with the length of a block, as far as linear arithmetic does   *)
(* not reach.                                                              *)
LEMMA ProductOrder ==
  ASSUME NEW a \in Nat, NEW b \in Nat, NEW n \in Nat, a < b
  PROVE  a * n + n <= b * n
<1> DEFINE d == b - a - 1
<1>1. d \in Nat /\ b = a + 1 + d
  OBVIOUS
<1> HIDE DEF d
<1>2. d * n \in Nat
  BY <1>1
<1>3. b * n = a * n + n + d * n
  BY <1>1
<1> QED BY <1>2, <1>3

LEMMA BlockUnique ==
  ASSUME NEW n \in Nat \ {0}, NEW a \in Nat, NEW b \in Nat,
         NEW x \in 0 .. n - 1, NEW y \in 0 .. n - 1, a * n + x = b * n + y
  PROVE  a = b /\ x = y
<1>0. a * n \in Nat /\ b * n \in Nat
  OBVIOUS
<1>1. ~(a < b)
  BY ProductOrder, <1>0
<1>2. ~(b < a)
  BY ProductOrder, <1>0
<1> QED BY <1>1, <1>2

LEMMA BlockExists ==
  ASSUME NEW n \in Nat \ {0}, NEW t \in Nat
  PROVE  \E a \in Nat : \E x \in 0 .. n - 1 : t = a * n + x
<1>1. t \div n \in Nat /\ t % n \in 0 .. n - 1
  OBVIOUS
<1>2. t = (t \div n) * n + (t % n)
  OBVIOUS
<1> QED BY <1>1, <1>2

LEMMA BlockEnd ==
  ASSUME NEW n \in Nat \ {0}, NEW a \in Nat, NEW x \in 1 .. n
  PROVE  (a * n + x) % n = 0 <=> x = n
<1> DEFINE t == a * n + x
           q == t \div n
           r == t % n
<1>1. t \in Nat
  OBVIOUS
<1>2. q \in Nat /\ r \in 0 .. n - 1 /\ t = q * n + r
  BY <1>1
<1> HIDE DEF q, r
<1>3. CASE x = n
  <2>1. t = (a + 1) * n + 0
    BY <1>3
  <2>2. r = 0
    BY <1>2, <2>1, BlockUnique
  <2> QED BY <1>3, <2>2 DEF r
<1>4. CASE x # n
  <2>1. r = x
    BY <1>2, <1>4, BlockUnique
  <2> QED BY <1>4, <2>1 DEF r
<1> QED BY <1>3, <1>4

-----------------------------------------------------------------------------
(* Counting *)

LEMMA Sizes ==
  /\ HEADER_BLOCK_SIZE \in Nat /\ HEADER_BLOCK_SIZE > 1
  /\ BODY_BLOCK_SIZE \in Nat /\ BODY_BLOCK_SIZE > 1
  /\ HEADER_BLOCK_NUM \in Nat /\ HEADER_BLOCK_NUM > 1
  /\ BODY_BLOCK_NUM \in Nat /\ BODY_BLOCK_NUM > 1
  /\ FIR_SIZE \in Nat /\ FIR_SIZE > 0
BY SizeAssumption, PartitionAssumption

(* A block is due when its buffer is full.                                 *)
LEMMA DueWhenFull ==
  ASSUME NEW n \in Nat, NEW f \in Nat, sample_counter \in Nat
  PROVE  /\ /\ sample_counter + 1 = n * HEADER_BLOCK_SIZE + f
            /\ f \in 1 .. HEADER_BLOCK_SIZE
            => (HeaderDue <=> f = HEADER_BLOCK_SIZE)
         /\ /\ sample_counter + 1 = n * BODY_BLOCK_SIZE + f
            /\ f \in 1 .. BODY_BLOCK_SIZE
            => (BodyDue <=> f = BODY_BLOCK_SIZE)
<1>1. ASSUME NEW size \in Nat, size > 1, f \in 1 .. size,
             sample_counter + 1 = n * size + f
      PROVE  ((sample_counter + 1) % size = 0 /\ sample_counter > 0) <=> f = size
  <2>0. size \in Nat \ {0}
    BY <1>1
  <2>1. (n * size + f) % size = 0 <=> f = size
    BY <1>1, <2>0, BlockEnd, Zenon
  <2>2. (sample_counter + 1) % size = 0 <=> f = size
    BY <1>1, <2>1, Zenon
  <2>3. n * size \in Nat
    BY <1>1
  <2>4. f = size => sample_counter > 0
    BY <1>1, <2>3
  <2> QED BY <2>2, <2>4, Zenon
<1>2. ASSUME sample_counter + 1 = n * HEADER_BLOCK_SIZE + f, f \in 1 .. HEADER_BLOCK_SIZE
      PROVE  HeaderDue <=> f = HEADER_BLOCK_SIZE
  BY <1>1, <1>2, Sizes DEF HeaderDue
<1>3. ASSUME sample_counter + 1 = n * BODY_BLOCK_SIZE + f, f \in 1 .. BODY_BLOCK_SIZE
      PROVE  BodyDue <=> f = BODY_BLOCK_SIZE
  BY <1>1, <1>3, Sizes DEF BodyDue
<1> QED BY <1>2, <1>3

LEMMA CountedStep ==
  ASSUME TypeOK, Counted, [Next]_vars
  PROVE  Counted'
<1>a. /\ sample_counter \in Nat /\ i_h \in Nat /\ i_h_body \in Nat
      /\ header_fill \in Nat /\ body_fill \in Nat /\ pc \in Pcs
      /\ side \in Channels
  BY DEF TypeOK
<1> DEFINE H == HEADER_BLOCK_SIZE
           B == BODY_BLOCK_SIZE
<1>b. /\ H \in Nat /\ H > 1 /\ B \in Nat /\ B > 1
      /\ i_h * H \in Nat /\ i_h_body * B \in Nat
      /\ (i_h + 1) * H = i_h * H + H /\ (i_h_body + 1) * B = i_h_body * B + B
  BY <1>a, Sizes
<1> HIDE DEF H, B
<1> USE DEF Counted, InLoop, HeaderStored, BodyStored, HeaderBlocks, BodyBlocks,
            Taken, Goto, swVars
<1>1. CASE PrepareLoop
  <2>1. pc' = "reset_hm" /\ sample_counter' = 0 /\ header_fill' = 0 /\ body_fill' = 0
        /\ i_h' = 0 /\ i_h_body' = 0 /\ body_runs' = 0
    BY <1>1 DEF PrepareLoop
  <2> QED BY <2>1, <1>b DEF H, B
<1>2. CASE Sample
  <2>1. /\ pc = "sample"
        /\ pc' = (IF HeaderDue THEN "hfft" ELSE IF BodyDue THEN "bfft" ELSE "next")
        /\ header_fill' = header_fill + 1 /\ body_fill' = body_fill + 1
        /\ UNCHANGED <<sample_counter, i_h, i_h_body, body_runs>>
    BY <1>2 DEF Sample
  <2>2. /\ sample_counter + 1 = i_h * H + header_fill'
        /\ sample_counter + 1 = i_h_body * B + body_fill'
        /\ header_fill' \in 1 .. H /\ body_fill' \in 1 .. B
        /\ body_runs = i_h_body
    BY <1>a, <1>b, <2>1 DEF H, B
  <2>3. (HeaderDue <=> header_fill' = H) /\ (BodyDue <=> body_fill' = B)
    BY <1>a, <2>1, <2>2, DueWhenFull DEF H, B
  <2>4. /\ header_fill' = H <=> pc' = "hfft"
        /\ pc' \in {"hfft", "bfft", "next"}
        /\ body_fill' = B => pc' \in {"hfft", "bfft"}
        /\ pc' = "bfft" => body_fill' = B
    BY <2>1, <2>3
  <2> QED BY <2>1, <2>2, <2>4, <1>a DEF H, B
<1>3. CASE HeaderFft
  <2>1. /\ pc = "hfft" /\ pc' = "hset" /\ header_fill' = 0
        /\ UNCHANGED <<sample_counter, i_h, i_h_body, body_fill, body_runs>>
    BY <1>3 DEF HeaderFft
  <2>2. /\ sample_counter + 1 = i_h * H + H
        /\ sample_counter + 1 = i_h_body * B + body_fill
        /\ body_fill \in 1 .. B
        /\ body_runs = i_h_body
    BY <1>a, <1>b, <2>1 DEF H, B
  <2> QED BY <2>1, <2>2, <1>b DEF H, B
<1>4. CASE HeaderSetChannel \/ HeaderStart \/ HeaderPoll \/ HeaderRead
  BY <1>4, <1>a, <1>b DEF HeaderSetChannel, HeaderStart, HeaderPoll, HeaderRead, H, B
<1>5. CASE HeaderAdd
  <2>1. /\ pc = "hifft" /\ pc' = (IF BodyDue THEN "bfft" ELSE "next")
        /\ i_h' = i_h + 1
        /\ UNCHANGED <<sample_counter, i_h_body, body_fill, body_runs, header_fill>>
    BY <1>5 DEF HeaderAdd
  <2>2. /\ sample_counter + 1 = i_h' * H + header_fill
        /\ sample_counter + 1 = i_h_body * B + body_fill
        /\ body_fill \in 1 .. B /\ header_fill \in 0 .. H /\ header_fill # H
        /\ body_runs = i_h_body
    BY <1>a, <1>b, <2>1 DEF H, B
  <2>3. BodyDue <=> body_fill = B
    BY <1>a, <2>2, DueWhenFull DEF B
  <2> QED BY <2>1, <2>2, <2>3, <1>b DEF H, B
<1>6. CASE BodyFft
  <2>1. /\ pc = "bfft" /\ pc' = "bclear" /\ body_fill' = 0
        /\ body_runs' = body_runs + 1
        /\ UNCHANGED <<sample_counter, i_h, i_h_body, header_fill>>
    BY <1>6 DEF BodyFft
  <2> QED BY <2>1, <1>a, <1>b DEF H, B
<1>7. CASE ResetAcc \/ BodySetChannel \/ WaitBodyChannel \/ BodyStart
           \/ WaitBodyRun \/ BodyRead
  BY <1>7, <1>a, <1>b
  DEF ResetAcc, BodySetChannel, WaitBodyChannel, BodyStart, WaitBodyRun, BodyRead,
      H, B
<1>8. CASE BodyAdd
  <2>1. /\ pc = "bifft" /\ pc' = "next" /\ i_h_body' = i_h_body + 1
        /\ UNCHANGED <<sample_counter, i_h, header_fill, body_fill, body_runs>>
    BY <1>8 DEF BodyAdd
  <2> QED BY <2>1, <1>a, <1>b DEF H, B
<1>9. CASE NextSample
  <2>1. /\ pc = "next" /\ pc' = "sample" /\ sample_counter' = sample_counter + 1
        /\ UNCHANGED <<i_h, i_h_body, header_fill, body_fill, body_runs>>
    BY <1>9 DEF NextSample
  <2> QED BY <2>1, <1>a, <1>b DEF H, B
<1>10. CASE SetupMemory \/ FftHSetup \/ PreProcessHeader \/ PreProcessBody
            \/ FirSetup \/ PressTest \/ BodyReturn
  BY <1>10
  DEF SetupMemory, FftHSetup, PreProcessHeader, PreProcessBody, FirSetup, PressTest,
      BodyReturn
<1>11. CASE ResetHeaderMac \/ ResetBodyMac \/ WaitBodyReset
  BY <1>11, <1>a, <1>b DEF ResetHeaderMac, ResetBodyMac, WaitBodyReset, H, B
<1>12. CASE MenuIdle \/ HmResetDone \/ HmRunDone \/ BmResetDone \/ BmSetDone
            \/ BmRunDone \/ UNCHANGED vars
  BY <1>12
  DEF MenuIdle, HmResetDone, HmRunDone, BmResetDone, BmSetDone, BmRunDone, vars
<1> QED
  BY <1>1, <1>2, <1>3, <1>4, <1>5, <1>6, <1>7, <1>8, <1>9, <1>10, <1>11, <1>12
  DEF Next, Setup, Loop, HeaderMac, BodyMac

LEMMA BufferStored ==
  ASSUME NEW size \in Nat, NEW base \in Int, NEW f \in 0 .. size - 1, NEW tag,
         NEW buf, DOMAIN buf = 0 .. size - 1,
         \A j \in 0 .. f - 1 : buf[j] = <<tag, base + j>>,
         NEW counter, counter = base + f
  PROVE  \A j \in 0 .. f + 1 - 1 :
           [buf EXCEPT ![f] = <<tag, counter>>][j] = <<tag, base + j>>
OBVIOUS

(* The buffers hold the samples since the last full block.                 *)
LEMMA BufferedStep ==
  ASSUME TypeOK, Counted, Buffered, [Next]_vars
  PROVE  Buffered'
<1>a. /\ sample_counter \in Nat /\ i_h \in Nat /\ i_h_body \in Nat
      /\ header_fill \in Nat /\ body_fill \in Nat /\ pc \in Pcs
      /\ i_in \in [Channels -> HeaderBlock]
      /\ in_body \in [Channels -> Vector(BODY_BLOCK_SIZE)]
  BY DEF TypeOK
<1> USE DEF Buffered, InLoop, HeaderStored, BodyStored, HeaderBlocks, BodyBlocks,
            Goto, swVars
<1>1. CASE PrepareLoop
  <2>1. pc' = "reset_hm" /\ header_fill' = 0 /\ body_fill' = 0
    BY <1>1 DEF PrepareLoop
  <2> QED BY <2>1
<1>2. CASE Sample
  <2>1. /\ pc = "sample" /\ pc' \in {"hfft", "bfft", "next"}
        /\ header_fill' = header_fill + 1 /\ body_fill' = body_fill + 1
        /\ i_in' = [c \in Channels |->
                      [i_in[c] EXCEPT ![header_fill] = <<c, sample_counter>>]]
        /\ in_body' = [c \in Channels |->
                         [in_body[c] EXCEPT ![body_fill] = <<c, sample_counter>>]]
        /\ UNCHANGED <<i_h, i_h_body>>
    BY <1>2 DEF Sample
  <2>2. /\ sample_counter = i_h * HEADER_BLOCK_SIZE + header_fill
        /\ sample_counter = i_h_body * BODY_BLOCK_SIZE + body_fill
        /\ header_fill \in 0 .. HEADER_BLOCK_SIZE - 1
        /\ body_fill \in 0 .. BODY_BLOCK_SIZE - 1
    BY <1>a, <2>1, Sizes DEF Counted, Taken
  <2>3. \A c \in Channels :
          /\ \A j \in 0 .. header_fill - 1 :
               i_in[c][j] = <<c, i_h * HEADER_BLOCK_SIZE + j>>
          /\ \A j \in 0 .. body_fill - 1 :
               in_body[c][j] = <<c, i_h_body * BODY_BLOCK_SIZE + j>>
    BY <2>1
  <2>4. HeaderBlocks' = i_h /\ BodyBlocks' = i_h_body
    BY <2>1
  <2> HIDE DEF Buffered, InLoop, HeaderBlocks, BodyBlocks
  <2>5. ASSUME NEW c \in Channels
        PROVE  /\ \A j \in 0 .. header_fill' - 1 :
                    i_in'[c][j] = <<c, i_h * HEADER_BLOCK_SIZE + j>>
               /\ \A j \in 0 .. body_fill' - 1 :
                    in_body'[c][j] = <<c, i_h_body * BODY_BLOCK_SIZE + j>>
    <3>2. /\ DOMAIN i_in[c] = 0 .. HEADER_BLOCK_SIZE - 1
          /\ DOMAIN in_body[c] = 0 .. BODY_BLOCK_SIZE - 1
      BY <1>a DEF HeaderBlock, Vector
    <3>3. /\ i_in'[c] = [i_in[c] EXCEPT ![header_fill] = <<c, sample_counter>>]
          /\ in_body'[c] = [in_body[c] EXCEPT ![body_fill] = <<c, sample_counter>>]
      BY <2>1
    <3> DEFINE hb == i_h * HEADER_BLOCK_SIZE
               bb == i_h_body * BODY_BLOCK_SIZE
    <3>4. hb \in Int /\ bb \in Int
      BY <1>a, Sizes
    <3>5. sample_counter = hb + header_fill /\ sample_counter = bb + body_fill
      BY <2>2
    <3>6. \A j \in 0 .. header_fill - 1 : i_in[c][j] = <<c, hb + j>>
      BY <2>3
    <3>7. \A j \in 0 .. body_fill - 1 : in_body[c][j] = <<c, bb + j>>
      BY <2>3
    <3> HIDE DEF hb, bb
    <3>8. \A j \in 0 .. header_fill + 1 - 1 : i_in'[c][j] = <<c, hb + j>>
      BY <1>a, <2>2, <3>2, <3>3, <3>4, <3>5, <3>6, Sizes, BufferStored
    <3>9. \A j \in 0 .. body_fill + 1 - 1 : in_body'[c][j] = <<c, bb + j>>
      <4>1. \A j \in 0 .. body_fill + 1 - 1 :
              [in_body[c] EXCEPT ![body_fill] = <<c, sample_counter>>][j] = <<c, bb + j>>
        BY <2>2, <3>2, <3>4, <3>5, <3>7, Sizes, BufferStored
      <4> QED BY <3>3, <4>1
    <3>10. header_fill' = header_fill + 1 /\ body_fill' = body_fill + 1
      BY <2>1
    <3>11. \A j \in 0 .. header_fill' - 1 : i_in'[c][j] = <<c, hb + j>>
      BY <1>a, <3>8, <3>10
    <3>12. \A j \in 0 .. body_fill' - 1 : in_body'[c][j] = <<c, bb + j>>
      BY <1>a, <3>9, <3>10
    <3> QED BY <3>11, <3>12, Zenon DEF hb, bb
  <2> QED BY <2>4, <2>5 DEF Buffered
<1>3. CASE HeaderFft
  BY <1>3 DEF HeaderFft
<1>4. CASE HeaderSetChannel \/ HeaderStart \/ HeaderPoll \/ HeaderRead
  BY <1>4 DEF HeaderSetChannel, HeaderStart, HeaderPoll, HeaderRead
<1>5. CASE HeaderAdd
  BY <1>5 DEF HeaderAdd
<1>6. CASE BodyFft
  BY <1>6 DEF BodyFft
<1>7. CASE ResetAcc \/ BodySetChannel \/ WaitBodyChannel \/ BodyStart
           \/ WaitBodyRun \/ BodyRead
  BY <1>7
  DEF ResetAcc, BodySetChannel, WaitBodyChannel, BodyStart, WaitBodyRun, BodyRead
<1>8. CASE BodyAdd
  BY <1>8 DEF BodyAdd
<1>9. CASE NextSample
  BY <1>9 DEF NextSample
<1>10. CASE SetupMemory \/ FftHSetup \/ PreProcessHeader \/ PreProcessBody
            \/ FirSetup \/ PressTest \/ BodyReturn
  BY <1>10
  DEF SetupMemory, FftHSetup, PreProcessHeader, PreProcessBody, FirSetup, PressTest,
      BodyReturn
<1>11. CASE ResetHeaderMac \/ ResetBodyMac \/ WaitBodyReset
  BY <1>11 DEF ResetHeaderMac, ResetBodyMac, WaitBodyReset
<1>12. CASE MenuIdle \/ HmResetDone \/ HmRunDone \/ BmResetDone \/ BmSetDone
            \/ BmRunDone \/ UNCHANGED vars
  BY <1>12
  DEF MenuIdle, HmResetDone, HmRunDone, BmResetDone, BmSetDone, BmRunDone, vars
<1> QED
  BY <1>1, <1>2, <1>3, <1>4, <1>5, <1>6, <1>7, <1>8, <1>9, <1>10, <1>11, <1>12
  DEF Next, Setup, Loop, HeaderMac, BodyMac

-----------------------------------------------------------------------------
(* Blocks in the memories *)

(* The rings lie behind the impulse response, and those of the two         *)
(* channels apart.                                                         *)
LEMMA HeaderSlotsApart ==
  ASSUME NEW c \in Channels
  PROVE  /\ HeaderShift(c) \in Nat
         /\ HeaderInMin(c) = HEADER_IN_BLOCK_MIN + HeaderShift(c)
         /\ HEADER_IN_BLOCK_MIN \in Nat
         /\ HEADER_IN_BLOCK_MAX = HEADER_IN_BLOCK_MIN + HEADER_BLOCK_NUM - 1
         /\ \A k \in 0 .. HEADER_BLOCK_NUM - 1 :
              /\ HeaderShift(c) + k \in HeaderSlots
              /\ HeaderShift(c) + k < HEADER_IN_BLOCK_MIN
         /\ \A b \in HeaderInMin(c) .. HeaderInMin(c) + HEADER_BLOCK_NUM - 1 :
              /\ b \in HeaderSlots
              /\ b >= HEADER_IN_BLOCK_MIN
              /\ \A d \in Channels, l \in HEADER_IN_BLOCK_MIN .. HEADER_IN_BLOCK_MAX :
                   b = l + HeaderShift(d) => d = c
<1>1. \A d \in Channels : \/ d = 1 /\ HeaderShift(d) = 0
                          \/ d = 2 /\ HeaderShift(d) = HEADER_BLOCK_NUM
  BY RingLayout DEF Channels
<1> QED
  BY <1>1, Sizes DEF HeaderInMin, HEADER_IN_BLOCK_MIN, HEADER_IN_BLOCK_MAX, HeaderSlots

LEMMA BodySlotsApart ==
  ASSUME NEW c \in Channels
  PROVE  /\ BodyShift(c) \in Nat
         /\ BodyInMin(c) = BODY_IN_BLOCK_MIN + BodyShift(c)
         /\ BODY_IN_BLOCK_MIN \in Nat
         /\ BODY_IN_BLOCK_MAX = BODY_IN_BLOCK_MIN + BODY_BLOCK_NUM - 1
         /\ \A k \in 0 .. BODY_BLOCK_NUM - 1 :
              /\ BodyShift(c) + k \in BodySlots
              /\ BodyShift(c) + k < BODY_IN_BLOCK_MIN
         /\ \A b \in BodyInMin(c) .. BodyInMin(c) + BODY_BLOCK_NUM - 1 :
              /\ b \in BodySlots
              /\ b >= BODY_IN_BLOCK_MIN
              /\ \A d \in Channels, l \in BODY_IN_BLOCK_MIN .. BODY_IN_BLOCK_MAX :
                   b = l + BodyShift(d) => d = c
<1>1. \A d \in Channels : \/ d = 1 /\ BodyShift(d) = 0
                          \/ d = 2 /\ BodyShift(d) = BODY_BLOCK_NUM
  BY RingLayout DEF Channels
<1> QED
  BY <1>1, Sizes DEF BodyInMin, BODY_IN_BLOCK_MIN, BODY_IN_BLOCK_MAX, BodySlots

(* When the newest block moves on, every older one is one step further     *)
(* back, and none of them is the newest.                                   *)
LEMMA HeaderAges ==
  ASSUME NEW c \in Channels, NEW b \in HEADER_IN_BLOCK_MIN .. HEADER_IN_BLOCK_MAX
  PROVE  /\ \A k \in 0 .. HEADER_BLOCK_NUM - 1 :
              RingBack(b + HeaderShift(c), k, HeaderInMin(c), HEADER_BLOCK_NUM)
                \in HeaderInMin(c) .. HeaderInMin(c) + HEADER_BLOCK_NUM - 1
         /\ RingBack(b + HeaderShift(c), 0, HeaderInMin(c), HEADER_BLOCK_NUM)
              = b + HeaderShift(c)
         /\ \A k \in 1 .. HEADER_BLOCK_NUM - 1 :
              /\ RingBack(b + HeaderShift(c), k, HeaderInMin(c), HEADER_BLOCK_NUM)
                   # b + HeaderShift(c)
              /\ RingBack(RingNext(b, HEADER_IN_BLOCK_MIN, HEADER_IN_BLOCK_MAX)
                            + HeaderShift(c), k, HeaderInMin(c), HEADER_BLOCK_NUM)
                   = RingBack(b + HeaderShift(c), k - 1, HeaderInMin(c),
                              HEADER_BLOCK_NUM)
<1>1. /\ HEADER_BLOCK_NUM \in Nat \ {0} /\ HeaderShift(c) \in Nat
      /\ HEADER_IN_BLOCK_MIN \in Nat
      /\ HeaderInMin(c) = HEADER_IN_BLOCK_MIN + HeaderShift(c)
      /\ HEADER_IN_BLOCK_MAX = HEADER_IN_BLOCK_MIN + HEADER_BLOCK_NUM - 1
  BY HeaderSlotsApart, Sizes
<1> QED BY <1>1 DEF RingBack, RingNext

LEMMA BodyAges ==
  ASSUME NEW c \in Channels, NEW b \in BODY_IN_BLOCK_MIN .. BODY_IN_BLOCK_MAX
  PROVE  /\ \A k \in 0 .. BODY_BLOCK_NUM - 1 :
              RingBack(b + BodyShift(c), k, BodyInMin(c), BODY_BLOCK_NUM)
                \in BodyInMin(c) .. BodyInMin(c) + BODY_BLOCK_NUM - 1
         /\ RingBack(b + BodyShift(c), 0, BodyInMin(c), BODY_BLOCK_NUM)
              = b + BodyShift(c)
         /\ \A k \in 1 .. BODY_BLOCK_NUM - 1 :
              /\ RingBack(b + BodyShift(c), k, BodyInMin(c), BODY_BLOCK_NUM)
                   # b + BodyShift(c)
              /\ RingBack(RingNext(b, BODY_IN_BLOCK_MIN, BODY_IN_BLOCK_MAX)
                            + BodyShift(c), k, BodyInMin(c), BODY_BLOCK_NUM)
                   = RingBack(b + BodyShift(c), k - 1, BodyInMin(c),
                              BODY_BLOCK_NUM)
<1>1. /\ BODY_BLOCK_NUM \in Nat \ {0} /\ BodyShift(c) \in Nat
      /\ BODY_IN_BLOCK_MIN \in Nat
      /\ BodyInMin(c) = BODY_IN_BLOCK_MIN + BodyShift(c)
      /\ BODY_IN_BLOCK_MAX = BODY_IN_BLOCK_MIN + BODY_BLOCK_NUM - 1
  BY BodySlotsApart, Sizes
<1> QED BY <1>1 DEF RingBack, RingNext

(* A full header block goes to the newest slot of each channel's ring.     *)
LEMMA HeaderStores ==
  ASSUME TypeOK, HmHandshake, Counted, Buffered, HeaderFft
  PROVE  /\ \A c \in Channels :
              sram'[latest_in_block + HeaderShift(c)] = HeaderSamples(c, i_h)
         /\ \A b \in HeaderSlots :
              (\A c \in Channels : b # latest_in_block + HeaderShift(c))
                => sram'[b] = sram[b]
<1>1. /\ pc = "hfft" /\ hm_state = "IDLE"
      /\ sram' = [sram EXCEPT ![latest_in_block] = i_in[1],
                              ![HEADER_BLOCK_NUM + latest_in_block] = i_in[2]]
  BY DEF HeaderFft, Goto, SramWrite, HmHandshake, TypeOK
<1>2. header_fill = HEADER_BLOCK_SIZE /\ i_h \in Nat
  BY <1>1 DEF Counted, InLoop, TypeOK
<1>3. ASSUME NEW c \in Channels
      PROVE  i_in[c] = HeaderSamples(c, i_h)
  <2>1. \A j \in 0 .. HEADER_BLOCK_SIZE - 1 :
          i_in[c][j] = <<c, i_h * HEADER_BLOCK_SIZE + j>>
    BY <1>1, <1>2 DEF Buffered, InLoop, HeaderBlocks, HeaderStored
  <2>2. i_in[c] = [j \in 0 .. HEADER_BLOCK_SIZE - 1 |-> i_in[c][j]]
    BY DEF TypeOK, HeaderBlock, Vector
  <2>3. ~(i_h < 0)
    BY <1>2
  <2> QED BY <2>1, <2>2, <2>3, Zenon DEF HeaderSamples
<1>4. /\ HeaderShift(1) = 0 /\ HeaderShift(2) = HEADER_BLOCK_NUM
      /\ latest_in_block \in HEADER_IN_BLOCK_MIN .. HEADER_IN_BLOCK_MAX
      /\ sram \in [HeaderSlots -> HeaderBlock]
  BY RingLayout DEF TypeOK
<1>5. /\ latest_in_block \in Nat
      /\ latest_in_block \in HeaderSlots
      /\ HEADER_BLOCK_NUM + latest_in_block \in HeaderSlots
      /\ HEADER_BLOCK_NUM + latest_in_block = latest_in_block + HeaderShift(2)
      /\ latest_in_block = latest_in_block + HeaderShift(1)
      /\ HEADER_BLOCK_NUM + latest_in_block # latest_in_block
  BY <1>4, Sizes DEF HEADER_IN_BLOCK_MIN, HEADER_IN_BLOCK_MAX, HeaderSlots
<1>6. /\ sram'[latest_in_block] = i_in[1]
      /\ sram'[HEADER_BLOCK_NUM + latest_in_block] = i_in[2]
      /\ \A b \in HeaderSlots :
           b # latest_in_block /\ b # HEADER_BLOCK_NUM + latest_in_block
             => sram'[b] = sram[b]
  BY <1>1, <1>4, <1>5
<1> QED BY <1>3, <1>5, <1>6 DEF Channels

LEMMA BodyStores ==
  ASSUME TypeOK, Counted, Buffered, BodyFft
  PROVE  /\ \A c \in Channels :
              sdram'[latest_in_body_block + BodyShift(c)] \in BodyInput(c, i_h_body)
         /\ \A b \in BodySlots :
              (\A c \in Channels : b # latest_in_body_block + BodyShift(c))
                => sdram'[b] = sdram[b]
<1>1. pc = "bfft"
  BY DEF BodyFft, Goto
<1>0. PICK left \in BodyStore(in_body[1]), right \in BodyStore(in_body[2]) :
        sdram' = [sdram EXCEPT ![latest_in_body_block] = left,
                               ![BODY_BLOCK_NUM + latest_in_body_block] = right]
  BY DEF BodyFft
<1>2. body_fill = BODY_BLOCK_SIZE /\ i_h_body \in Nat
  BY <1>1 DEF Counted, InLoop, TypeOK
<1>3. ASSUME NEW c \in Channels
      PROVE  in_body[c] = BodySamples(c, i_h_body)
  <2>1. \A j \in 0 .. BODY_BLOCK_SIZE - 1 :
          in_body[c][j] = <<c, i_h_body * BODY_BLOCK_SIZE + j>>
    BY <1>1, <1>2 DEF Buffered, InLoop, BodyBlocks, BodyStored
  <2>2. in_body[c] = [j \in 0 .. BODY_BLOCK_SIZE - 1 |-> in_body[c][j]]
    BY DEF TypeOK, Vector
  <2>3. ~(i_h_body < 0)
    BY <1>2
  <2> QED BY <2>1, <2>2, <2>3, Zenon DEF BodySamples
<1>4. /\ BodyShift(1) = 0 /\ BodyShift(2) = BODY_BLOCK_NUM
      /\ latest_in_body_block \in BODY_IN_BLOCK_MIN .. BODY_IN_BLOCK_MAX
      /\ sdram \in [BodySlots -> BodyBlock]
  BY RingLayout DEF TypeOK
<1>5. /\ latest_in_body_block \in Nat
      /\ latest_in_body_block \in BodySlots
      /\ BODY_BLOCK_NUM + latest_in_body_block \in BodySlots
      /\ BODY_BLOCK_NUM + latest_in_body_block = latest_in_body_block + BodyShift(2)
      /\ latest_in_body_block = latest_in_body_block + BodyShift(1)
      /\ BODY_BLOCK_NUM + latest_in_body_block # latest_in_body_block
  BY <1>4, Sizes DEF BODY_IN_BLOCK_MIN, BODY_IN_BLOCK_MAX, BodySlots
<1>6. /\ sdram'[latest_in_body_block] = left
      /\ sdram'[BODY_BLOCK_NUM + latest_in_body_block] = right
      /\ \A b \in BodySlots :
           b # latest_in_body_block /\ b # BODY_BLOCK_NUM + latest_in_body_block
             => sdram'[b] = sdram[b]
  BY <1>0, <1>4, <1>5
<1>7. /\ left \in BodyInput(1, i_h_body)
      /\ right \in BodyInput(2, i_h_body)
  BY <1>0, <1>2, <1>3 DEF BodyInput, Channels
<1> HIDE DEF BodyStore
<1> QED BY <1>5, <1>6, <1>7 DEF Channels

LEMMA HeaderMemoryStep ==
  ASSUME TypeOK, HmHandshake, Counted, Buffered, HeaderIr, HeaderRing, [Next]_vars
  PROVE  HeaderIr' /\ HeaderRing'
<1>a. /\ pc \in Pcs /\ hm_state \in {"IDLE", "RESET", "RUN"} /\ i_h \in Nat
      /\ latest_in_block \in HEADER_IN_BLOCK_MIN .. HEADER_IN_BLOCK_MAX
      /\ sram \in [HeaderSlots -> HeaderBlock]
  BY DEF TypeOK
<1>b. HEADER_BLOCK_NUM \in Nat \ {0} /\ HeaderSlots = 0 .. 4 * HEADER_BLOCK_NUM - 1
      /\ HEADER_IN_BLOCK_MIN \in Nat
  BY Sizes DEF HeaderSlots, HEADER_IN_BLOCK_MIN
<1>c. ASSUME NEW c \in Channels
      PROVE  /\ HeaderShift(c) \in Nat
             /\ HeaderInMin(c) = HEADER_IN_BLOCK_MIN + HeaderShift(c)
             /\ HEADER_IN_BLOCK_MIN \in Nat
             /\ HEADER_IN_BLOCK_MAX = HEADER_IN_BLOCK_MIN + HEADER_BLOCK_NUM - 1
  BY HeaderSlotsApart
<1> USE DEF HeaderIr, HeaderRing, InLoop, HeaderStored, Goto
<1>1. CASE SetupMemory
  BY <1>1, <1>a, <1>b DEF SetupMemory, SramWrite, HmHandshake
<1>2. CASE PreProcessHeader
  <2>1. /\ pc = "ir_header" /\ pc' = "ir_body" /\ hm_state = "IDLE"
        /\ sram' = [b \in HeaderSlots |->
             IF b < HEADER_BLOCK_NUM THEN HeaderTaps(1, b)
             ELSE IF b < HEADER_IN_BLOCK_MIN THEN HeaderTaps(2, b - HEADER_BLOCK_NUM)
             ELSE sram[b]]
    BY <1>2, <1>a DEF PreProcessHeader, SramWrite, HmHandshake
  <2>2. ASSUME NEW c \in Channels, NEW k \in 0 .. HEADER_BLOCK_NUM - 1
        PROVE  sram'[HeaderShift(c) + k] = HeaderTaps(c, k)
    <3>1. CASE c = 1
      BY <2>1, <3>1, <1>b, RingLayout
    <3>2. CASE c = 2
      <4>1. HeaderShift(c) + k = HEADER_BLOCK_NUM + k /\ HEADER_BLOCK_NUM + k \in HeaderSlots
            /\ HEADER_BLOCK_NUM + k < HEADER_IN_BLOCK_MIN
            /\ ~(HEADER_BLOCK_NUM + k < HEADER_BLOCK_NUM)
            /\ HEADER_BLOCK_NUM + k - HEADER_BLOCK_NUM = k
        BY <3>2, <1>b, RingLayout DEF HEADER_IN_BLOCK_MIN
      <4> DEFINE b == HEADER_BLOCK_NUM + k
      <4>2. b - HEADER_BLOCK_NUM = k /\ b = HeaderShift(c) + k
        BY <1>b, <4>1
      <4>3. b \in HeaderSlots /\ ~(b < HEADER_BLOCK_NUM) /\ b < HEADER_IN_BLOCK_MIN
        BY <4>1
      <4> HIDE DEF b
      <4>4. sram'[b] = HeaderTaps(2, b - HEADER_BLOCK_NUM)
        BY <2>1, <4>3
      <4> QED BY <3>2, <4>2, <4>4
    <3> QED BY <3>1, <3>2 DEF Channels
  <2>3. \A b \in HEADER_IN_BLOCK_MIN .. 4 * HEADER_BLOCK_NUM - 1 : sram'[b] = sram[b]
    <3>1. \A b \in HEADER_IN_BLOCK_MIN .. 4 * HEADER_BLOCK_NUM - 1 :
            b \in HeaderSlots /\ ~(b < HEADER_BLOCK_NUM) /\ ~(b < HEADER_IN_BLOCK_MIN)
      BY <1>b DEF HEADER_IN_BLOCK_MIN
    <3> QED BY <2>1, <3>1
  <2> QED BY <2>1, <2>2, <2>3
<1>3. CASE FftHSetup \/ PreProcessBody \/ FirSetup
  BY <1>3 DEF FftHSetup, PreProcessBody, FirSetup, firVars, memVars
<1>4. CASE PrepareLoop
  <2>1. /\ pc = "prepare" /\ pc' = "reset_hm" /\ sram' = sram
        /\ latest_in_block' = HEADER_IN_BLOCK_MAX /\ i_h' = 0
    BY <1>4 DEF PrepareLoop, memVars
  <2>2. ASSUME NEW c \in Channels, NEW k \in 1 .. HEADER_BLOCK_NUM - 1
        PROVE  sram[RingBack(HEADER_IN_BLOCK_MAX + HeaderShift(c), k, HeaderInMin(c),
                             HEADER_BLOCK_NUM)] = HeaderSamples(c, 0 - k)
    <3>1. HeaderSamples(c, 0 - k) = ZeroVector(HEADER_BLOCK_SIZE)
      BY DEF HeaderSamples, ZeroVector
    <3>2. HEADER_IN_BLOCK_MAX \in HEADER_IN_BLOCK_MIN .. HEADER_IN_BLOCK_MAX
      BY <1>b, <1>c
    <3>3. \A b \in HeaderInMin(c) .. HeaderInMin(c) + HEADER_BLOCK_NUM - 1 :
            b \in HEADER_IN_BLOCK_MIN .. 4 * HEADER_BLOCK_NUM - 1
      BY <1>b, HeaderSlotsApart
    <3> QED BY <1>b, <2>1, <3>1, <3>2, <3>3, HeaderAges
  <2> QED BY <2>1, <2>2
<1>5. CASE HeaderFft
  <2>1. pc = "hfft" /\ pc' = "hset" /\ UNCHANGED <<latest_in_block, i_h>>
    BY <1>5 DEF HeaderFft
  <2>2. /\ \A c \in Channels :
             sram'[latest_in_block + HeaderShift(c)] = HeaderSamples(c, i_h)
        /\ \A b \in HeaderSlots :
             (\A c \in Channels : b # latest_in_block + HeaderShift(c))
               => sram'[b] = sram[b]
    BY <1>5, HeaderStores
  <2>3. ASSUME NEW c \in Channels, NEW k \in 0 .. HEADER_BLOCK_NUM - 1
        PROVE  sram'[HeaderShift(c) + k] = sram[HeaderShift(c) + k]
    <3>1. /\ HeaderShift(c) + k \in HeaderSlots
          /\ HeaderShift(c) + k < HEADER_IN_BLOCK_MIN
      BY HeaderSlotsApart
    <3>2. \A d \in Channels : HeaderShift(c) + k # latest_in_block + HeaderShift(d)
      BY <1>a, <1>b, <1>c, <3>1
    <3> QED BY <2>2, <3>1, <3>2
  <2>4. ASSUME NEW c \in Channels, NEW k \in 0 .. HEADER_BLOCK_NUM - 1
        PROVE  sram'[RingBack(latest_in_block + HeaderShift(c), k, HeaderInMin(c),
                              HEADER_BLOCK_NUM)] = HeaderSamples(c, i_h - k)
    <3> DEFINE b == RingBack(latest_in_block + HeaderShift(c), k, HeaderInMin(c),
                             HEADER_BLOCK_NUM)
    <3>1. CASE k = 0
      <4>1. b = latest_in_block + HeaderShift(c)
        BY <1>a, <3>1, HeaderAges
      <4>2. i_h - k = i_h
        BY <1>a, <3>1
      <4> QED BY <2>2, <4>1, <4>2
    <3>2. CASE k # 0
      <4>0. k \in 1 .. HEADER_BLOCK_NUM - 1
        BY <3>2, <1>b
      <4>1. b # latest_in_block + HeaderShift(c)
        BY <1>a, <4>0, HeaderAges
      <4>2. b \in HeaderInMin(c) .. HeaderInMin(c) + HEADER_BLOCK_NUM - 1
        BY <1>a, HeaderAges
      <4> HIDE DEF b
      <4>3. b \in HeaderSlots /\ \A d \in Channels : b # latest_in_block + HeaderShift(d)
        BY <1>a, <4>1, <4>2, HeaderSlotsApart
      <4>4. sram[b] = HeaderSamples(c, i_h - k)
        BY <2>1, <4>0 DEF b
      <4> QED BY <2>2, <4>3, <4>4 DEF b
    <3> QED BY <3>1, <3>2
  <2> QED BY <2>1, <2>3, <2>4
<1>6. CASE HeaderAdd
  <2>1. /\ pc = "hifft" /\ pc' \in {"bfft", "next"} /\ sram' = sram
        /\ latest_in_block' =
             RingNext(latest_in_block, HEADER_IN_BLOCK_MIN, HEADER_IN_BLOCK_MAX)
        /\ i_h' = i_h + 1
    BY <1>6 DEF HeaderAdd, memVars
  <2>2. ASSUME NEW c \in Channels, NEW k \in 1 .. HEADER_BLOCK_NUM - 1
        PROVE  sram[RingBack(latest_in_block' + HeaderShift(c), k, HeaderInMin(c),
                             HEADER_BLOCK_NUM)] = HeaderSamples(c, i_h' - k)
    <3>1. RingBack(latest_in_block' + HeaderShift(c), k, HeaderInMin(c), HEADER_BLOCK_NUM)
            = RingBack(latest_in_block + HeaderShift(c), k - 1, HeaderInMin(c),
                       HEADER_BLOCK_NUM)
      BY <1>a, <2>1, HeaderAges
    <3>2. k - 1 \in 0 .. HEADER_BLOCK_NUM - 1 /\ i_h - (k - 1) = i_h' - k
      BY <1>a, <1>b, <2>1
    <3> QED BY <2>1, <3>1, <3>2
  <2>3. InLoop' /\ ~HeaderStored'
    BY <2>1
  <2> HIDE DEF HeaderStored, InLoop
  <2>4. HeaderRing'
    BY <2>1, <2>2, <2>3
  <2>5. HeaderIr'
    BY <2>1
  <2> QED BY <2>4, <2>5
<1>7. CASE ResetHeaderMac \/ ResetBodyMac \/ WaitBodyReset \/ Sample
  BY <1>7 DEF ResetHeaderMac, ResetBodyMac, WaitBodyReset, Sample, memVars, swVars
<1>8. CASE HeaderSetChannel \/ HeaderStart \/ HeaderPoll \/ HeaderRead
  BY <1>8 DEF HeaderSetChannel, HeaderStart, HeaderPoll, HeaderRead, memVars, swVars
<1>9. CASE BodyReturn \/ BodyFft \/ ResetAcc \/ BodySetChannel \/ WaitBodyChannel
           \/ BodyStart \/ WaitBodyRun
  BY <1>9
  DEF BodyReturn, BodyFft, ResetAcc, BodySetChannel, WaitBodyChannel, BodyStart,
      WaitBodyRun, memVars, swVars
<1>10. CASE BodyRead \/ BodyAdd \/ NextSample \/ PressTest
  BY <1>10 DEF BodyRead, BodyAdd, NextSample, PressTest, memVars, swVars
<1>11. CASE MenuIdle \/ HmResetDone \/ HmRunDone \/ BmResetDone \/ BmSetDone
            \/ BmRunDone \/ UNCHANGED vars
  BY <1>11
  DEF MenuIdle, HmResetDone, HmRunDone, BmResetDone, BmSetDone, BmRunDone, vars,
      memVars, swVars
<1> QED
  BY <1>1, <1>2, <1>3, <1>4, <1>5, <1>6, <1>7, <1>8, <1>9, <1>10, <1>11
  DEF Next, Setup, Loop, HeaderMac, BodyMac

LEMMA BodyMemoryStep ==
  ASSUME TypeOK, Counted, Buffered, BodyIr, BodyRing, [Next]_vars
  PROVE  BodyIr' /\ BodyRing'
<1>a. /\ pc \in Pcs /\ i_h_body \in Nat
      /\ latest_in_body_block \in BODY_IN_BLOCK_MIN .. BODY_IN_BLOCK_MAX
      /\ sdram \in [BodySlots -> BodyBlock]
  BY DEF TypeOK
<1>b. BODY_BLOCK_NUM \in Nat \ {0} /\ BodySlots = 0 .. 4 * BODY_BLOCK_NUM - 1
      /\ BODY_IN_BLOCK_MIN \in Nat
  BY Sizes DEF BodySlots, BODY_IN_BLOCK_MIN
<1>c. ASSUME NEW c \in Channels
      PROVE  /\ BodyShift(c) \in Nat
             /\ BodyInMin(c) = BODY_IN_BLOCK_MIN + BodyShift(c)
             /\ BODY_IN_BLOCK_MIN \in Nat
             /\ BODY_IN_BLOCK_MAX = BODY_IN_BLOCK_MIN + BODY_BLOCK_NUM - 1
  BY BodySlotsApart
<1> USE DEF BodyIr, BodyRing, InLoop, BodyStored, Goto
<1>1. CASE SetupMemory
  <2>1. /\ pc' = "ffth_setup"
        /\ \A b \in BodySlots : sdram'[b] = ZeroVector(BODY_BLOCK_SIZE)
    BY <1>1 DEF SetupMemory, ZeroBodyBlock
  <2> QED BY <2>1, <1>b
<1>2. CASE PreProcessBody
  <2>1. pc = "ir_body" /\ pc' = "fir_setup"
    BY <1>2 DEF PreProcessBody
  <2>2. PICK spoilt \in SUBSET (0 .. BODY_IN_BLOCK_MIN - 1) :
          sdram' = [b \in BodySlots |->
            IF b >= BODY_IN_BLOCK_MIN THEN sdram[b]
            ELSE IF b \in spoilt THEN Spoilt
            ELSE IF b < BODY_BLOCK_NUM THEN BodyTaps(1, b)
            ELSE BodyTaps(2, b - BODY_BLOCK_NUM)]
    BY <1>2 DEF PreProcessBody
  <2>3. ASSUME NEW c \in Channels, NEW k \in 0 .. BODY_BLOCK_NUM - 1
        PROVE  sdram'[BodyShift(c) + k] \in BodyStore(BodyTaps(c, k))
    <3> DEFINE b == BodyShift(c) + k
    <3>1. CASE c = 1
      <4>1. b = k /\ b \in BodySlots /\ b < BODY_BLOCK_NUM /\ ~(b >= BODY_IN_BLOCK_MIN)
        BY <3>1, <1>b, RingLayout DEF BODY_IN_BLOCK_MIN
      <4> HIDE DEF b
      <4>2. sdram'[b] = BodyTaps(1, b) \/ sdram'[b] = Spoilt
        BY <2>2, <4>1
      <4> QED BY <3>1, <4>1, <4>2 DEF b, BodyStore
    <3>2. CASE c = 2
      <4>1. /\ b \in BodySlots /\ ~(b < BODY_BLOCK_NUM) /\ ~(b >= BODY_IN_BLOCK_MIN)
            /\ b - BODY_BLOCK_NUM = k
        BY <3>2, <1>b, RingLayout DEF BODY_IN_BLOCK_MIN
      <4> HIDE DEF b
      <4>2. sdram'[b] = BodyTaps(2, b - BODY_BLOCK_NUM) \/ sdram'[b] = Spoilt
        BY <2>2, <4>1
      <4> QED BY <3>2, <4>1, <4>2 DEF b, BodyStore
    <3> QED BY <3>1, <3>2 DEF Channels
  <2>4. \A b \in BODY_IN_BLOCK_MIN .. 4 * BODY_BLOCK_NUM - 1 : sdram'[b] = sdram[b]
    <3>1. \A b \in BODY_IN_BLOCK_MIN .. 4 * BODY_BLOCK_NUM - 1 :
            b \in BodySlots /\ b >= BODY_IN_BLOCK_MIN
      BY <1>b DEF BODY_IN_BLOCK_MIN
    <3> QED BY <2>2, <3>1
  <2> QED BY <2>1, <2>3, <2>4
<1>3. CASE FftHSetup \/ PreProcessHeader \/ FirSetup
  BY <1>3 DEF FftHSetup, PreProcessHeader, FirSetup, firVars, memVars
<1>4. CASE PrepareLoop
  <2>1. /\ pc = "prepare" /\ pc' = "reset_hm" /\ sdram' = sdram
        /\ latest_in_body_block' = BODY_IN_BLOCK_MAX /\ i_h_body' = 0
    BY <1>4 DEF PrepareLoop, memVars
  <2>2. ASSUME NEW c \in Channels, NEW k \in 1 .. BODY_BLOCK_NUM - 1
        PROVE  sdram[RingBack(BODY_IN_BLOCK_MAX + BodyShift(c), k, BodyInMin(c),
                             BODY_BLOCK_NUM)] \in BodyInput(c, 0 - k)
    <3>1. ZeroVector(BODY_BLOCK_SIZE) \in BodyInput(c, 0 - k)
      BY DEF BodyInput, BodySamples, ZeroVector
    <3>2. BODY_IN_BLOCK_MAX \in BODY_IN_BLOCK_MIN .. BODY_IN_BLOCK_MAX
      BY <1>b, <1>c
    <3>3. \A b \in BodyInMin(c) .. BodyInMin(c) + BODY_BLOCK_NUM - 1 :
            b \in BODY_IN_BLOCK_MIN .. 4 * BODY_BLOCK_NUM - 1
      BY <1>b, BodySlotsApart
    <3> QED BY <1>b, <2>1, <3>1, <3>2, <3>3, BodyAges
  <2> QED BY <2>1, <2>2
<1>5. CASE BodyFft
  <2>1. pc = "bfft" /\ pc' = "bclear" /\ UNCHANGED <<latest_in_body_block, i_h_body>>
    BY <1>5 DEF BodyFft
  <2>2. /\ \A c \in Channels :
             sdram'[latest_in_body_block + BodyShift(c)] \in BodyInput(c, i_h_body)
        /\ \A b \in BodySlots :
             (\A c \in Channels : b # latest_in_body_block + BodyShift(c))
               => sdram'[b] = sdram[b]
    BY <1>5, BodyStores
  <2>3. ASSUME NEW c \in Channels, NEW k \in 0 .. BODY_BLOCK_NUM - 1
        PROVE  sdram'[BodyShift(c) + k] = sdram[BodyShift(c) + k]
    <3>1. /\ BodyShift(c) + k \in BodySlots
          /\ BodyShift(c) + k < BODY_IN_BLOCK_MIN
      BY BodySlotsApart
    <3>2. \A d \in Channels : BodyShift(c) + k # latest_in_body_block + BodyShift(d)
      BY <1>a, <1>b, <1>c, <3>1
    <3> QED BY <2>2, <3>1, <3>2
  <2>4. ASSUME NEW c \in Channels, NEW k \in 0 .. BODY_BLOCK_NUM - 1
        PROVE  sdram'[RingBack(latest_in_body_block + BodyShift(c), k, BodyInMin(c),
                              BODY_BLOCK_NUM)] \in BodyInput(c, i_h_body - k)
    <3> DEFINE b == RingBack(latest_in_body_block + BodyShift(c), k, BodyInMin(c),
                             BODY_BLOCK_NUM)
    <3>1. CASE k = 0
      <4>1. b = latest_in_body_block + BodyShift(c)
        BY <1>a, <3>1, BodyAges
      <4>2. i_h_body - k = i_h_body
        BY <1>a, <3>1
      <4> QED BY <2>2, <4>1, <4>2
    <3>2. CASE k # 0
      <4>0. k \in 1 .. BODY_BLOCK_NUM - 1
        BY <3>2, <1>b
      <4>1. b # latest_in_body_block + BodyShift(c)
        BY <1>a, <4>0, BodyAges
      <4>2. b \in BodyInMin(c) .. BodyInMin(c) + BODY_BLOCK_NUM - 1
        BY <1>a, BodyAges
      <4> HIDE DEF b
      <4>3. b \in BodySlots /\ \A d \in Channels : b # latest_in_body_block + BodyShift(d)
        BY <1>a, <4>1, <4>2, BodySlotsApart
      <4>4. sdram[b] \in BodyInput(c, i_h_body - k)
        BY <2>1, <4>0 DEF b
      <4> QED BY <2>2, <4>3, <4>4 DEF b
    <3> QED BY <3>1, <3>2
  <2> QED BY <2>1, <2>3, <2>4
<1>6. CASE BodyAdd
  <2>1. /\ pc = "bifft" /\ pc' = "next" /\ sdram' = sdram
        /\ latest_in_body_block' =
             RingNext(latest_in_body_block, BODY_IN_BLOCK_MIN, BODY_IN_BLOCK_MAX)
        /\ i_h_body' = i_h_body + 1
    BY <1>6 DEF BodyAdd, memVars
  <2>2. ASSUME NEW c \in Channels, NEW k \in 1 .. BODY_BLOCK_NUM - 1
        PROVE  sdram[RingBack(latest_in_body_block' + BodyShift(c), k, BodyInMin(c),
                             BODY_BLOCK_NUM)] \in BodyInput(c, i_h_body' - k)
    <3>1. RingBack(latest_in_body_block' + BodyShift(c), k, BodyInMin(c), BODY_BLOCK_NUM)
            = RingBack(latest_in_body_block + BodyShift(c), k - 1, BodyInMin(c),
                       BODY_BLOCK_NUM)
      BY <1>a, <2>1, BodyAges
    <3>2. k - 1 \in 0 .. BODY_BLOCK_NUM - 1 /\ i_h_body - (k - 1) = i_h_body' - k
      BY <1>a, <1>b, <2>1
    <3> QED BY <2>1, <3>1, <3>2
  <2>3. InLoop' /\ ~BodyStored'
    BY <2>1
  <2> HIDE DEF BodyStored, InLoop
  <2>4. BodyRing'
    BY <2>1, <2>2, <2>3
  <2>5. BodyIr'
    BY <2>1
  <2> QED BY <2>4, <2>5
<1>7. CASE ResetHeaderMac \/ ResetBodyMac \/ WaitBodyReset \/ Sample
  BY <1>7 DEF ResetHeaderMac, ResetBodyMac, WaitBodyReset, Sample, memVars, swVars
<1>8. CASE HeaderSetChannel \/ HeaderStart \/ HeaderPoll \/ HeaderRead
  BY <1>8 DEF HeaderSetChannel, HeaderStart, HeaderPoll, HeaderRead, memVars, swVars
<1>9. CASE BodyReturn \/ HeaderFft \/ ResetAcc \/ BodySetChannel \/ WaitBodyChannel
           \/ BodyStart \/ WaitBodyRun
  BY <1>9
  DEF BodyReturn, HeaderFft, ResetAcc, BodySetChannel, WaitBodyChannel, BodyStart,
      WaitBodyRun, memVars, swVars
<1>10. CASE BodyRead \/ HeaderAdd \/ NextSample \/ PressTest
  BY <1>10 DEF BodyRead, HeaderAdd, NextSample, PressTest, memVars, swVars
<1>11. CASE MenuIdle \/ HmResetDone \/ HmRunDone \/ BmResetDone \/ BmSetDone
            \/ BmRunDone \/ UNCHANGED vars
  BY <1>11
  DEF MenuIdle, HmResetDone, HmRunDone, BmResetDone, BmSetDone, BmRunDone, vars,
      memVars, swVars
<1> QED
  BY <1>1, <1>2, <1>3, <1>4, <1>5, <1>6, <1>7, <1>8, <1>9, <1>10, <1>11
  DEF Next, Setup, Loop, HeaderMac, BodyMac

-----------------------------------------------------------------------------
(* Sums of products *)

LEMMA HeaderSum ==
  ASSUME NEW c \in Channels, TypeOK, HeaderIr, HeaderRing, pc = "hpoll"
  PROVE  MacPairs(sram, latest_in_block + HeaderShift(c), HeaderShift(c),
                  HeaderInMin(c), HEADER_BLOCK_NUM) = HeaderOperands(c, i_h)
<1>1. ASSUME NEW k \in 0 .. HEADER_BLOCK_NUM - 1
      PROVE  /\ sram[RingBack(latest_in_block + HeaderShift(c), k, HeaderInMin(c),
                              HEADER_BLOCK_NUM)] = HeaderSamples(c, i_h - k)
             /\ sram[HeaderShift(c) + k] = HeaderTaps(c, k)
  BY DEF HeaderIr, HeaderRing, InLoop, HeaderStored
<1> QED BY <1>1 DEF MacPairs, HeaderOperands

LEMMA HeaderSumsStep ==
  ASSUME TypeOK, HmHandshake, HeaderSync, HeaderIr, HeaderRing, HeaderSums, [Next]_vars
  PROVE  HeaderSums'
<1>a. /\ pc \in Pcs /\ hm_state \in {"IDLE", "RESET", "RUN"} /\ side \in {1, 2}
      /\ mac_buffer \in [Channels -> SUBSET HeaderPairs]
  BY DEF TypeOK, Channels
<1> USE DEF HeaderSums, HeaderStored, Goto
<1>1. CASE HeaderFft
  BY <1>1 DEF HeaderFft, Channels
<1>2. CASE HeaderSetChannel
  BY <1>2 DEF HeaderSetChannel, swVars
<1>3. CASE HeaderStart
  BY <1>3, <1>a DEF HeaderStart, HmHandshake, swVars
<1>4. CASE HmRunDone
  <2>1. /\ pc = "hpoll" /\ hm_channel = side /\ hm_state = "RUN"
        /\ UNCHANGED <<pc, side, mac_buffer, i_h>>
        /\ hm_ram' = MacPairs(sram, hm_latest[side], HeaderShift(side),
                              HeaderInMin(side), HEADER_BLOCK_NUM)
    BY <1>4 DEF HmRunDone, HmHandshake, swVars
  <2>2. hm_latest[side] = HeaderShift(side) + latest_in_block
    BY <2>1, <1>a DEF HeaderSync, HeaderStarted, SetupPcs, Channels
  <2>3. HeaderShift(side) + latest_in_block = latest_in_block + HeaderShift(side)
    BY <1>a, HeaderSlotsApart DEF TypeOK, Channels
  <2>4. hm_ram' = HeaderOperands(side, i_h)
    BY <1>a, <2>1, <2>2, <2>3, HeaderSum DEF Channels
  <2> QED BY <2>1, <2>4
<1>5. CASE HeaderPoll
  BY <1>5 DEF HeaderPoll, swVars, hmVars
<1>6. CASE HeaderRead
  <2>1. /\ pc = "hread" /\ hm_ram = HeaderOperands(side, i_h) /\ i_h' = i_h
        /\ mac_buffer' = [mac_buffer EXCEPT ![side] = hm_ram]
        /\ \/ side = 1 /\ side' = 2 /\ pc' = "hset"
           \/ side = 2 /\ side' = 2 /\ pc' = "hifft"
    BY <1>6, <1>a DEF HeaderRead
  <2>2. \A c \in Channels : c <= side => mac_buffer'[c] = HeaderOperands(c, i_h)
    BY <1>a, <2>1 DEF Channels
  <2> QED BY <1>a, <2>1, <2>2 DEF Channels
<1>7. CASE HeaderAdd
  BY <1>7 DEF HeaderAdd
<1>8. CASE HmResetDone
  BY <1>8 DEF HmResetDone, HmHandshake
<1>9. CASE SetupMemory \/ FftHSetup \/ PreProcessHeader \/ PreProcessBody
           \/ FirSetup \/ PrepareLoop \/ ResetHeaderMac \/ ResetBodyMac
           \/ WaitBodyReset
  BY <1>9
  DEF SetupMemory, FftHSetup, PreProcessHeader, PreProcessBody, FirSetup,
      PrepareLoop, ResetHeaderMac, ResetBodyMac, WaitBodyReset
<1>10. CASE Sample
  BY <1>10 DEF Sample
<1>11. CASE BodyReturn \/ BodyFft \/ ResetAcc \/ BodySetChannel \/ WaitBodyChannel
           \/ BodyStart \/ WaitBodyRun \/ BodyAdd
  BY <1>11
  DEF BodyReturn, BodyFft, ResetAcc, BodySetChannel, WaitBodyChannel, BodyStart,
      WaitBodyRun, BodyAdd
<1>12. CASE BodyRead \/ NextSample \/ PressTest
  BY <1>12 DEF BodyRead, NextSample, PressTest
<1>13. CASE MenuIdle \/ BmResetDone \/ BmSetDone \/ BmRunDone \/ UNCHANGED vars
  BY <1>13 DEF MenuIdle, BmResetDone, BmSetDone, BmRunDone, vars, swVars, hmVars
<1> QED
  BY <1>1, <1>2, <1>3, <1>4, <1>5, <1>6, <1>7, <1>8, <1>9, <1>10, <1>11, <1>12,
     <1>13
  DEF Next, Setup, Loop, HeaderMac, BodyMac

LEMMA BodySumsStep ==
  ASSUME TypeOK, BmHandshake, BodySync', BodyIr, BodyRing, BodySums, [Next]_vars
  PROVE  BodySums'
<1>a. /\ pc \in Pcs /\ side \in {1, 2}
      /\ bm_state \in {"IDLE", "RESET", "SET_LEFT", "SET_RIGHT", "RUN"}
      /\ body_mac_buffer \in [Channels -> SUBSET BodyPairs]
  BY DEF TypeOK, Channels
<1> USE DEF BodySums, BodyStored, Goto
<1>1. CASE BodyFft
  BY <1>1 DEF BodyFft, Channels
<1>2. CASE ResetAcc
  BY <1>2 DEF ResetAcc, swVars
<1>3. CASE BodySetChannel \/ WaitBodyChannel \/ BodyStart
  BY <1>3, <1>a
  DEF BodySetChannel, WaitBodyChannel, BodyStart, BmWrite, BmHandshake, swVars,
      memVars
<1>4. CASE BmRunDone
  <2>1. /\ pc = "bpoll" /\ bm_channel = side /\ bm_state = "RUN" /\ bm_state' = "IDLE"
        /\ UNCHANGED <<pc, side, body_mac_buffer, i_h_body, latest_in_body_block>>
        /\ UNCHANGED sdram
        /\ acc' = acc \cup MacPairs(sdram, bm_latest'[side], BodyShift(side),
                                    BodyInMin(side), BODY_BLOCK_NUM)
    BY <1>4 DEF BmRunDone, BmHandshake, swVars
  <2>2. bm_latest'[side] = BodyShift(side) + latest_in_body_block
    BY <2>1, <1>a DEF BodySync, BodyStarted, SetupPcs, Channels
  <2>3. BodyShift(side) + latest_in_body_block = latest_in_body_block + BodyShift(side)
    BY <1>a, BodySlotsApart DEF TypeOK, Channels
  <2>4. acc = {}
    BY <2>1
  <2>5. acc' = StoredPairs(side, sdram, latest_in_body_block)
    BY <2>1, <2>2, <2>3, <2>4 DEF StoredPairs
  <2> QED BY <2>1, <2>5
<1>5. CASE WaitBodyRun
  BY <1>5 DEF WaitBodyRun, swVars, memVars
<1>6. CASE BodyRead
  <2>1. /\ pc = "bread" /\ acc = StoredPairs(side, sdram, latest_in_body_block)
        /\ UNCHANGED <<sdram, latest_in_body_block>>
        /\ body_mac_buffer' = [body_mac_buffer EXCEPT ![side] = acc]
        /\ \/ side = 1 /\ side' = 2 /\ pc' = "bclear"
           \/ side = 2 /\ side' = 2 /\ pc' = "bifft"
    BY <1>6, <1>a DEF BodyRead, memVars
  <2>2. \A c \in Channels : c <= side =>
          body_mac_buffer'[c] = StoredPairs(c, sdram, latest_in_body_block)
    BY <1>a, <2>1 DEF Channels
  <2> QED BY <1>a, <2>1, <2>2 DEF Channels
<1>7. CASE BodyAdd \/ BodyReturn
  BY <1>7 DEF BodyAdd, BodyReturn
<1>8. CASE BmResetDone \/ BmSetDone
  BY <1>8 DEF BmResetDone, BmSetDone, BmHandshake, swVars, memVars
<1>9. CASE SetupMemory \/ FftHSetup \/ PreProcessHeader \/ PreProcessBody
           \/ FirSetup \/ PrepareLoop \/ ResetHeaderMac \/ ResetBodyMac
           \/ WaitBodyReset
  BY <1>9
  DEF SetupMemory, FftHSetup, PreProcessHeader, PreProcessBody, FirSetup,
      PrepareLoop, ResetHeaderMac, ResetBodyMac, WaitBodyReset
<1>10. CASE Sample
  BY <1>10 DEF Sample
<1>11. CASE HeaderFft \/ HeaderSetChannel \/ HeaderStart \/ HeaderPoll \/ HeaderRead
            \/ HeaderAdd
  BY <1>11
  DEF HeaderFft, HeaderSetChannel, HeaderStart, HeaderPoll, HeaderRead, HeaderAdd
<1>12. CASE NextSample \/ PressTest
  BY <1>12 DEF NextSample, PressTest
<1>13. CASE MenuIdle \/ HmResetDone \/ HmRunDone \/ UNCHANGED vars
  BY <1>13 DEF MenuIdle, HmResetDone, HmRunDone, vars, swVars, memVars, bmVars
<1> QED
  BY <1>1, <1>2, <1>3, <1>4, <1>5, <1>6, <1>7, <1>8, <1>9, <1>10, <1>11, <1>12,
     <1>13
  DEF Next, Setup, Loop, HeaderMac, BodyMac

-----------------------------------------------------------------------------
LEMMA MemoryInvInit == Init => MemoryInv
BY DEF Init, MemoryInv, Counted, Buffered, HeaderIr, BodyIr, HeaderRing, BodyRing,
       HeaderSums, BodySums, InLoop, HeaderStored, BodyStored

LEMMA MemoryInvStep == IInv /\ MemoryInv /\ [Next]_vars => MemoryInv'
<1> SUFFICES ASSUME IInv, MemoryInv, [Next]_vars PROVE MemoryInv'
  OBVIOUS
<1>1. IInv'
  BY IInvStep
<1> QED
  BY <1>1, CountedStep, BufferedStep, HeaderMemoryStep, BodyMemoryStep,
     HeaderSumsStep, BodySumsStep
  DEF IInv, MemoryInv

LEMMA MemoryInvCorrect == Spec => []MemoryInv
BY IInvCorrect, MemoryInvInit, MemoryInvStep, PTL DEF Spec

(* What the program copies for a body block is, for every partition, the   *)
(* products of what is stored for the newest blocks and for the impulse    *)
(* response; and that is the right block wherever its FFT has not spoilt   *)
(* it.                                                                     *)
THEOREM BodyOperandsCorrect == Spec => []BodyOperands
<1>1. MemoryInv => BodyOperands
  BY DEF MemoryInv, BodySums, BodyOperands, BodyIr, BodyRing, InLoop, BodyStored
<1> QED BY <1>1, MemoryInvCorrect, PTL

-----------------------------------------------------------------------------
(* The two MACs in ReverbLoop, together with all the program does to them  *)
(* and to their memories, implement MacCommands and BodyCommands for every *)
(* size of the partition.  Most actions are stutters.  The body MAC needs  *)
(* more than types: that the program stores blocks and zeroes the sums     *)
(* only while it is idle.                                                  *)
(*                                                                         *)
(* Then the result the whole program is for: the loop implements           *)
(* Convolution, for every partition.  OutputInv says which products are in *)
(* an output after so many samples and so many header blocks; what is left *)
(* is arithmetic: no two of those products have the same factors, all of   *)
(* them belong to the output, and the ones that are missing belong to      *)
(* outputs the loop has not reached.                                       *)

(* The two descriptions of the memory map agree: the constants of          *)
(* defines.h, as the program and the MAC shift them for a channel, and the *)
(* block numbers of the promise.                                           *)
LEMMA SameLayout ==
  ASSUME NEW c \in Channels
  PROVE  /\ HeaderMacUse!FirstIn(c) = HeaderInMin(c)
         /\ HeaderMacUse!LastIn(c) = HeaderInMax(c)
         /\ HeaderMacUse!FirstIr(c) = HeaderShift(c)
<1>1. CASE c = 1
  BY <1>1, SizeAssumption
  DEF HeaderMacUse!FirstIn, HeaderMacUse!LastIn, HeaderMacUse!FirstIr, HeaderInMin,
      HeaderInMax, HeaderShift, HEADER_IN_BLOCK_MIN, HEADER_IN_BLOCK_MAX
<1>2. CASE c = 2
  BY <1>2, SizeAssumption
  DEF HeaderMacUse!FirstIn, HeaderMacUse!LastIn, HeaderMacUse!FirstIr, HeaderInMin,
      HeaderInMax, HeaderShift, HEADER_IN_BLOCK_MIN, HEADER_IN_BLOCK_MAX
<1>3. QED
  BY <1>1, <1>2 DEF Channels

LEMMA SameReset == HmResetLatest = HeaderMacUse!AfterReset
BY SameLayout DEF HmResetLatest, HeaderMacUse!AfterReset, Channels

LEMMA SameSum ==
  ASSUME NEW c \in Channels, NEW b
  PROVE  MacPairs(sram, b, HeaderShift(c), HeaderInMin(c), HEADER_BLOCK_NUM)
           = HeaderMacUse!Sum(c, b)
BY SameLayout DEF MacPairs, RingBack, HeaderMacUse!Sum, HeaderMacUse!Older

LEMMA StepImplements ==
  TypeOK /\ [Next]_vars => [HeaderMacUse!CommandNext]_HeaderMacUse!commandVars
<1> SUFFICES ASSUME TypeOK, [Next]_vars
             PROVE  [HeaderMacUse!CommandNext]_HeaderMacUse!commandVars
  OBVIOUS
<1>a. hm_state \in {"IDLE", "RESET", "RUN"} /\ hm_channel \in Channels
      /\ side \in Channels
  BY DEF TypeOK
<1>1. ASSUME UNCHANGED hmVars, UNCHANGED sram
      PROVE  UNCHANGED HeaderMacUse!commandVars
  BY <1>1 DEF HeaderMacUse!commandVars, hmVars
<1>2. ASSUME UNCHANGED hmVars, hm_state # "IDLE" => UNCHANGED sram
      PROVE  [HeaderMacUse!CommandNext]_HeaderMacUse!commandVars
  BY <1>1, <1>2 DEF HeaderMacUse!CommandNext, HeaderMacUse!Store, hmVars
<1>3. CASE SetupMemory \/ PreProcessHeader \/ HeaderFft
  BY <1>2, <1>3 DEF SetupMemory, PreProcessHeader, HeaderFft, SramWrite
<1>4. CASE HeaderSetChannel
  BY <1>4, <1>a
  DEF HeaderSetChannel, HeaderMacUse!CommandNext, HeaderMacUse!SetChannel,
      HeaderMacUse!commandVars, Channels, memVars
<1>5. CASE HeaderStart
  <2>1. CASE hm_state = "IDLE"
    <3>1. /\ hm_state' = "RUN" /\ UNCHANGED <<hm_channel, sram>>
          /\ hm_latest' = [hm_latest EXCEPT ![hm_channel] =
               RingNext(@, HeaderInMin(hm_channel), HeaderInMax(hm_channel))]
      BY <1>5, <2>1 DEF HeaderStart, memVars
    <3>2. HeaderMacUse!Start
      BY <1>a, <2>1, <3>1, SameLayout DEF HeaderMacUse!Start, RingNext
    <3>3. QED
      BY <3>2 DEF HeaderMacUse!CommandNext
  <2>2. CASE hm_state # "IDLE"
    BY <1>1, <1>5, <2>2 DEF HeaderStart, hmVars, memVars
  <2>3. QED
    BY <2>1, <2>2
<1>6. CASE ResetHeaderMac
  <2>1. CASE hm_state = "IDLE"
    BY <1>6, <2>1, SameReset
    DEF ResetHeaderMac, HeaderMacUse!CommandNext, HeaderMacUse!Reset, memVars
  <2>2. CASE hm_state # "IDLE"
    BY <1>1, <1>6, <2>2 DEF ResetHeaderMac, hmVars, memVars
  <2>3. QED
    BY <2>1, <2>2
<1>7. CASE HmRunDone
  <2>1. hm_ram' = HeaderMacUse!Sum(hm_channel, hm_latest[hm_channel])
    BY <1>7, <1>a, SameSum DEF HmRunDone
  <2>2. QED
    BY <1>7, <2>1
    DEF HmRunDone, HeaderMacUse!CommandNext, HeaderMacUse!RunDone, memVars
<1>8. CASE HmResetDone
  BY <1>8
  DEF HmResetDone, HeaderMacUse!CommandNext, HeaderMacUse!ResetDone, memVars
<1>9. CASE FftHSetup \/ PreProcessBody \/ FirSetup \/ PrepareLoop
           \/ ResetBodyMac \/ WaitBodyReset \/ Sample
  BY <1>1, <1>9
  DEF FftHSetup, PreProcessBody, FirSetup, PrepareLoop, ResetBodyMac,
      WaitBodyReset, Sample, memVars, hmVars
<1>10. CASE HeaderPoll \/ HeaderRead \/ HeaderAdd \/ NextSample \/ PressTest
            \/ MenuIdle \/ UNCHANGED vars
  BY <1>1, <1>10
  DEF HeaderPoll, HeaderRead, HeaderAdd, NextSample, PressTest, MenuIdle, vars,
      memVars, hmVars
<1>11. CASE BodyReturn \/ BodyFft \/ ResetAcc \/ BodySetChannel
            \/ WaitBodyChannel \/ BodyStart \/ WaitBodyRun
  BY <1>1, <1>11
  DEF BodyReturn, BodyFft, ResetAcc, BodySetChannel, WaitBodyChannel,
      BodyStart, WaitBodyRun, memVars, hmVars
<1>12. CASE BodyRead \/ BodyAdd \/ BmResetDone \/ BmSetDone \/ BmRunDone
  BY <1>1, <1>12
  DEF BodyRead, BodyAdd, BmResetDone, BmSetDone, BmRunDone, memVars, hmVars
<1>13. QED
  BY <1>3, <1>4, <1>5, <1>6, <1>7, <1>8, <1>9, <1>10, <1>11, <1>12
  DEF Next, Setup, Loop, HeaderMac, BodyMac

(* Whatever the program does, its header MAC keeps the promise that the    *)
(* cycle-level MAC is checked against: after a start and a poll it holds   *)
(* the sum for the block the program stored (mac_sram.vhd, test()).        *)
THEOREM HeaderMacImplements == Spec => HeaderMacCommands
<1>1. Init => HeaderMacUse!CommandInit
  BY SameReset DEF Init, HeaderMacUse!CommandInit
<1>2. QED
  BY <1>1, TypeCorrect, StepImplements, PTL
  DEF Spec, HeaderMacCommands, HeaderMacUse!CommandSpec

-----------------------------------------------------------------------------
(* The body MAC *)

LEMMA SameBodyLayout ==
  ASSUME NEW c \in Channels
  PROVE  /\ BodyMacUse!FirstIn(c) = BodyInMin(c)
         /\ BodyMacUse!LastIn(c) = BodyInMax(c)
         /\ BodyMacUse!FirstIr(c) = BodyShift(c)
<1>1. CASE c = 1
  BY <1>1, SizeAssumption
  DEF BodyMacUse!FirstIn, BodyMacUse!LastIn, BodyMacUse!FirstIr, BodyInMin,
      BodyInMax, BodyShift, BODY_IN_BLOCK_MIN, BODY_IN_BLOCK_MAX
<1>2. CASE c = 2
  BY <1>2, SizeAssumption
  DEF BodyMacUse!FirstIn, BodyMacUse!LastIn, BodyMacUse!FirstIr, BodyInMin,
      BodyInMax, BodyShift, BODY_IN_BLOCK_MIN, BODY_IN_BLOCK_MAX
<1>3. QED
  BY <1>1, <1>2 DEF Channels

LEMMA SameBodyReset == BmResetLatest = BodyMacUse!AfterReset
BY SameBodyLayout DEF BmResetLatest, BodyMacUse!AfterReset, Channels

LEMMA SameBodySum ==
  ASSUME NEW c \in Channels, NEW b
  PROVE  MacPairs(sdram, b, BodyShift(c), BodyInMin(c), BODY_BLOCK_NUM)
           = BodyMacUse!Sum(c, b)
BY SameBodyLayout
DEF MacPairs, RingBack, BodyMacUse!Sum, BodyMacUse!Older

LEMMA BodyRunImplements ==
  ASSUME TypeOK, BmRunDone
  PROVE  BodyMacUse!RunDone
<1>a. bm_channel \in Channels
  BY DEF TypeOK
<1>1. bm_latest' = [bm_latest EXCEPT ![bm_channel] =
                      BodyMacUse!Following(bm_channel, @)]
  BY <1>a, SameBodyLayout DEF BmRunDone, RingNext, BodyMacUse!Following
<1>2. acc' = acc \cup BodyMacUse!Sum(bm_channel, bm_latest'[bm_channel])
  BY <1>a, SameBodySum DEF BmRunDone
<1>3. bm_state = "RUN" /\ bm_state' = "IDLE" /\ UNCHANGED <<bm_channel, sdram>>
  BY DEF BmRunDone
<1>4. QED
  BY <1>1, <1>2, <1>3 DEF BodyMacUse!RunDone

LEMMA BodyStepImplements ==
  TypeOK /\ BmHandshake /\ [Next]_vars
    => [BodyMacUse!CommandNext]_BodyMacUse!commandVars
<1> SUFFICES ASSUME TypeOK, BmHandshake, [Next]_vars
             PROVE  [BodyMacUse!CommandNext]_BodyMacUse!commandVars
  OBVIOUS
<1>a. /\ bm_state \in {"IDLE", "RESET", "SET_LEFT", "SET_RIGHT", "RUN"}
      /\ bm_channel \in Channels
  BY DEF TypeOK
<1>1. ASSUME UNCHANGED bmVars, UNCHANGED <<sdram, acc>>
      PROVE  UNCHANGED BodyMacUse!commandVars
  BY <1>1 DEF BodyMacUse!commandVars, bmVars
<1>2. ASSUME UNCHANGED bmVars, bm_state = "IDLE"
      PROVE  BodyMacUse!CommandNext
  BY <1>2 DEF BodyMacUse!CommandNext, BodyMacUse!Store, bmVars
<1>3. CASE SetupMemory \/ PreProcessBody \/ BodyFft \/ ResetAcc
  BY <1>2, <1>3, <1>a
  DEF SetupMemory, PreProcessBody, BodyFft, ResetAcc, BmHandshake, Goto
<1>4. ASSUME NEW command \in {"RESET", "SET_LEFT", "SET_RIGHT", "RUN"},
             BmWrite(command), UNCHANGED <<bm_channel, bm_latest, sdram, acc>>
      PROVE  [BodyMacUse!CommandNext]_BodyMacUse!commandVars
  <2>1. CASE bm_state = "IDLE"
    BY <1>4, <2>1
    DEF BmWrite, BodyMacUse!CommandNext, BodyMacUse!Command
  <2>2. CASE bm_state # "IDLE"
    BY <1>1, <1>4, <2>2 DEF BmWrite, bmVars
  <2>3. QED
    BY <2>1, <2>2
<1>5. CASE BodySetChannel \/ BodyStart \/ ResetBodyMac
  BY <1>4, <1>5 DEF BodySetChannel, BodyStart, ResetBodyMac, memVars
<1>6. CASE BmRunDone
  BY <1>6, BodyRunImplements DEF BodyMacUse!CommandNext
<1>7. CASE BmSetDone
  BY <1>7 DEF BmSetDone, BodyMacUse!CommandNext, BodyMacUse!SetDone, memVars
<1>8. CASE BmResetDone
  BY <1>8, SameBodyReset
  DEF BmResetDone, BodyMacUse!CommandNext, BodyMacUse!ResetDone, memVars
<1>9. CASE FftHSetup \/ PreProcessHeader \/ FirSetup \/ PrepareLoop
           \/ ResetHeaderMac \/ WaitBodyReset \/ Sample
  BY <1>1, <1>9
  DEF FftHSetup, PreProcessHeader, FirSetup, PrepareLoop, ResetHeaderMac,
      WaitBodyReset, Sample, memVars, bmVars
<1>10. CASE HeaderFft \/ HeaderSetChannel \/ HeaderStart \/ HeaderPoll
            \/ HeaderRead \/ HeaderAdd \/ HmResetDone \/ HmRunDone
  BY <1>1, <1>10
  DEF HeaderFft, HeaderSetChannel, HeaderStart, HeaderPoll, HeaderRead,
      HeaderAdd, HmResetDone, HmRunDone, memVars, bmVars
<1>11. CASE BodyReturn \/ WaitBodyChannel \/ WaitBodyRun \/ BodyRead
            \/ BodyAdd
  BY <1>1, <1>11
  DEF BodyReturn, WaitBodyChannel, WaitBodyRun, BodyRead, BodyAdd, memVars,
      bmVars
<1>12. CASE NextSample \/ PressTest \/ MenuIdle \/ UNCHANGED vars
  BY <1>1, <1>12
  DEF NextSample, PressTest, MenuIdle, vars, memVars, bmVars
<1>13. QED
  BY <1>3, <1>5, <1>6, <1>7, <1>8, <1>9, <1>10, <1>11, <1>12
  DEF Next, Setup, Loop, HeaderMac, BodyMac

(* Whatever the program does, its body MAC keeps the promise that the      *)
(* cycle-level MAC is checked against (mac_sdram_control_interface.vhd):   *)
(* no block is stored and no sum zeroed while it works (main.c:1135-1248). *)
THEOREM BodyMacImplements == Spec => BodyMacCommands
<1>1. Init => BodyMacUse!CommandInit
  BY SameBodyReset DEF Init, BodyMacUse!CommandInit, Channels
<1>2. IInv => TypeOK /\ BmHandshake
  BY DEF IInv
<1>3. QED
  BY <1>1, <1>2, IInvCorrect, BodyStepImplements, PTL
  DEF Spec, BodyMacCommands, BodyMacUse!CommandSpec
-----------------------------------------------------------------------------
(* Outputs *)

FirTerms(c, t) ==
  { Product(<<c, k>>, <<c, t - k>>, <<"fir", 0>>) :
      k \in { a \in 0 .. FIR_SIZE - 1 : a <= t } }

(* Products of block b of the input with block k of the impulse response,  *)
(* in output t.                                                            *)
Term(c, b, k, j, l) ==
  Product(<<c, FIR_SIZE + k * HEADER_BLOCK_SIZE + j>>,
          <<c, (b - k) * HEADER_BLOCK_SIZE + l>>, <<"header", b>>)

InBlock == 0 .. HEADER_BLOCK_SIZE - 1

Rest(b, t, j) == t - HEADER_BLOCK_SIZE_ZE - b * HEADER_BLOCK_SIZE - j

BlockTerms(c, b, t) ==
  { Term(c, b, p.k, p.j, Rest(b, t, p.j)) :
      p \in { q \in [k : 0 .. HEADER_BLOCK_NUM - 1, j : InBlock] :
              q.k <= b /\ Rest(b, t, q.j) \in InBlock } }

HeaderTerms(c, n, t) == UNION { BlockTerms(c, b, t) : b \in 0 .. n - 1 }

FirFlushed ==
  /\ pc = "prepare" => fir_line = [c \in Channels |-> [i \in 0 .. FIR_SIZE - 1 |-> Zero]]
  /\ pc = "prepare" \/ InLoop =>
       fir_coeff = [c \in Channels |-> [i \in 0 .. FIR_SIZE - 1 |-> <<c, i>>]]
  /\ InLoop =>
       \A c \in Channels : \A i \in 0 .. FIR_SIZE - 1 :
         fir_line[c][i] = IF i < Taken THEN <<c, Taken - 1 - i>> ELSE Zero

Outputted ==
  InLoop =>
    \A c \in Channels : \A t \in Outputs :
      out[c][t] = (IF t < Taken THEN FirTerms(c, t) ELSE {}) \cup HeaderTerms(c, i_h, t)

OutputInv == FirFlushed /\ Outputted

-----------------------------------------------------------------------------
(* What is added to the outputs *)

LEMMA NotZero ==
  ASSUME NEW c \in Channels, NEW n PROVE <<c, n>> # Zero
BY DEF Channels, Zero

LEMMA FirFlushedStep ==
  ASSUME TypeOK, FirFlushed, [Next]_vars
  PROVE  FirFlushed'
<1>a. sample_counter \in Nat /\ FIR_SIZE \in Nat
  BY Sizes DEF TypeOK
<1> USE DEF FirFlushed, InLoop, Taken, Goto
<1>1. CASE FirSetup
  <2>1. /\ pc' = "prepare"
        /\ fir_coeff' = [c \in Channels |-> [i \in 0 .. FIR_SIZE - 1 |-> <<c, i>>]]
        /\ fir_line' = [c \in Channels |-> Flushed(fir_line[c], FIR_SIZE)]
    BY <1>1 DEF FirSetup
  <2>2. \A c \in Channels : Flushed(fir_line[c], FIR_SIZE)
                              = [i \in 0 .. FIR_SIZE - 1 |-> Zero]
    BY <1>a DEF Flushed
  <2> QED BY <2>1, <2>2
<1>2. CASE PrepareLoop
  <2>1. /\ pc = "prepare" /\ pc' = "reset_hm" /\ sample_counter' = 0
        /\ fir_coeff' = fir_coeff /\ fir_line' = fir_line
    BY <1>2 DEF PrepareLoop, firVars
  <2>2. fir_line = [c \in Channels |-> [i \in 0 .. FIR_SIZE - 1 |-> Zero]]
    BY <2>1
  <2>3. \A c \in Channels : \A i \in 0 .. FIR_SIZE - 1 :
          fir_line'[c][i] = Zero /\ ~(i < 0)
    BY <2>1, <2>2
  <2> QED BY <2>1, <2>3
<1>3. CASE Sample
  <2>1. /\ pc = "sample" /\ pc' \in {"hfft", "bfft", "next"}
        /\ UNCHANGED <<sample_counter, fir_coeff>>
        /\ fir_line' = [c \in Channels |-> [i \in 0 .. FIR_SIZE - 1 |->
             IF i = 0 THEN <<c, sample_counter>> ELSE fir_line[c][i - 1]]]
    BY <1>3 DEF Sample
  <2>2. \A c \in Channels : \A i \in 0 .. FIR_SIZE - 1 :
          fir_line[c][i] = IF i < sample_counter THEN <<c, sample_counter - 1 - i>> ELSE Zero
    BY <2>1
  <2>3. fir_coeff' = [c \in Channels |-> [i \in 0 .. FIR_SIZE - 1 |-> <<c, i>>]]
    BY <2>1
  <2>4. ASSUME NEW c \in Channels, NEW i \in 0 .. FIR_SIZE - 1
        PROVE  fir_line'[c][i] = IF i < sample_counter + 1 THEN <<c, sample_counter - i>>
                                 ELSE Zero
    <3>1. CASE i = 0
      BY <1>a, <2>1, <3>1
    <3>2. CASE i # 0
      <4>1. i - 1 \in 0 .. FIR_SIZE - 1 /\ sample_counter - 1 - (i - 1) = sample_counter - i
            /\ (i - 1 < sample_counter <=> i < sample_counter + 1)
        BY <1>a, <3>2
      <4>2. fir_line'[c][i] = fir_line[c][i - 1]
        BY <2>1, <3>2
      <4> QED BY <2>2, <4>1, <4>2
    <3> QED BY <3>1, <3>2
  <2>5. Taken' = sample_counter + 1 /\ sample_counter + 1 - 1 = sample_counter
    BY <1>a, <2>1
  <2> HIDE DEF Taken, FirFlushed
  <2>6. ASSUME NEW c \in Channels, NEW i \in 0 .. FIR_SIZE - 1
        PROVE  fir_line'[c][i] = IF i < Taken' THEN <<c, Taken' - 1 - i>> ELSE Zero
    <3>1. Taken' - 1 - i = sample_counter - i
      BY <1>a, <2>5
    <3> QED BY <2>4, <2>5, <3>1
  <2> QED BY <2>1, <2>3, <2>6 DEF FirFlushed
<1>4. CASE NextSample
  BY <1>4 DEF NextSample, firVars
<1>5. CASE SetupMemory \/ FftHSetup \/ PreProcessHeader \/ PreProcessBody
           \/ ResetHeaderMac \/ ResetBodyMac \/ WaitBodyReset
  BY <1>5
  DEF SetupMemory, FftHSetup, PreProcessHeader, PreProcessBody, ResetHeaderMac,
      ResetBodyMac, WaitBodyReset, swVars, firVars
<1>6. CASE HeaderFft \/ HeaderSetChannel \/ HeaderStart \/ HeaderPoll \/ HeaderRead
           \/ HeaderAdd
  BY <1>6
  DEF HeaderFft, HeaderSetChannel, HeaderStart, HeaderPoll, HeaderRead, HeaderAdd,
      swVars, firVars
<1>7. CASE BodyReturn \/ BodyFft \/ ResetAcc \/ BodySetChannel \/ WaitBodyChannel
           \/ BodyStart \/ WaitBodyRun \/ BodyRead \/ BodyAdd
  BY <1>7
  DEF BodyReturn, BodyFft, ResetAcc, BodySetChannel, WaitBodyChannel, BodyStart,
      WaitBodyRun, BodyRead, BodyAdd, swVars, firVars
<1>8. CASE PressTest \/ MenuIdle \/ HmResetDone \/ HmRunDone \/ BmResetDone
           \/ BmSetDone \/ BmRunDone \/ UNCHANGED vars
  BY <1>8
  DEF PressTest, MenuIdle, HmResetDone, HmRunDone, BmResetDone, BmSetDone,
      BmRunDone, vars, swVars, firVars
<1> QED
  BY <1>1, <1>2, <1>3, <1>4, <1>5, <1>6, <1>7, <1>8
  DEF Next, Setup, Loop, HeaderMac, BodyMac

(* The inverse FFT of a header block's sums yields, in output t, the       *)
(* products of block n with the blocks of the impulse response.            *)
LEMMA IfftTerms ==
  ASSUME NEW c \in Channels, NEW n \in Nat, NEW t \in Int
  PROVE  Ifft(HeaderOperands(c, n), t - (HEADER_BLOCK_SIZE_ZE + n * HEADER_BLOCK_SIZE),
              HEADER_BLOCK_SIZE, <<"header", n>>) = BlockTerms(c, n, t)
<1> DEFINE ii == t - (HEADER_BLOCK_SIZE_ZE + n * HEADER_BLOCK_SIZE)
           by == <<"header", n>>
           operand(k) == [in |-> HeaderSamples(c, n - k), ir |-> HeaderTaps(c, k)]
           Some(p) == { Product(p.ir[j], p.in[ii - j], by) :
                          j \in { k \in 0 .. HEADER_BLOCK_SIZE - 1 :
                                    /\ ii - k \in 0 .. HEADER_BLOCK_SIZE - 1
                                    /\ p.ir[k] # Zero
                                    /\ p.in[ii - k] # Zero } }
<1>1. /\ ii \in Int /\ HEADER_BLOCK_SIZE \in Nat
      /\ \A j \in Int : Rest(n, t, j) = ii - j
  <2>1. n * HEADER_BLOCK_SIZE \in Int /\ HEADER_BLOCK_SIZE_ZE \in Int
    BY Sizes DEF HEADER_BLOCK_SIZE_ZE
  <2> QED BY <2>1, Sizes DEF Rest
<1> HIDE DEF ii
<1>2. ASSUME NEW k \in 0 .. HEADER_BLOCK_NUM - 1, NEW j \in InBlock, ii - j \in InBlock
      PROVE  /\ operand(k).ir[j] # Zero
             /\ operand(k).in[ii - j] # Zero <=> k <= n
             /\ k <= n => Product(operand(k).ir[j], operand(k).in[ii - j], by)
                            = Term(c, n, k, j, Rest(n, t, j))
  <2>1. operand(k).ir[j] = <<c, FIR_SIZE + k * HEADER_BLOCK_SIZE + j>>
    BY DEF HeaderTaps, InBlock
  <2>2. operand(k).in[ii - j]
          = IF n - k < 0 THEN Zero ELSE <<c, (n - k) * HEADER_BLOCK_SIZE + (ii - j)>>
    BY <1>2 DEF HeaderSamples, InBlock
  <2>3. n - k < 0 <=> ~(k <= n)
    OBVIOUS
  <2>4. Rest(n, t, j) = ii - j
    BY <1>1 DEF InBlock
  <2> HIDE DEF operand
  <2> QED BY <2>1, <2>2, <2>3, <2>4, NotZero DEF Term
<1>3. UNION { Some(p) : p \in HeaderOperands(c, n) } = BlockTerms(c, n, t)
  <2>1. ASSUME NEW k \in 0 .. HEADER_BLOCK_NUM - 1, NEW x \in Some(operand(k))
        PROVE  x \in BlockTerms(c, n, t)
    <3>1. PICK j \in InBlock : /\ ii - j \in InBlock
                               /\ operand(k).in[ii - j] # Zero
                               /\ x = Product(operand(k).ir[j], operand(k).in[ii - j], by)
      BY DEF InBlock
    <3> HIDE DEF operand, by
    <3>2. k <= n /\ x = Term(c, n, k, j, Rest(n, t, j))
      BY <1>2, <3>1
    <3>3. Rest(n, t, j) \in InBlock
      BY <1>1, <3>1 DEF InBlock
    <3> DEFINE q == [k |-> k, j |-> j]
    <3>4. q \in [k : 0 .. HEADER_BLOCK_NUM - 1, j : InBlock] /\ q.k = k /\ q.j = j
      OBVIOUS
    <3> HIDE DEF q
    <3> QED BY <3>2, <3>3, <3>4 DEF BlockTerms
  <2>2. ASSUME NEW x \in BlockTerms(c, n, t)
        PROVE  \E k \in 0 .. HEADER_BLOCK_NUM - 1 : x \in Some(operand(k))
    <3>1. PICK q \in [k : 0 .. HEADER_BLOCK_NUM - 1, j : InBlock] :
            /\ q.k <= n /\ Rest(n, t, q.j) \in InBlock
            /\ x = Term(c, n, q.k, q.j, Rest(n, t, q.j))
      BY DEF BlockTerms
    <3>2. /\ q.k \in 0 .. HEADER_BLOCK_NUM - 1 /\ q.j \in InBlock /\ q.j \in Int
          /\ ii - q.j \in InBlock
      BY <1>1, <3>1 DEF InBlock
    <3> HIDE DEF operand, by
    <3>3. /\ operand(q.k).ir[q.j] # Zero
          /\ operand(q.k).in[ii - q.j] # Zero
          /\ x = Product(operand(q.k).ir[q.j], operand(q.k).in[ii - q.j], by)
      BY <1>2, <3>1, <3>2
    <3>4. x \in Some(operand(q.k))
      BY <3>2, <3>3 DEF InBlock
    <3> QED BY <3>2, <3>4
  <2>3. HeaderOperands(c, n) = { operand(k) : k \in 0 .. HEADER_BLOCK_NUM - 1 }
    BY DEF HeaderOperands
  <2> HIDE DEF Some, operand
  <2> QED BY <2>1, <2>2, <2>3
<1> QED BY <1>3 DEF Ifft, ii

(* ... and nothing outside the window that the program adds to.            *)
LEMMA BlockTermsWindow ==
  ASSUME NEW c \in Channels, NEW n \in Nat, NEW t \in Int,
         t \notin HEADER_BLOCK_SIZE_ZE + n * HEADER_BLOCK_SIZE
                    .. HEADER_BLOCK_SIZE_ZE + (n + 2) * HEADER_BLOCK_SIZE - 1
  PROVE  BlockTerms(c, n, t) = {}
<1> DEFINE nh == n * HEADER_BLOCK_SIZE
<1>1. /\ nh \in Int /\ (n + 2) * HEADER_BLOCK_SIZE = nh + 2 * HEADER_BLOCK_SIZE
      /\ HEADER_BLOCK_SIZE \in Nat
  BY Sizes
<1> HIDE DEF nh
<1>2. \A j \in InBlock : Rest(n, t, j) \notin InBlock
  BY <1>1 DEF nh, Rest, InBlock, HEADER_BLOCK_SIZE_ZE
<1> QED BY <1>2 DEF BlockTerms

LEMMA HeaderTermsNext ==
  ASSUME NEW c, NEW n \in Nat, NEW t
  PROVE  HeaderTerms(c, n + 1, t) = HeaderTerms(c, n, t) \cup BlockTerms(c, n, t)
<1>1. 0 .. n + 1 - 1 = (0 .. n - 1) \cup {n}
  OBVIOUS
<1> QED BY <1>1 DEF HeaderTerms

(* What a sample adds to its own output is what the FIR filters return.    *)
LEMMA SampleAdds ==
  ASSUME TypeOK, FirFlushed, FirFlushed', Sample, NEW c \in Channels
  PROVE  out'[c] = [out[c] EXCEPT ![sample_counter] = @ \cup FirTerms(c, sample_counter)]
<1> DEFINE sc == sample_counter
<1>a. sc \in Nat
  BY DEF TypeOK
<1>1. /\ pc = "sample" /\ pc' \in {"hfft", "bfft", "next"} /\ sc' = sc
      /\ out'[c] = [out[c] EXCEPT ![sc] = @ \cup
           { Product(fir_coeff[c][i], fir_line'[c][i], <<"fir", 0>>) :
               i \in { k \in 0 .. FIR_SIZE - 1 : fir_line'[c][k] # Zero } }]
  BY DEF Sample, Goto
<1>2. \A i \in 0 .. FIR_SIZE - 1 : fir_coeff[c][i] = <<c, i>>
  <2>1. fir_coeff = [d \in Channels |-> [i \in 0 .. FIR_SIZE - 1 |-> <<d, i>>]]
    BY <1>1 DEF FirFlushed, InLoop
  <2> QED BY <2>1
<1>3. ASSUME NEW i \in 0 .. FIR_SIZE - 1
      PROVE  fir_line'[c][i] = IF i <= sc THEN <<c, sc - i>> ELSE Zero
  <2>1. fir_line'[c][i] = IF i < sc + 1 THEN <<c, sc + 1 - 1 - i>> ELSE Zero
    <3>1. InLoop' /\ Taken' = sc + 1
      BY <1>1 DEF InLoop, Taken
    <3>2. \A d \in Channels : \A j \in 0 .. FIR_SIZE - 1 :
            fir_line'[d][j] = IF j < Taken' THEN <<d, Taken' - 1 - j>> ELSE Zero
      BY <3>1, Zenon DEF FirFlushed
    <3>3. fir_line'[c][i] = IF i < Taken' THEN <<c, Taken' - 1 - i>> ELSE Zero
      BY <3>2, Zenon
    <3> QED BY <1>a, <3>1, <3>3
  <2>2. sc + 1 - 1 - i = sc - i /\ (i < sc + 1 <=> i <= sc)
    BY <1>a
  <2> QED BY <2>1, <2>2
<1>4. { k \in 0 .. FIR_SIZE - 1 : fir_line'[c][k] # Zero }
        = { a \in 0 .. FIR_SIZE - 1 : a <= sc }
  BY <1>3, NotZero
<1>5. { Product(fir_coeff[c][i], fir_line'[c][i], <<"fir", 0>>) :
          i \in { k \in 0 .. FIR_SIZE - 1 : fir_line'[c][k] # Zero } }
        = FirTerms(c, sc)
  BY <1>2, <1>3, <1>4 DEF FirTerms
<1> QED BY <1>1, <1>5

(* What a header block adds to an output.                                  *)
LEMMA HeaderAdds ==
  ASSUME TypeOK, HeaderSums, HeaderAdd, NEW c \in Channels, NEW t \in Outputs
  PROVE  out'[c][t] = out[c][t] \cup BlockTerms(c, i_h, t)
<1> DEFINE first == HEADER_BLOCK_SIZE_ZE + i_h * HEADER_BLOCK_SIZE
           last == HEADER_BLOCK_SIZE_ZE + (i_h + 2) * HEADER_BLOCK_SIZE - 1
           Terms(d, s) == IF s \in first .. last
                          THEN Ifft(mac_buffer[d], s - first, HEADER_BLOCK_SIZE,
                                    <<"header", i_h>>)
                          ELSE {}
<1>1. out' = [d \in Channels |-> [s \in Outputs |-> out[d][s] \cup Terms(d, s)]]
  BY DEF HeaderAdd
<1>2. mac_buffer[c] = HeaderOperands(c, i_h)
  BY DEF HeaderSums, HeaderAdd, Goto
<1>3. i_h \in Nat /\ t \in Int
  BY DEF TypeOK, Outputs
<1>4. Terms(c, t) = BlockTerms(c, i_h, t)
  BY <1>2, <1>3, IfftTerms, BlockTermsWindow, Zenon
<1> HIDE DEF Terms
<1> QED BY <1>1, <1>4

(* The loop that adds the body results runs from a first sample that lies  *)
(* behind its last one.                                                    *)
LEMMA BodyAddsNothing ==
  ASSUME TypeOK, BodyAdd
  PROVE  out' = out
<1> DEFINE first == BODY_BLOCK_SIZE_ZE + i_h_body * BODY_BLOCK_SIZE
           last == HEADER_BLOCK_SIZE_ZE + (i_h_body + 2) * HEADER_BLOCK_SIZE - 1
           Terms(d, s) == IF s \in first .. last
                          THEN Ifft(body_mac_buffer[d], s - first, BODY_BLOCK_SIZE,
                                    <<"body", i_h_body>>)
                          ELSE {}
<1>1. out' = [d \in Channels |-> [s \in Outputs |-> out[d][s] \cup Terms(d, s)]]
  BY DEF BodyAdd
<1>2. first .. last = {}
  <2> DEFINE nb == i_h_body * BODY_BLOCK_SIZE
             nh == i_h_body * HEADER_BLOCK_SIZE
             d == BODY_BLOCK_SIZE - HEADER_BLOCK_SIZE
             nd == i_h_body * d
  <2>1. i_h_body \in Nat /\ d \in Nat /\ BODY_BLOCK_SIZE >= 2 * HEADER_BLOCK_SIZE
        /\ HEADER_BLOCK_SIZE \in Nat /\ BODY_BLOCK_SIZE \in Nat
    BY Sizes, PartitionAssumption DEF TypeOK
  <2>2. nd \in Nat /\ nb \in Int /\ nh \in Int
    BY <2>1
  <2>3. nb = nh + nd
    BY <2>1
  <2>4. (i_h_body + 2) * HEADER_BLOCK_SIZE = nh + 2 * HEADER_BLOCK_SIZE
    BY <2>1
  <2> HIDE DEF nb, nh, nd
  <2>5. last < first
    BY <2>1, <2>2, <2>3, <2>4, Sizes DEF BODY_BLOCK_SIZE_ZE, HEADER_BLOCK_SIZE_ZE, nb
  <2>6. first \in Int /\ last \in Int
    BY <2>1, <2>2, <2>4, Sizes DEF BODY_BLOCK_SIZE_ZE, HEADER_BLOCK_SIZE_ZE, nb
  <2> HIDE DEF first, last
  <2> QED BY <2>5, <2>6
<1>3. \A d, s : Terms(d, s) = {}
  <2> HIDE DEF first, last
  <2> QED BY <1>2
<1> HIDE DEF Terms
<1>4. out' = [d \in Channels |-> [s \in Outputs |-> out[d][s]]]
  BY <1>1, <1>3
<1>5. out = [d \in Channels |-> [s \in Outputs |-> out[d][s]]]
  BY DEF TypeOK
<1> QED BY <1>4, <1>5

LEMMA OutputtedStep ==
  ASSUME TypeOK, HeaderSums, FirFlushed, FirFlushed', Outputted, [Next]_vars
  PROVE  Outputted'
<1>a. sample_counter \in Nat /\ i_h \in Nat
      /\ out \in [Channels -> [Outputs -> SUBSET Products]]
  BY DEF TypeOK
<1>b. Outputs \subseteq Int
  BY DEF Outputs
<1> USE DEF Outputted, InLoop, Taken, Goto
<1>1. CASE PrepareLoop
  <2>1. pc' = "reset_hm" /\ sample_counter' = 0 /\ i_h' = 0 /\ out' = NoOutput
    BY <1>1 DEF PrepareLoop
  <2>2. \A c, t : HeaderTerms(c, 0, t) = {}
    BY DEF HeaderTerms
  <2>3. \A t \in Outputs : ~(t < 0)
    BY DEF Outputs
  <2>4. \A c \in Channels : \A t \in Outputs : out'[c][t] = {}
    BY <2>1 DEF NoOutput
  <2> QED BY <2>1, <2>2, <2>3, <2>4
<1>2. CASE Sample
  <2>1. /\ pc = "sample" /\ pc' \in {"hfft", "bfft", "next"}
        /\ UNCHANGED <<sample_counter, i_h>>
    BY <1>2 DEF Sample
  <2>2. ASSUME NEW c \in Channels, NEW t \in Outputs
        PROVE  out'[c][t] = (IF t < sample_counter + 1 THEN FirTerms(c, t) ELSE {})
                              \cup HeaderTerms(c, i_h, t)
    <3>1. out'[c] = [out[c] EXCEPT ![sample_counter] = @ \cup FirTerms(c, sample_counter)]
      BY <1>2, SampleAdds
    <3>2. out[c][t] = (IF t < sample_counter THEN FirTerms(c, t) ELSE {})
                        \cup HeaderTerms(c, i_h, t)
      BY <2>1
    <3>3. DOMAIN out[c] = Outputs
      BY <1>a
    <3>4. t \in Int
      BY <1>b
    <3> HIDE DEF Outputted
    <3>5. CASE t = sample_counter
      <4>1. out'[c][t] = out[c][t] \cup FirTerms(c, t)
        BY <3>1, <3>3, <3>5
      <4>2. ~(t < sample_counter) /\ t < sample_counter + 1
        BY <1>a, <3>5
      <4> QED BY <3>2, <4>1, <4>2
    <3>6. CASE t # sample_counter
      <4>1. out'[c][t] = out[c][t]
        BY <3>1, <3>3, <3>6
      <4>2. t < sample_counter <=> t < sample_counter + 1
        BY <1>a, <3>4, <3>6
      <4> QED BY <3>2, <4>1, <4>2
    <3> QED BY <3>5, <3>6
  <2> QED BY <2>1, <2>2
<1>3. CASE HeaderAdd
  <2>1. /\ pc = "hifft" /\ pc' \in {"bfft", "next"} /\ i_h' = i_h + 1
        /\ UNCHANGED sample_counter
    BY <1>3 DEF HeaderAdd
  <2>2. ASSUME NEW c \in Channels, NEW t \in Outputs
        PROVE  out'[c][t] = (IF t < sample_counter + 1 THEN FirTerms(c, t) ELSE {})
                              \cup HeaderTerms(c, i_h + 1, t)
    <3>1. out[c][t] = (IF t < sample_counter + 1 THEN FirTerms(c, t) ELSE {})
                        \cup HeaderTerms(c, i_h, t)
      BY <2>1
    <3> HIDE DEF Outputted
    <3> QED BY <1>3, <1>a, <3>1, HeaderAdds, HeaderTermsNext
  <2> QED BY <2>1, <2>2
<1>4. CASE BodyAdd
  BY <1>4, BodyAddsNothing DEF BodyAdd
<1>5. CASE NextSample
  BY <1>5 DEF NextSample
<1>6. CASE SetupMemory \/ FftHSetup \/ PreProcessHeader \/ PreProcessBody
           \/ FirSetup \/ ResetHeaderMac \/ ResetBodyMac \/ WaitBodyReset
  BY <1>6
  DEF SetupMemory, FftHSetup, PreProcessHeader, PreProcessBody, FirSetup,
      ResetHeaderMac, ResetBodyMac, WaitBodyReset, swVars
<1>7. CASE HeaderFft \/ HeaderSetChannel \/ HeaderStart \/ HeaderPoll \/ HeaderRead
  BY <1>7
  DEF HeaderFft, HeaderSetChannel, HeaderStart, HeaderPoll, HeaderRead, swVars
<1>8. CASE BodyReturn \/ BodyFft \/ ResetAcc \/ BodySetChannel \/ WaitBodyChannel
           \/ BodyStart \/ WaitBodyRun \/ BodyRead
  BY <1>8
  DEF BodyReturn, BodyFft, ResetAcc, BodySetChannel, WaitBodyChannel, BodyStart,
      WaitBodyRun, BodyRead, swVars
<1>9. CASE PressTest \/ MenuIdle \/ HmResetDone \/ HmRunDone \/ BmResetDone
           \/ BmSetDone \/ BmRunDone \/ UNCHANGED vars
  BY <1>9
  DEF PressTest, MenuIdle, HmResetDone, HmRunDone, BmResetDone, BmSetDone,
      BmRunDone, vars, swVars
<1> QED
  BY <1>1, <1>2, <1>3, <1>4, <1>5, <1>6, <1>7, <1>8, <1>9
  DEF Next, Setup, Loop, HeaderMac, BodyMac

LEMMA OutputInvInit == Init => OutputInv
BY DEF Init, OutputInv, FirFlushed, Outputted, InLoop

LEMMA OutputInvStep == IInv /\ MemoryInv /\ OutputInv /\ [Next]_vars => OutputInv'
BY FirFlushedStep, OutputtedStep DEF IInv, MemoryInv, OutputInv

LEMMA OutputInvCorrect == Spec => []OutputInv
BY IInvCorrect, MemoryInvCorrect, OutputInvInit, OutputInvStep, PTL DEF Spec

-----------------------------------------------------------------------------
(* The convolution *)

Pairs(products) == { [tap |-> x.tap, sample |-> x.sample] : x \in products }

AllTerms(c, n, t) == FirTerms(c, t) \cup HeaderTerms(c, n, t)

(* A product of a FIR filter, and a product of a header block, by the      *)
(* numbers they are made of.                                               *)
LEMMA FirTermShape ==
  ASSUME NEW c, NEW t \in Nat, NEW x \in FirTerms(c, t)
  PROVE  \E k \in 0 .. FIR_SIZE - 1 :
           /\ k <= t /\ x = Product(<<c, k>>, <<c, t - k>>, <<"fir", 0>>)
BY DEF FirTerms

LEMMA HeaderTermShape ==
  ASSUME NEW c, NEW n \in Nat, NEW t \in Nat, NEW x \in HeaderTerms(c, n, t)
  PROVE  \E b \in Nat, k \in 0 .. HEADER_BLOCK_NUM - 1, j \in InBlock, l \in InBlock :
           /\ b < n /\ k <= b /\ l = Rest(b, t, j) /\ x = Term(c, b, k, j, l)
<1>1. PICK b \in 0 .. n - 1 : x \in BlockTerms(c, b, t)
  BY DEF HeaderTerms
<1>2. PICK q \in [k : 0 .. HEADER_BLOCK_NUM - 1, j : InBlock] :
        /\ q.k <= b /\ Rest(b, t, q.j) \in InBlock
        /\ x = Term(c, b, q.k, q.j, Rest(b, t, q.j))
  BY <1>1 DEF BlockTerms
<1>3. q.k \in 0 .. HEADER_BLOCK_NUM - 1 /\ q.j \in InBlock
  BY <1>2
<1>4. b \in Nat /\ b < n
  OBVIOUS
<1> QED BY <1>2, <1>3, <1>4

(* The two factors of a product say which block added it.                  *)
LEMMA TermUnique ==
  ASSUME NEW c,
         NEW b \in Nat, NEW k \in Nat, NEW j \in InBlock, NEW l \in InBlock, k <= b,
         NEW d \in Nat, NEW m \in Nat, NEW i \in InBlock, NEW h \in InBlock, m <= d,
         Term(c, b, k, j, l).tap = Term(c, d, m, i, h).tap,
         Term(c, b, k, j, l).sample = Term(c, d, m, i, h).sample
  PROVE  b = d /\ k = m /\ j = i /\ l = h
<1> DEFINE H == HEADER_BLOCK_SIZE
<1>0. H \in Nat \ {0} /\ InBlock = 0 .. H - 1 /\ FIR_SIZE \in Nat
  BY Sizes DEF InBlock
<1>1. /\ FIR_SIZE + k * H + j = FIR_SIZE + m * H + i
      /\ (b - k) * H + l = (d - m) * H + h
  BY DEF Term, Product
<1> HIDE DEF H
<1>2. k * H \in Nat /\ m * H \in Nat
  BY <1>0
<1>3. k * H + j = m * H + i
  BY <1>0, <1>1, <1>2
<1>4. k = m /\ j = i
  BY <1>0, <1>3, BlockUnique
<1>5. b - k \in Nat /\ d - m \in Nat
  OBVIOUS
<1>6. b - k = d - m /\ l = h
  BY <1>0, <1>1, <1>5, BlockUnique
<1> QED BY <1>4, <1>6

LEMMA NoneTwice ==
  ASSUME NEW c, NEW n \in Nat, NEW t \in Nat,
         NEW x \in AllTerms(c, n, t), NEW y \in AllTerms(c, n, t),
         x.tap = y.tap, x.sample = y.sample
  PROVE  x = y
<1>1. ASSUME NEW u \in FirTerms(c, t)
      PROVE  \E k \in 0 .. FIR_SIZE - 1 :
               /\ u.tap = <<c, k>>
               /\ u = Product(<<c, k>>, <<c, t - k>>, <<"fir", 0>>)
  BY <1>1, FirTermShape DEF Product
<1>2. ASSUME NEW u \in HeaderTerms(c, n, t)
      PROVE  \E k \in Nat : u.tap = <<c, k>> /\ k >= FIR_SIZE
  <2>1. PICK b \in Nat, k \in 0 .. HEADER_BLOCK_NUM - 1, j \in InBlock, l \in InBlock :
               u = Term(c, b, k, j, l)
    BY <1>2, HeaderTermShape
  <2>2. FIR_SIZE + k * HEADER_BLOCK_SIZE + j \in Nat
        /\ FIR_SIZE + k * HEADER_BLOCK_SIZE + j >= FIR_SIZE
    <3>1. k * HEADER_BLOCK_SIZE \in Nat
      BY Sizes
    <3> QED BY <3>1, Sizes DEF InBlock
  <2>3. u.tap = <<c, FIR_SIZE + k * HEADER_BLOCK_SIZE + j>>
    BY <2>1 DEF Term, Product
  <2> QED BY <2>2, <2>3
<1>3. CASE x \in FirTerms(c, t) /\ y \in FirTerms(c, t)
  <2>1. PICK k \in 0 .. FIR_SIZE - 1 :
               /\ x.tap = <<c, k>>
               /\ x = Product(<<c, k>>, <<c, t - k>>, <<"fir", 0>>)
    BY <1>1, <1>3
  <2>2. PICK m \in 0 .. FIR_SIZE - 1 :
               /\ y.tap = <<c, m>>
               /\ y = Product(<<c, m>>, <<c, t - m>>, <<"fir", 0>>)
    BY <1>1, <1>3
  <2>3. <<c, k>> = <<c, m>>
    BY <2>1, <2>2, Zenon
  <2>4. k = m
    BY <2>3
  <2> QED BY <2>1, <2>2, <2>4
<1>4. CASE x \in HeaderTerms(c, n, t) /\ y \in HeaderTerms(c, n, t)
  <2>1. PICK b \in Nat, k \in 0 .. HEADER_BLOCK_NUM - 1, j \in InBlock, l \in InBlock :
               k <= b /\ x = Term(c, b, k, j, l)
    BY <1>4, HeaderTermShape
  <2>2. PICK d \in Nat, m \in 0 .. HEADER_BLOCK_NUM - 1, i \in InBlock, h \in InBlock :
               m <= d /\ y = Term(c, d, m, i, h)
    BY <1>4, HeaderTermShape
  <2>3. k \in Nat /\ m \in Nat
    OBVIOUS
  <2> QED BY <2>1, <2>2, <2>3, TermUnique
<1>5. ASSUME NEW u \in FirTerms(c, t), NEW v \in HeaderTerms(c, n, t)
      PROVE  u.tap # v.tap
  <2>1. PICK k \in 0 .. FIR_SIZE - 1 : u.tap = <<c, k>>
    BY <1>1
  <2>2. PICK m \in Nat : v.tap = <<c, m>> /\ m >= FIR_SIZE
    BY <1>2
  <2>3. k # m
    BY <2>2, Sizes
  <2> QED BY <2>1, <2>2, <2>3
<1> QED BY <1>3, <1>4, <1>5 DEF AllTerms

LEMMA SumIsPairs ==
  ASSUME NEW c, NEW n \in Nat, NEW t \in Nat, NEW products \in SUBSET AllTerms(c, n, t)
  PROVE  SumOf(products) = Pairs(products)
<1>1. ~ \E x, y \in products : x # y /\ x.tap = y.tap /\ x.sample = y.sample
  BY NoneTwice
<1> QED BY <1>1 DEF SumOf, Pairs

(* Every product belongs to its output.                                    *)
LEMMA PairsDue ==
  ASSUME NEW c, NEW n \in Nat, NEW t \in Nat
  PROVE  Pairs(AllTerms(c, n, t)) \subseteq Reverb!Due(c, t)
<1> DEFINE H == HEADER_BLOCK_SIZE
           taps == FIR_SIZE + HEADER_BLOCK_NUM * HEADER_BLOCK_SIZE
<1>0. /\ H \in Nat /\ HEADER_BLOCK_NUM \in Nat /\ FIR_SIZE \in Nat /\ FIR_SIZE = 2 * H
      /\ HEADER_BLOCK_NUM * H \in Nat
      /\ InBlock = 0 .. H - 1
  BY Sizes, PartitionAssumption DEF InBlock
<1>1. ASSUME NEW x, NEW a \in 0 .. taps - 1, a <= t,
             x.tap = <<c, a>>, x.sample = <<c, t - a>>
      PROVE  [tap |-> x.tap, sample |-> x.sample] \in Reverb!Due(c, t)
  BY <1>1 DEF Reverb!Due
<1>2. ASSUME NEW x \in FirTerms(c, t)
      PROVE  [tap |-> x.tap, sample |-> x.sample] \in Reverb!Due(c, t)
  <2>1. PICK k \in 0 .. FIR_SIZE - 1 :
               k <= t /\ x = Product(<<c, k>>, <<c, t - k>>, <<"fir", 0>>)
    BY <1>2, FirTermShape
  <2>2. k \in 0 .. taps - 1
    BY <1>0
  <2> QED BY <1>1, <2>1, <2>2 DEF Product
<1>3. ASSUME NEW x \in HeaderTerms(c, n, t)
      PROVE  [tap |-> x.tap, sample |-> x.sample] \in Reverb!Due(c, t)
  <2>1. PICK b \in Nat, k \in 0 .. HEADER_BLOCK_NUM - 1, j \in InBlock, l \in InBlock :
               /\ k <= b /\ l = Rest(b, t, j) /\ x = Term(c, b, k, j, l)
    BY <1>3, HeaderTermShape
  <2> DEFINE kh == k * H
             bh == b * H
             a == FIR_SIZE + kh + j
  <2>2. /\ kh \in Nat /\ bh \in Nat /\ (b - k) * H = bh - kh
    BY <1>0
  <2>3. kh + H <= HEADER_BLOCK_NUM * H
    BY <1>0, ProductOrder
  <2>4. bh - kh \in Nat
    <3>1. b - k \in Nat
      BY <2>1
    <3>2. (b - k) * H \in Nat
      BY <3>1, <1>0
    <3> QED BY <2>2, <3>2
  <2>5. l = t - 2 * H - bh - j
    BY <2>1 DEF Rest, HEADER_BLOCK_SIZE_ZE
  <2>6. x.tap = <<c, a>> /\ x.sample = <<c, bh - kh + l>>
    BY <2>1, <2>2 DEF Term, Product
  <2> HIDE DEF kh, bh, H
  <2>7. a \in 0 .. taps - 1 /\ a <= t /\ bh - kh + l = t - a
    BY <1>0, <2>2, <2>3, <2>4, <2>5 DEF H
  <2> HIDE DEF a, taps
  <2> QED BY <1>1, <2>6, <2>7
<1> QED BY <1>2, <1>3 DEF Pairs, AllTerms

(* Once n header blocks have been added, outputs 0..(n+2)*SIZE-1 lack no   *)
(* product that the header owes them.                                      *)
LEMMA PairsComplete ==
  ASSUME NEW c, NEW n \in Nat, NEW t \in Nat, t < (n + 2) * HEADER_BLOCK_SIZE
  PROVE  Reverb!Due(c, t) \subseteq Pairs(AllTerms(c, n, t))
<1> DEFINE H == HEADER_BLOCK_SIZE
           taps == FIR_SIZE + HEADER_BLOCK_NUM * HEADER_BLOCK_SIZE
<1>0. /\ H \in Nat \ {0} /\ HEADER_BLOCK_NUM \in Nat /\ FIR_SIZE \in Nat
      /\ FIR_SIZE = 2 * H /\ HEADER_BLOCK_NUM * H \in Nat
      /\ InBlock = 0 .. H - 1
  BY Sizes, PartitionAssumption DEF InBlock
<1> SUFFICES ASSUME NEW a \in 0 .. taps - 1, a <= t
             PROVE  [tap |-> <<c, a>>, sample |-> <<c, t - a>>]
                      \in Pairs(AllTerms(c, n, t))
  BY DEF Reverb!Due
<1>1. a \in Nat /\ t - a \in Nat
  BY <1>0
<1>2. ASSUME NEW x \in AllTerms(c, n, t), x.tap = <<c, a>>, x.sample = <<c, t - a>>
      PROVE  [tap |-> <<c, a>>, sample |-> <<c, t - a>>] \in Pairs(AllTerms(c, n, t))
  BY <1>2 DEF Pairs
<1>3. CASE a < FIR_SIZE
  <2> DEFINE x == Product(<<c, a>>, <<c, t - a>>, <<"fir", 0>>)
  <2>1. a \in { k \in 0 .. FIR_SIZE - 1 : k <= t }
    BY <1>0, <1>1, <1>3
  <2>2. x.tap = <<c, a>> /\ x.sample = <<c, t - a>>
    BY DEF Product
  <2>3. x \in FirTerms(c, t)
    BY <2>1 DEF FirTerms
  <2> HIDE DEF x
  <2> QED BY <1>2, <2>2, <2>3 DEF AllTerms
<1>4. CASE ~(a < FIR_SIZE)
  <2>1. a - FIR_SIZE \in Nat
    BY <1>0, <1>1, <1>4
  <2>2. PICK k \in Nat, j \in 0 .. H - 1 : a - FIR_SIZE = k * H + j
    BY <1>0, <2>1, BlockExists
  <2>3. PICK d \in Nat, l \in 0 .. H - 1 : t - a = d * H + l
    BY <1>0, <1>1, BlockExists
  <2> DEFINE b == d + k
             kh == k * H
             dh == d * H
             bh == b * H
             nh == n * H
  <2>4. /\ kh \in Nat /\ dh \in Nat /\ nh \in Nat /\ bh = dh + kh
        /\ (n + 2) * H = nh + 2 * H /\ (b - k) * H = dh
        /\ b \in Nat /\ k <= b
    BY <1>0
  <2>5. kh < HEADER_BLOCK_NUM * H
    <3> HIDE DEF kh, H
    <3>1. a - FIR_SIZE = kh + j
      BY <2>2 DEF kh
    <3> QED BY <1>0, <1>1, <2>4, <3>1 DEF H
  <2>6. k < HEADER_BLOCK_NUM
    <3>1. CASE HEADER_BLOCK_NUM = k
      BY <1>0, <2>4, <2>5, <3>1
    <3>2. CASE HEADER_BLOCK_NUM < k
      <4>1. HEADER_BLOCK_NUM * H + H <= kh
        BY <1>0, <3>2, ProductOrder
      <4> HIDE DEF kh
      <4> QED BY <1>0, <2>4, <2>5, <4>1
    <3> QED BY <3>1, <3>2, <1>0
  <2>7. bh < nh
    <3> HIDE DEF kh, dh, bh, nh, H
    <3>1. a = FIR_SIZE + kh + j /\ t - a = dh + l
      BY <1>0, <1>1, <2>2, <2>3, <2>4 DEF kh, dh
    <3>2. t < nh + 2 * H
      BY <2>4 DEF H
    <3> QED BY <1>0, <1>1, <2>4, <3>1, <3>2
  <2>8. b < n
    <3>1. CASE b = n
      <4>1. bh = nh
        BY <3>1
      <4> HIDE DEF nh, bh
      <4> QED BY <2>4, <2>7, <4>1
    <3>2. CASE n < b
      <4>1. nh + H <= bh
        BY <1>0, <2>4, <3>2, ProductOrder
      <4> HIDE DEF nh, bh
      <4> QED BY <1>0, <2>4, <2>7, <4>1
    <3> QED BY <2>4, <3>1, <3>2
  <2>9. Rest(b, t, j) = l
    <3>1. Rest(b, t, j) = t - 2 * H - bh - j
      BY DEF Rest, HEADER_BLOCK_SIZE_ZE
    <3> HIDE DEF kh, dh, bh, nh, H
    <3>2. a = FIR_SIZE + kh + j /\ t - a = dh + l
      BY <1>0, <1>1, <2>2, <2>3, <2>4 DEF kh, dh
    <3> QED BY <1>0, <1>1, <2>4, <3>1, <3>2
  <2> DEFINE x == Term(c, b, k, j, l)
             q == [k |-> k, j |-> j]
  <2>10. x \in AllTerms(c, n, t)
    <3>1. /\ q \in [k : 0 .. HEADER_BLOCK_NUM - 1, j : InBlock] /\ q.k = k /\ q.j = j
          /\ l \in InBlock /\ b \in 0 .. n - 1
      BY <1>0, <2>4, <2>6, <2>8
    <3> HIDE DEF q, b
    <3>2. x \in BlockTerms(c, b, t)
      BY <2>4, <2>9, <3>1 DEF BlockTerms
    <3> HIDE DEF x
    <3> QED BY <3>1, <3>2 DEF AllTerms, HeaderTerms
  <2>11. x.tap = <<c, a>> /\ x.sample = <<c, t - a>>
    <3>1. x.tap = <<c, FIR_SIZE + kh + j>> /\ x.sample = <<c, (b - k) * H + l>>
      BY DEF Term, Product
    <3>2. FIR_SIZE + kh + j = a /\ (b - k) * H + l = t - a
      <4> HIDE DEF kh, dh, b
      <4>1. a - FIR_SIZE = kh + j /\ t - a = dh + l
        BY <2>2, <2>3 DEF kh, dh
      <4> QED BY <1>0, <1>1, <2>4, <4>1
    <3> QED BY <3>1, <3>2
  <2> HIDE DEF x
  <2> QED BY <1>2, <2>10, <2>11
<1> QED BY <1>3, <1>4

-----------------------------------------------------------------------------
(* The loop implements the convolution *)

Sums == [c \in Channels |-> [t \in Outputs |-> SumOf(out[c][t])]]

LEMMA SumDue ==
  ASSUME NEW c, NEW n \in Nat, NEW t \in Nat, NEW products \in SUBSET AllTerms(c, n, t)
  PROVE  /\ SumOf(products) = Pairs(products)
         /\ Pairs(products) \subseteq Reverb!Due(c, t)
<1>1. Pairs(products) \subseteq Pairs(AllTerms(c, n, t))
  BY DEF Pairs
<1> QED BY <1>1, SumIsPairs, PairsDue

(* The header block that is added belongs to outputs still to come.        *)
LEMMA HeaderAddsLater ==
  ASSUME TypeOK, Counted, pc = "hifft", NEW c, NEW t \in Nat, t < sample_counter
  PROVE  BlockTerms(c, i_h, t) = {}
<1> DEFINE H == HEADER_BLOCK_SIZE
           ih == i_h * H
<1>1. /\ H \in Nat /\ ih \in Nat /\ (i_h + 1) * H = ih + H
      /\ sample_counter \in Nat /\ header_fill \in Nat /\ i_h \in Nat
  BY Sizes DEF TypeOK
<1>2. sample_counter + 1 = (i_h + 1) * H + header_fill /\ header_fill < H
  BY <1>1 DEF Counted, InLoop, HeaderStored, HeaderBlocks, Taken
<1>3. InBlock = 0 .. H - 1
  BY DEF InBlock
<1>4. \A j \in InBlock : Rest(i_h, t, j) = t - 2 * H - ih - j
  BY DEF Rest, HEADER_BLOCK_SIZE_ZE
<1> HIDE DEF H, ih
<1>5. t < ih + 2 * H
  BY <1>1, <1>2
<1>6. \A j \in InBlock : Rest(i_h, t, j) \notin InBlock
  BY <1>1, <1>3, <1>4, <1>5
<1> QED BY <1>6 DEF BlockTerms

LEMMA AddsDue ==
  ASSUME TypeOK, Counted, HeaderSums, FirFlushed, FirFlushed', Outputted, Outputted',
         Sample \/ HeaderAdd
  PROVE  Reverb!Accumulate
<1>a. sample_counter \in Nat /\ i_h \in Nat /\ i_h' \in Nat
      /\ out \in [Channels -> [Outputs -> SUBSET Products]]
  <2>1. i_h' = i_h \/ i_h' = i_h + 1
    BY DEF Sample, HeaderAdd
  <2> QED BY <2>1 DEF TypeOK
<1>b. \A t \in Outputs : t \in Nat
  BY DEF Outputs
<1>1. /\ InLoop /\ InLoop' /\ sample_counter' = sample_counter
  BY DEF Sample, HeaderAdd, Goto, InLoop
<1>2. ASSUME NEW c \in Channels, NEW t \in Outputs
      PROVE  /\ out[c][t] \in SUBSET AllTerms(c, i_h, t)
             /\ out'[c][t] \in SUBSET AllTerms(c, i_h', t)
  BY <1>1 DEF Outputted, AllTerms
<1>3. ASSUME NEW c \in Channels, NEW t \in Outputs
      PROVE  /\ out[c][t] \subseteq out'[c][t]
             /\ t < sample_counter => out'[c][t] = out[c][t]
  <2>1. CASE Sample
    <3>1. out'[c] = [out[c] EXCEPT ![sample_counter] = @ \cup FirTerms(c, sample_counter)]
      BY <2>1, SampleAdds
    <3>2. DOMAIN out[c] = Outputs
      BY <1>a
    <3>3. CASE t = sample_counter
      BY <3>1, <3>2, <3>3, <1>a
    <3>4. CASE t # sample_counter
      BY <3>1, <3>2, <3>4
    <3> QED BY <3>3, <3>4
  <2>2. CASE HeaderAdd
    <3>1. pc = "hifft"
      BY <2>2 DEF HeaderAdd, Goto
    <3>2. t < sample_counter => BlockTerms(c, i_h, t) = {}
      BY <1>b, <3>1, HeaderAddsLater
    <3> QED BY <2>2, <3>2, HeaderAdds
  <2> QED BY <2>1, <2>2
<1>4. ASSUME NEW c \in Channels, NEW t \in Outputs
      PROVE  /\ SumOf(out[c][t]) = Pairs(out[c][t])
             /\ SumOf(out'[c][t]) = Pairs(out'[c][t])
             /\ SumOf(out'[c][t]) \subseteq Reverb!Due(c, t)
  <2>0. t \in Nat
    BY <1>b
  <2>1. out[c][t] \in SUBSET AllTerms(c, i_h, t)
    BY <1>2
  <2>2. out'[c][t] \in SUBSET AllTerms(c, i_h', t)
    BY <1>2
  <2>3. SumOf(out[c][t]) = Pairs(out[c][t])
    BY <1>a, <2>0, <2>1, SumDue
  <2>4. /\ SumOf(out'[c][t]) = Pairs(out'[c][t])
        /\ Pairs(out'[c][t]) \subseteq Reverb!Due(c, t)
    BY <1>a, <2>0, <2>2, SumDue
  <2> QED BY <2>3, <2>4
<1>5. ASSUME NEW c \in Channels, NEW t \in 0 .. Horizon - 1
      PROVE  /\ Sums[c][t] \subseteq Sums'[c][t]
             /\ Sums'[c][t] \subseteq Reverb!Due(c, t)
             /\ t < sample_counter => Sums'[c][t] = Sums[c][t]
  <2>1. Sums[c][t] = SumOf(out[c][t]) /\ Sums'[c][t] = SumOf(out'[c][t])
    BY DEF Sums, Outputs
  <2>2. t \in Outputs
    BY DEF Outputs
  <2>3. Pairs(out[c][t]) \subseteq Pairs(out'[c][t])
    BY <1>3, <2>2 DEF Pairs
  <2> QED BY <1>3, <1>4, <2>1, <2>2, <2>3
<1> QED BY <1>1, <1>5 DEF Reverb!Accumulate, Reverb!OnlyDueAdded, Sums

LEMMA NextSampleFinishes ==
  ASSUME TypeOK, Counted, Outputted, NextSample
  PROVE  Reverb!Finish
<1> DEFINE sc == sample_counter
<1>a. /\ sc \in Nat /\ i_h \in Nat /\ header_fill \in Nat /\ body_fill \in Nat
      /\ i_h_body \in Nat /\ body_runs \in 0 .. 2
  BY DEF TypeOK
<1>b. \A t \in Outputs : t \in Nat
  BY DEF Outputs
<1>1. pc = "next" /\ pc' = "sample" /\ sc' = sc + 1 /\ out' = out
  BY DEF NextSample, Goto
<1>2. InLoop /\ Taken = sc + 1
  BY <1>1 DEF InLoop, Taken
<1>3. /\ sc + 1 = i_h * HEADER_BLOCK_SIZE + header_fill
      /\ header_fill < HEADER_BLOCK_SIZE
      /\ sc + 1 = i_h_body * BODY_BLOCK_SIZE + body_fill
      /\ body_fill <= BODY_BLOCK_SIZE
      /\ i_h_body = body_runs
  BY <1>1, <1>2, <1>a, Sizes
  DEF Counted, HeaderStored, BodyStored, HeaderBlocks, BodyBlocks
<1>4. sc < Horizon
  <2>1. i_h_body \in 0 .. 2
    BY <1>a, <1>3
  <2>2. i_h_body * BODY_BLOCK_SIZE <= 2 * BODY_BLOCK_SIZE
    <3>1. i_h_body = 0 \/ i_h_body = 1 \/ i_h_body = 2
      BY <2>1
    <3> QED BY <3>1, Sizes
  <2> DEFINE nb == i_h_body * BODY_BLOCK_SIZE
  <2>3. nb \in Int
    BY <1>a, Sizes
  <2> HIDE DEF nb
  <2> QED BY <1>a, <1>3, <2>2, <2>3, Sizes DEF Horizon, nb
<1>5. sc < (i_h + 2) * HEADER_BLOCK_SIZE
  <2> DEFINE ih == i_h * HEADER_BLOCK_SIZE
  <2>1. ih \in Int /\ (i_h + 2) * HEADER_BLOCK_SIZE = ih + 2 * HEADER_BLOCK_SIZE
        /\ sc + 1 = ih + header_fill
    BY <1>a, <1>3, Sizes
  <2> HIDE DEF ih
  <2> QED BY <1>a, <1>3, <2>1, Sizes
<1>6. ASSUME NEW c \in Channels, NEW t \in Outputs
      PROVE  /\ SumOf(out[c][t]) \subseteq Reverb!Due(c, t)
             /\ t = sc => SumOf(out[c][t]) = Reverb!Due(c, t)
  <2>1. t \in Nat
    BY <1>b
  <2>2. out[c][t] = (IF t < sc + 1 THEN FirTerms(c, t) ELSE {}) \cup HeaderTerms(c, i_h, t)
    BY <1>2 DEF Outputted
  <2>3. SumOf(out[c][t]) = Pairs(out[c][t]) /\ SumOf(out[c][t]) \subseteq Reverb!Due(c, t)
    <3>1. out[c][t] \in SUBSET AllTerms(c, i_h, t)
      BY <2>2 DEF AllTerms
    <3>2. i_h \in Nat
      BY <1>a
    <3> HIDE DEF sc
    <3> DEFINE products == out[c][t]
    <3>3. products \in SUBSET AllTerms(c, i_h, t)
      BY <3>1
    <3> HIDE DEF products
    <3>4. /\ SumOf(products) = Pairs(products)
          /\ Pairs(products) \subseteq Reverb!Due(c, t)
      BY <2>1, <3>2, <3>3, SumDue
    <3> QED BY <3>4 DEF products
  <2>4. ASSUME t = sc PROVE Reverb!Due(c, t) \subseteq Pairs(out[c][t])
    <3>1. t < sc + 1
      BY <1>a, <2>4
    <3>2. out[c][t] = AllTerms(c, i_h, t)
      BY <2>2, <3>1 DEF AllTerms
    <3> QED BY <1>a, <1>5, <2>1, <2>4, <3>2, PairsComplete
  <2> QED BY <2>3, <2>4
<1>7. Sums' = Sums
  BY <1>1 DEF Sums
<1>8. \A c \in Channels : \A t \in 0 .. Horizon - 1 :
        /\ Sums[c][t] \subseteq Reverb!Due(c, t)
        /\ t = sc => Sums[c][t] = Reverb!Due(c, t)
  BY <1>6 DEF Sums, Outputs
<1>9. sc \in 0 .. Horizon - 1
  BY <1>a, <1>4, Sizes DEF Horizon
<1>10. Reverb!OnlyDueAdded(sc)
  BY <1>7, <1>8 DEF Reverb!OnlyDueAdded, Sums
<1>11. \A c \in Channels : Sums'[c][sc] = Reverb!Due(c, sc)
  BY <1>7, <1>8, <1>9
<1> QED BY <1>1, <1>4, <1>10, <1>11 DEF Reverb!Finish, Sums

LEMMA PrepareRestarts ==
  ASSUME PrepareLoop
  PROVE  Reverb!Restart
<1>1. SumOf({}) = {}
  BY DEF SumOf
<1> QED BY <1>1 DEF PrepareLoop, NoOutput, Reverb!Restart, Outputs

LEMMA ConvolutionStep ==
  ASSUME IInv, MemoryInv, OutputInv, OutputInv', [Next]_vars
  PROVE  [Reverb!ConvNext]_Reverb!convVars
<1>0. /\ TypeOK /\ Counted /\ HeaderSums /\ FirFlushed /\ FirFlushed'
      /\ Outputted /\ Outputted'
  BY DEF IInv, MemoryInv, OutputInv
<1>1. ASSUME out' = out, sample_counter' = sample_counter
      PROVE  UNCHANGED Reverb!convVars
  BY <1>1 DEF Reverb!convVars
<1>2. CASE PrepareLoop
  BY <1>2, PrepareRestarts DEF Reverb!ConvNext
<1>3. CASE Sample \/ HeaderAdd
  BY <1>0, <1>3, AddsDue DEF Reverb!ConvNext
<1>4. CASE NextSample
  BY <1>0, <1>4, NextSampleFinishes DEF Reverb!ConvNext
<1>5. CASE BodyAdd
  BY <1>0, <1>1, <1>5, BodyAddsNothing DEF BodyAdd
<1>6. CASE SetupMemory \/ FftHSetup \/ PreProcessHeader \/ PreProcessBody
           \/ FirSetup \/ ResetHeaderMac \/ ResetBodyMac \/ WaitBodyReset
  BY <1>1, <1>6
  DEF SetupMemory, FftHSetup, PreProcessHeader, PreProcessBody, FirSetup,
      ResetHeaderMac, ResetBodyMac, WaitBodyReset, swVars
<1>7. CASE HeaderFft \/ HeaderSetChannel \/ HeaderStart \/ HeaderPoll \/ HeaderRead
  BY <1>1, <1>7
  DEF HeaderFft, HeaderSetChannel, HeaderStart, HeaderPoll, HeaderRead, swVars
<1>8. CASE BodyReturn \/ BodyFft \/ ResetAcc \/ BodySetChannel \/ WaitBodyChannel
           \/ BodyStart \/ WaitBodyRun \/ BodyRead
  BY <1>1, <1>8
  DEF BodyReturn, BodyFft, ResetAcc, BodySetChannel, WaitBodyChannel, BodyStart,
      WaitBodyRun, BodyRead, swVars
<1>9. CASE PressTest \/ MenuIdle \/ HmResetDone \/ HmRunDone \/ BmResetDone
           \/ BmSetDone \/ BmRunDone \/ UNCHANGED vars
  BY <1>1, <1>9
  DEF PressTest, MenuIdle, HmResetDone, HmRunDone, BmResetDone, BmSetDone,
      BmRunDone, vars, swVars
<1> QED
  BY <1>2, <1>3, <1>4, <1>5, <1>6, <1>7, <1>8, <1>9
  DEF Next, Setup, Loop, HeaderMac, BodyMac

(* The reverb loop computes the convolution with the first FIR_SIZE +      *)
(* HEADER_BLOCK_NUM * HEADER_BLOCK_SIZE samples of the impulse response:   *)
(* when it moves past an output sample (main.c:1330), no product is        *)
(* missing, wrong or there twice, and the sample does not change again.    *)
THEOREM HeaderConvolutionCorrect == Spec => HeaderConvolution
<1>1. Init => Reverb!ConvInit
  <2>1. SumOf({}) = {}
    BY DEF SumOf
  <2> QED BY <2>1 DEF Init, NoOutput, Reverb!ConvInit, Outputs
<1>2. IInv /\ MemoryInv /\ OutputInv /\ OutputInv' /\ [Next]_vars
        => [Reverb!ConvNext]_Reverb!convVars
  BY ConvolutionStep
<1> QED
  BY <1>1, <1>2, IInvCorrect, MemoryInvCorrect, OutputInvCorrect, PTL
  DEF Spec, HeaderConvolution, Reverb!ConvSpec
=============================================================================
