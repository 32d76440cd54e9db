--------------------------- MODULE BodyMacProofs ---------------------------
(***************************************************************************)
(* Proofs about the body MAC for blocks and chunks of any size and any     *)
(* number of blocks, wherever the area lies and whatever the SDRAM takes   *)
(* for an access: types, the order of its accesses to the SDRAM, that the  *)
(* chunked pipeline implements the commands that the program relies on     *)
(* (BodyCommands), and that the program copies the finished sums.          *)
(***************************************************************************)
EXTENDS BodyMac, TLAPS

Pipeline == {"A_ADDR", "A", "C", "D", "B"}
Getting == {"GET_SET_ADDR", "GET_DATA", "CHUNK_DONE"}
Writing == {"WRITE_INIT", "WRITE_1", "WRITE_1_WAIT", "WRITE_2", "WRITE_2_WAIT"}
Walking == Running \ {"SELECT", "INIT"}
States == Running \cup {"IDLE", "RESET", "SET_LEFT", "SET_RIGHT"}

Products == {-1, 0, 1, 2} \X Int \X Int
Sums == SUBSET Products
Ops == {"none", "read", "write"}
Accesses == [op : Ops, addr : Int, data : Sums]

(* The bin at which the chunk in the arrays begins.                        *)
Start == CHUNK_SIZE * (at.chunk_pointer - 1)

(* The block pair that is worked on.                                       *)
Age == at.ir - IrMin(channel)

-----------------------------------------------------------------------------
(* The invariant                                                           *)

ControlTypes ==
  /\ state \in States /\ pre \in BOOLEAN /\ post \in BOOLEAN
  /\ goto_idle_after_write \in BOOLEAN
  /\ channel \in Channels /\ latest_in_block \in Slots
  /\ latest \in [Channels -> Slots] /\ \A c \in Channels : latest[c] \in InMin(c) .. InMax(c)
  /\ at \in [i : 0 .. BLOCK_SIZE, chunk : 0 .. CHUNK_SIZE, chunk_prev : ChunkBins,
             ir : Slots, in : Slots, ir_addr : Int, in_addr : Int,
             chunk_pointer : 0 .. CHUNKS, chunk_addr : Int, cnt : ChunkBins,
             r : BOOLEAN]
  /\ base_addr \in Int /\ area \in Int
  /\ read_state \in {"IDLE", "GET_DATA", "OUTPUT_DATA"}
  /\ output_value \in {"idle", "busy"} /\ reply \in {"none", "idle", "busy"}
  /\ pc \in {"boot", "base_wait", "zero_all", "reset", "reset_wait", "block",
             "zero_acc", "set", "set_wait", "start", "run_wait", "read"}
  /\ side \in Channels /\ access \in 0 .. 2

DataTypes ==
  /\ operand \in [a : Int, b : Int, c : Int, d : Int]
  /\ alu \in [ac : Sums, bc : Sums, bd : Sums, ad : Sums,
              new_r : Sums, new_i : Sums, acc_r : Sums, acc_i : Sums]
  /\ array \in [r : [ChunkBins -> Sums], i : [ChunkBins -> Sums]]
  /\ sums \in [r : [Bins -> Sums], i : [Bins -> Sums]]
  /\ m \in Accesses /\ flight \in Accesses

(* Which blocks are selected: the input block is as many blocks older than *)
(* the newest one as the impulse response block is behind the first.       *)
Selected ==
  /\ state = "INIT" => latest_in_block = latest[channel]
  /\ state \in Walking =>
       /\ Age \in 0 .. BLOCK_NUM - 1 /\ at.in \in InMin(channel) .. InMax(channel)
       /\ state \notin Writing \/ ~goto_idle_after_write =>
            at.in = Commands!Older(channel, latest[channel], Age)

(* Which chunk and which bin are worked on.                                *)
Counted ==
  /\ state \notin Walking => at.chunk_pointer = 0
  /\ state = "RESET" => at.i \in ChunkBins
  /\ state = "GET_INIT" =>
       /\ pre /\ ~post /\ at.chunk_pointer < CHUNKS
       /\ at.i = CHUNK_SIZE * at.chunk_pointer
  /\ state \in Getting \cup Pipeline \cup Writing => at.chunk_pointer > 0
  /\ state \in Getting => pre /\ ~post /\ at.i = Start
  /\ state \in Pipeline =>
       /\ at.i = Start + at.chunk
       /\ IF pre THEN at.chunk = 0 ELSE at.chunk = at.chunk_prev + 1
       /\ IF post THEN at.chunk = CHUNK_SIZE ELSE at.chunk < CHUNK_SIZE
  /\ state = "NEXT_BLOCK" => at.i = BLOCK_SIZE /\ at.chunk_pointer = CHUNKS
  /\ state \in Writing =>
       /\ pre /\ ~post
       /\ \/ at.chunk_pointer < CHUNKS /\ at.i = CHUNK_SIZE * at.chunk_pointer
          \/ at.chunk_pointer = CHUNKS /\ at.i = 0

(* Accesses: none is open but where one is waited for, or what is left of  *)
(* a write when the board was reset.                                       *)
Quiet == m = NoAccess /\ flight = NoAccess
Waiting == \/ state \in {"A", "C", "D", "B"} /\ ~post
           \/ state \in {"GET_DATA", "WRITE_1_WAIT", "WRITE_2_WAIT"}

Requests ==
  /\ m.op \in Ops /\ (m.op = "none" => m = NoAccess)
  /\ flight.op \in Ops /\ (flight.op = "none" => flight = NoAccess)
  /\ m # NoAccess => flight = NoAccess
  /\ pc # "boot" /\ ~Waiting => Quiet

(* The program: where it has polled, the MAC is idle.                      *)
Resting == {"base_wait", "zero_all", "reset", "block", "zero_acc", "set", "start", "read"}

Polling ==
  /\ pc \in Resting => state = "IDLE"
  /\ pc = "boot" => state \in {"IDLE", "RESET"}
  /\ pc = "reset_wait" => state \in {"IDLE", "RESET"}
  /\ pc = "set_wait" => state \in {"IDLE", "SET_LEFT", "SET_RIGHT"}
  /\ pc = "run_wait" => state \in Running \cup {"IDLE"}
  /\ access # 0 => pc \in DOMAIN After

Replying ==
  /\ pc = "boot" =>
       \/ read_state = "IDLE"
       \/ state = "RESET" /\ at.i = 0
       \/ state = "RESET" /\ at.i = 1 /\ read_state = "OUTPUT_DATA"
  /\ pc # "boot" /\ access = 0 => read_state = "IDLE"
  /\ access = 1 => read_state = "GET_DATA"
  /\ access = 2 =>
       \/ /\ read_state = "OUTPUT_DATA" /\ reply = "none"
          /\ output_value = "idle" => state = "IDLE"
       \/ /\ read_state = "IDLE" /\ reply # "none"
          /\ reply = "idle" => state = "IDLE"

ControlInv == ControlTypes /\ Selected /\ Counted /\ Requests /\ Polling /\ Replying

-----------------------------------------------------------------------------
(* What the sums hold *)

PairOf(c, b, k) == [ir |-> IrMin(c) + k, in |-> Commands!Older(c, b, k)]
RealOf(c, b, e, n) == UNION { Real(PairOf(c, b, k), e) : k \in 0 .. n - 1 }
ImagOf(c, b, e, n) == UNION { Imag(PairOf(c, b, k), e) : k \in 0 .. n - 1 }

RealSum(e, n) == RealOf(channel, latest[channel], e, n)
ImagSum(e, n) == ImagOf(channel, latest[channel], e, n)

(* The four products of the bins whose words begin at x and y.             *)
AC(x, y) == Plus(x, y)
BD(x, y) == Minus(x + 1, y + 1)
AD(x, y) == Plus(x, y + 1)
BC(x, y) == Plus(x + 1, y)

IrWord(e) == BlockWord(at.ir, e, 0)
InWord(e) == BlockWord(at.in, e, 0)

(* The program has told the MAC where the area lies.                       *)
Based == pc # "boot" => base_addr = area

(* The addresses of the next words of the blocks and of the sums.          *)
Located ==
  /\ state \in {"GET_INIT"} \cup Getting \cup Pipeline
     \/ (state \in Writing /\ ~goto_idle_after_write) =>
       LET bin == IF state \in Pipeline /\ post THEN at.i - 1 ELSE at.i
       IN at.ir_addr = area + IrWord(bin) /\ at.in_addr = area + InWord(bin)
  /\ state \in {"GET_SET_ADDR", "GET_DATA"} \cup (Writing \ {"WRITE_INIT"}) =>
       at.chunk_addr = area + CHUNK_OFFSET + 2 * (Start + at.cnt)

Wanted ==
  CASE state = "A" -> at.ir_addr
    [] state = "C" -> at.in_addr
    [] state = "D" -> at.in_addr + 1
    [] state = "B" -> at.ir_addr + 1
    [] state = "GET_DATA" /\ at.r -> at.chunk_addr
    [] state = "GET_DATA" /\ ~at.r -> at.chunk_addr + 1
    [] state = "WRITE_1_WAIT" -> at.chunk_addr
    [] state = "WRITE_2_WAIT" -> at.chunk_addr + 1
    [] OTHER -> 0

Access ==
  CASE state = "WRITE_1_WAIT" -> [op |-> "write", addr |-> Wanted, data |-> array.r[at.cnt]]
    [] state = "WRITE_2_WAIT" -> [op |-> "write", addr |-> Wanted, data |-> array.i[at.cnt]]
    [] OTHER -> [op |-> "read", addr |-> Wanted, data |-> {}]

Asked ==
  /\ Waiting => m \in {NoAccess, Access} /\ flight \in {NoAccess, Access}
  /\ Waiting => m # NoAccess \/ flight # NoAccess
  /\ m.op = "write" => Written \in 0 .. 2 * BLOCK_SIZE - 1
  /\ damaged = {}

Old == at.i - 1

Fetched ==
  state \in Pipeline /\ ~post =>
    /\ state \in {"C", "D", "B"} => operand.a = IrWord(at.i)
    /\ state \in {"D", "B"} => operand.c = InWord(at.i)
    /\ state = "B" => operand.d = InWord(at.i) + 1
    /\ state = "B" => alu.ac = AC(IrWord(at.i), InWord(at.i))

Kept ==
  state \in Pipeline /\ ~pre =>
    /\ state \in {"A_ADDR", "A"} =>
         /\ operand.b = IrWord(Old) + 1
         /\ operand.c = InWord(Old) /\ operand.d = InWord(Old) + 1
    /\ state \in {"A_ADDR", "A", "C"} =>
         /\ alu.ac = AC(IrWord(Old), InWord(Old)) /\ alu.ad = AD(IrWord(Old), InWord(Old))
    /\ state = "C" =>
         /\ alu.bc = BC(IrWord(Old), InWord(Old)) /\ alu.bd = BD(IrWord(Old), InWord(Old))
    /\ state = "D" =>
         /\ alu.new_r = AC(IrWord(Old), InWord(Old)) \cup BD(IrWord(Old), InWord(Old))
         /\ alu.new_i = AD(IrWord(Old), InWord(Old)) \cup BC(IrWord(Old), InWord(Old))

Accumulated ==
  state \in Pipeline /\ ~pre =>
    /\ state \in {"C", "D"} => alu.acc_i = ImagSum(Old, Age)
    /\ state = "D" => alu.acc_r = RealSum(Old, Age)
    /\ state = "B" => alu.acc_r = RealSum(Old, Age + 1) /\ alu.acc_i = ImagSum(Old, Age + 1)

(* How many block pairs the sums contain that are written back.            *)
Full == IF at.i = 0 /\ ~goto_idle_after_write THEN Age ELSE Age + 1

(* The arrays.                                                             *)
Loaded ==
  /\ state \in Getting =>
       /\ \A j \in ChunkBins : state = "CHUNK_DONE" \/ j < at.cnt =>
            array.r[j] = RealSum(Start + j, Age) /\ array.i[j] = ImagSum(Start + j, Age)
       /\ state # "CHUNK_DONE" /\ ~at.r => array.r[at.cnt] = RealSum(Start + at.cnt, Age)
  /\ state \in Pipeline =>
       \A j \in ChunkBins :
         LET n == IF ~pre /\ j < at.chunk_prev THEN Age + 1 ELSE Age
         IN array.r[j] = RealSum(Start + j, n) /\ array.i[j] = ImagSum(Start + j, n)
  /\ state = "NEXT_BLOCK" =>
       \A j \in ChunkBins : /\ array.r[j] = RealSum(Start + j, Age + 1)
                            /\ array.i[j] = ImagSum(Start + j, Age + 1)
  /\ state \in Writing =>
       \A j \in ChunkBins : /\ array.r[j] = RealSum(Start + j, Full)
                            /\ array.i[j] = ImagSum(Start + j, Full)

(* The block of sums in the SDRAM.                                         *)
WrittenTo == IF state = "WRITE_INIT" THEN Start ELSE Start + at.cnt
RealOut == state \in {"WRITE_2", "WRITE_2_WAIT"} \/ (state = "WRITE_1_WAIT" /\ m = NoAccess)
ImagOut == state = "WRITE_2_WAIT" /\ m = NoAccess

Zeroed ==
  pc \in {"reset", "set", "set_wait", "start"} \/ state \in {"SELECT", "INIT"} =>
    sums = ZeroSums

Stored ==
  /\ state \in {"GET_INIT", "NEXT_BLOCK"} \cup Getting \cup Pipeline =>
       \A e \in Bins :
         LET first == IF state = "GET_INIT" THEN CHUNK_SIZE * at.chunk_pointer ELSE Start
             n == IF e < first THEN Age + 1 ELSE Age
         IN sums.r[e] = RealSum(e, n) /\ sums.i[e] = ImagSum(e, n)
  /\ state \in Writing =>
       /\ \A e \in Bins : e < WrittenTo
            \/ (e = WrittenTo /\ RealOut) => sums.r[e] = RealSum(e, Full)
       /\ \A e \in Bins : e < WrittenTo
            \/ (e = WrittenTo /\ ImagOut) => sums.i[e] = ImagSum(e, Full)
       /\ \A e \in Bins : e >= Start + CHUNK_SIZE =>
            sums.r[e] = RealSum(e, Full - 1) /\ sums.i[e] = ImagSum(e, Full - 1)

LastBlock ==
  goto_idle_after_write => state \in Writing /\ at.i = 0 /\ Age = BLOCK_NUM - 1

Complete ==
  \A e \in Bins : sums.r[e] = RealSum(e, BLOCK_NUM) /\ sums.i[e] = ImagSum(e, BLOCK_NUM)

Reading ==
  /\ pc \in {"start", "run_wait", "read"} \/ (pc = "set_wait" /\ state = "IDLE") =>
       channel = side
  /\ pc = "set_wait" /\ state = "SET_LEFT" => side = 1
  /\ pc = "set_wait" /\ state = "SET_RIGHT" => side = 2
  /\ pc = "read" \/ (pc = "run_wait" /\ state = "IDLE") => Complete

PipelineInv == Based /\ Zeroed /\ Located /\ Asked /\ Fetched /\ Kept /\ Accumulated
    /\ Loaded /\ Stored /\ LastBlock
SumInv == ControlInv /\ DataTypes /\ PipelineInv /\ Reading

-----------------------------------------------------------------------------
(* Chunks and rings                                                        *)

LEMMA Sizes ==
  /\ CHUNK_SIZE \in Nat /\ CHUNK_SIZE >= 2 /\ BLOCK_SIZE \in Nat /\ BLOCK_SIZE > CHUNK_SIZE
  /\ BLOCK_NUM \in Nat /\ BLOCK_NUM >= 2
  /\ CHUNKS \in Nat /\ CHUNK_SIZE * CHUNKS = BLOCK_SIZE /\ CHUNKS > 0
<1>1. /\ CHUNK_SIZE \in Nat \ {0} /\ CHUNK_SIZE >= 2 /\ BLOCK_SIZE \in Nat
      /\ BLOCK_SIZE > CHUNK_SIZE /\ BLOCK_NUM \in Nat /\ BLOCK_NUM >= 2
      /\ BLOCK_SIZE % CHUNK_SIZE = 0
  BY BodyMacAssumption
<1>2. \A n \in Nat, d \in Nat : d > 0 /\ n % d = 0 => n = d * (n \div d) /\ n \div d \in Nat
  BY Z3T(20)
<1>3. CHUNKS \in Nat /\ BLOCK_SIZE = CHUNK_SIZE * CHUNKS
  BY <1>1, <1>2 DEF CHUNKS
<1>4. CHUNKS # 0
  <2>1. CHUNKS = 0 => CHUNK_SIZE * CHUNKS = 0
    BY <1>1
  <2> QED BY <1>1, <1>3, <2>1
<1> QED BY <1>1, <1>3, <1>4

(* The chunk at p ends where the next one begins, inside the block.        *)
LEMMA ChunkPlaces ==
  ASSUME NEW p \in 1 .. CHUNKS
  PROVE  /\ CHUNK_SIZE * (p - 1) \in Nat /\ CHUNK_SIZE * p \in Nat
         /\ CHUNK_SIZE * p = CHUNK_SIZE * (p - 1) + CHUNK_SIZE
         /\ CHUNK_SIZE * p <= BLOCK_SIZE
         /\ p < CHUNKS => CHUNK_SIZE * p + CHUNK_SIZE <= BLOCK_SIZE
         /\ p = CHUNKS => CHUNK_SIZE * p = BLOCK_SIZE
         /\ CHUNK_SIZE * 0 = 0
<1>1. /\ CHUNK_SIZE \in Nat /\ CHUNKS \in Nat /\ p \in Nat /\ p - 1 \in Nat /\ p <= CHUNKS
      /\ CHUNK_SIZE * CHUNKS = BLOCK_SIZE
  BY Sizes
<1>2. PICK d \in Nat : CHUNKS = p + d
  <2>1. CHUNKS - p \in Nat /\ CHUNKS = p + (CHUNKS - p)
    BY <1>1
  <2> QED BY <2>1
<1>3. /\ CHUNK_SIZE * (p - 1) \in Nat /\ CHUNK_SIZE * p \in Nat /\ CHUNK_SIZE * d \in Nat
      /\ CHUNK_SIZE * p = CHUNK_SIZE * (p - 1) + CHUNK_SIZE
  BY <1>1
<1>4. BLOCK_SIZE = CHUNK_SIZE * p + CHUNK_SIZE * d
  BY <1>1, <1>2
<1>5. p < CHUNKS => CHUNK_SIZE * d >= CHUNK_SIZE
  <2> SUFFICES ASSUME p < CHUNKS PROVE CHUNK_SIZE * d >= CHUNK_SIZE
    OBVIOUS
  <2>1. d - 1 \in Nat /\ d = (d - 1) + 1
    BY <1>1, <1>2
  <2>2. CHUNK_SIZE * d = CHUNK_SIZE * (d - 1) + CHUNK_SIZE /\ CHUNK_SIZE * (d - 1) \in Nat
    BY <1>1, <2>1
  <2> QED BY <1>1, <1>3, <2>2
<1>6. CHUNK_SIZE * 0 = 0
  BY <1>1
<1>7. p = CHUNKS => CHUNK_SIZE * p = BLOCK_SIZE
  BY <1>1
<1>8. CHUNK_SIZE * p <= BLOCK_SIZE /\ (p < CHUNKS => CHUNK_SIZE * p + CHUNK_SIZE <= BLOCK_SIZE)
  <2> DEFINE x == CHUNK_SIZE * p
             y == CHUNK_SIZE * d
  <2> HIDE DEF x, y
  <2>1. x \in Nat /\ y \in Nat /\ BLOCK_SIZE = x + y /\ (p < CHUNKS => y >= CHUNK_SIZE)
    BY <1>3, <1>4, <1>5 DEF x, y
  <2>2. x <= BLOCK_SIZE /\ (p < CHUNKS => x + CHUNK_SIZE <= BLOCK_SIZE)
    BY <2>1, <1>1
  <2> QED BY <2>2 DEF x
<1> QED BY <1>3, <1>6, <1>7, <1>8

LEMMA RingTypes ==
  ASSUME NEW c \in Channels
  PROVE  /\ InMin(c) .. InMax(c) \subseteq Slots /\ IrMin(c) .. IrMax(c) \subseteq Slots
         /\ InMax(c) - 1 \in InMin(c) .. InMax(c)
         /\ InMin(c) \in Int /\ InMax(c) = InMin(c) + BLOCK_NUM - 1
         /\ IrMin(c) \in Int /\ IrMax(c) = IrMin(c) + BLOCK_NUM - 1
         /\ IrMin(c) \in Slots
  BY BodyMacAssumption DEF Channels, InMin, InMax, IrMin, IrMax, Slots

LEMMA OlderBlocks ==
  ASSUME NEW c \in Channels, NEW b \in InMin(c) .. InMax(c), NEW k \in 0 .. BLOCK_NUM - 1
  PROVE  /\ Commands!Older(c, b, k) \in InMin(c) .. InMax(c)
         /\ Commands!Older(c, b, 0) = b
         /\ k < BLOCK_NUM - 1 =>
              Commands!Older(c, b, k + 1) =
                IF Commands!Older(c, b, k) = InMin(c) THEN InMax(c)
                ELSE Commands!Older(c, b, k) - 1
<1>1. Commands!Older(c, b, k) = IF b - k < InMin(c) THEN b - k + BLOCK_NUM ELSE b - k
  BY DEF Commands!Older, Commands!FirstIn, InMin
<1>2. Commands!Older(c, b, 0) = IF b - 0 < InMin(c) THEN b - 0 + BLOCK_NUM ELSE b - 0
  BY DEF Commands!Older, Commands!FirstIn, InMin
<1>3. Commands!Older(c, b, k + 1) =
        IF b - (k + 1) < InMin(c) THEN b - (k + 1) + BLOCK_NUM ELSE b - (k + 1)
  BY DEF Commands!Older, Commands!FirstIn, InMin
<1>4. /\ InMin(c) \in Int /\ InMax(c) = InMin(c) + BLOCK_NUM - 1 /\ BLOCK_NUM \in Nat
  BY RingTypes, Sizes
<1> HIDE DEF InMin, InMax
<1> QED BY <1>1, <1>2, <1>3, <1>4

LEMMA NextNewest ==
  ASSUME NEW d \in Channels, NEW b \in InMin(d) .. InMax(d)
  PROVE  /\ NextIn(d, b) \in InMin(d) .. InMax(d) /\ Before(d, b) \in InMin(d) .. InMax(d)
         /\ Before(d, NextIn(d, b)) = b /\ NextIn(d, Before(d, b)) = b
<1>1. InMin(d) \in Int /\ InMax(d) = InMin(d) + BLOCK_NUM - 1 /\ BLOCK_NUM \in Nat /\ BLOCK_NUM >= 2
  BY RingTypes, Sizes
<1> HIDE DEF InMin, InMax
<1> QED BY <1>1 DEF NextIn, Before

-----------------------------------------------------------------------------
(* The steps of the MAC                                                    *)

CommandWords == {"none", "BASE", "RESET", "SET_LEFT", "SET_RIGHT", "SELECT"}
Inputs == [command : CommandWords, wait : BOOLEAN, valid : BOOLEAN]

AtTypes == [i : 0 .. BLOCK_SIZE, chunk : 0 .. CHUNK_SIZE, chunk_prev : ChunkBins,
            ir : Slots, in : Slots, ir_addr : Int, in_addr : Int,
            chunk_pointer : 0 .. CHUNKS, chunk_addr : Int, cnt : ChunkBins,
            r : BOOLEAN]

LEMMA BaseTypes ==
  ASSUME NEW block \in Nat
  PROVE  Base(block) \in Nat
  BY Sizes DEF Base

(* Where the bins of a chunk lie.                                          *)
LEMMA ChunkFacts ==
  ASSUME ControlTypes, Counted, state \in Getting \cup Pipeline \cup Writing
  PROVE  /\ at.chunk_pointer \in 1 .. CHUNKS /\ Start \in Nat
         /\ Start + CHUNK_SIZE = CHUNK_SIZE * at.chunk_pointer
         /\ Start + CHUNK_SIZE <= BLOCK_SIZE
         /\ at.chunk_pointer < CHUNKS => Start + CHUNK_SIZE + CHUNK_SIZE <= BLOCK_SIZE
         /\ at.chunk_pointer = CHUNKS => Start + CHUNK_SIZE = BLOCK_SIZE
<1>1. at.chunk_pointer \in 1 .. CHUNKS
  BY Sizes DEF ControlTypes, Counted
<1> DEFINE p == at.chunk_pointer
           x == CHUNK_SIZE * (p - 1)
           y == CHUNK_SIZE * p
<1>2. /\ x \in Nat /\ y \in Nat /\ y = x + CHUNK_SIZE /\ y <= BLOCK_SIZE
      /\ p < CHUNKS => y + CHUNK_SIZE <= BLOCK_SIZE
      /\ p = CHUNKS => y = BLOCK_SIZE
  BY <1>1, ChunkPlaces
<1>3. x + CHUNK_SIZE = y
  <2> HIDE DEF x, y
  <2> QED BY <1>2, Sizes
<1> HIDE DEF x, y
<1> QED BY <1>1, <1>2, <1>3, Sizes DEF Start, x, y

(* What follows the last word of a bin.                                    *)
LEMMA AfterBinCases ==
  ASSUME ControlTypes, Counted, state = "B", AfterBin
  PROVE  \/ /\ ~post /\ at.chunk = CHUNK_SIZE - 1
            /\ state' = "A_ADDR" /\ post' = TRUE /\ pre' = FALSE /\ at' = NextBinOf(at)
         \/ /\ post /\ at.chunk_pointer = CHUNKS /\ at.i = BLOCK_SIZE
            /\ state' = "NEXT_BLOCK" /\ pre' = FALSE /\ UNCHANGED <<post, at>>
         \/ /\ post /\ at.chunk_pointer < CHUNKS /\ at.i = CHUNK_SIZE * at.chunk_pointer
            /\ state' = "WRITE_INIT" /\ pre' = TRUE /\ post' = FALSE
            /\ at' = NextAddressOf(at)
         \/ /\ ~post /\ at.chunk < CHUNK_SIZE - 1
            /\ state' = "A_ADDR" /\ pre' = FALSE /\ UNCHANGED post
            /\ at' = NextAddressOf(NextBinOf(at))
<1>1. /\ at.chunk_pointer \in 1 .. CHUNKS /\ Start \in Nat
      /\ Start + CHUNK_SIZE = CHUNK_SIZE * at.chunk_pointer
      /\ Start + CHUNK_SIZE <= BLOCK_SIZE
      /\ at.chunk_pointer < CHUNKS => Start + CHUNK_SIZE + CHUNK_SIZE <= BLOCK_SIZE
      /\ at.chunk_pointer = CHUNKS => Start + CHUNK_SIZE = BLOCK_SIZE
  BY ChunkFacts DEF Pipeline
<1>2. /\ at.i = Start + at.chunk /\ at.chunk \in 0 .. CHUNK_SIZE
      /\ IF post THEN at.chunk = CHUNK_SIZE ELSE at.chunk < CHUNK_SIZE
  BY DEF Counted, Pipeline, ControlTypes
<1>3. LastOfChunk <=> ~post /\ at.chunk = CHUNK_SIZE - 1
  <2> DEFINE x == CHUNK_SIZE * at.chunk_pointer
  <2>1. x = Start + CHUNK_SIZE
    BY <1>1
  <2> HIDE DEF x, Start
  <2>2. at.i = BLOCK_SIZE - 1 \/ at.i = x - 1 <=> ~post /\ at.chunk = CHUNK_SIZE - 1
    <3>1. at.chunk_pointer < CHUNKS \/ at.chunk_pointer = CHUNKS
      BY <1>1, Sizes
    <3>2. CASE post
      BY <1>1, <1>2, <2>1, <3>1, <3>2, Sizes
    <3>3. CASE ~post
      BY <1>1, <1>2, <2>1, <3>1, <3>3, Sizes
    <3> QED BY <3>2, <3>3
  <2> QED BY <2>2 DEF LastOfChunk, x
<1>4. /\ at.i = CHUNK_SIZE * at.chunk_pointer <=> post
      /\ at.i = BLOCK_SIZE <=> post /\ at.chunk_pointer = CHUNKS
  <2> DEFINE x == CHUNK_SIZE * at.chunk_pointer
  <2>1. x = Start + CHUNK_SIZE
    BY <1>1
  <2> HIDE DEF x, Start
  <2>2. at.chunk_pointer < CHUNKS \/ at.chunk_pointer = CHUNKS
    BY <1>1, Sizes
  <2>3. at.i = x <=> post
    BY <1>1, <1>2, <2>1, Sizes
  <2>4. at.i = BLOCK_SIZE <=> post /\ at.chunk_pointer = CHUNKS
    BY <1>1, <1>2, <2>2, Sizes
  <2> QED BY <2>3, <2>4 DEF x
<1>5. ~post /\ at.chunk # CHUNK_SIZE - 1 => at.chunk < CHUNK_SIZE - 1
  BY <1>2, Sizes
<1>6. at.chunk_pointer # CHUNKS => at.chunk_pointer < CHUNKS
  BY <1>1, Sizes
<1>7. post \in BOOLEAN
  BY DEF ControlTypes
<1> HIDE DEF LastOfChunk, Start
<1>8. CASE LastOfChunk
  BY <1>8, <1>3 DEF AfterBin
<1>9. CASE ~LastOfChunk /\ at.i = BLOCK_SIZE
  BY <1>9, <1>4 DEF AfterBin
<1>10. CASE ~LastOfChunk /\ at.i # BLOCK_SIZE /\ at.i = CHUNK_SIZE * at.chunk_pointer
  BY <1>10, <1>4, <1>6 DEF AfterBin
<1>11. CASE ~LastOfChunk /\ at.i # BLOCK_SIZE /\ at.i # CHUNK_SIZE * at.chunk_pointer
  BY <1>11, <1>3, <1>4, <1>5, <1>7 DEF AfterBin
<1> QED BY <1>8, <1>9, <1>10, <1>11

(* Rings, channel and base address.                                        *)
LEMMA RingStep ==
  ASSUME ControlTypes, NEW in, Main(in), area' \in Int
  PROVE  /\ channel' \in Channels /\ latest_in_block' \in Slots /\ base_addr' \in Int
         /\ latest' \in [Channels -> Slots]
         /\ \A c \in Channels : latest'[c] \in InMin(c) .. InMax(c)
<1>1. CASE UNCHANGED ringVars
  BY <1>1 DEF ControlTypes, ringVars
<1>2. CASE Listen(in)
  BY <1>2 DEF Listen, ControlTypes
<1>3. CASE Reset(in)
  <2>1. latest' = ResetLatest \/ UNCHANGED latest
    BY <1>3 DEF Reset
  <2>2. latest' \in [Channels -> Slots] /\ \A c \in Channels : latest'[c] \in InMin(c) .. InMax(c)
    <3>1. \A c \in Channels : ResetLatest[c] \in InMin(c) .. InMax(c) /\ ResetLatest[c] \in Slots
      BY RingTypes DEF ResetLatest
    <3>2. ResetLatest \in [Channels -> Slots]
      BY <3>1 DEF ResetLatest
    <3> HIDE DEF ResetLatest, InMin, InMax
    <3> QED BY <2>1, <3>1, <3>2 DEF ControlTypes
  <2> QED BY <1>3, <2>2 DEF Reset, ControlTypes
<1>4. CASE SetChannel(in)
  BY <1>4 DEF SetChannel, ControlTypes, Channels
<1>5. CASE Select(in)
  <2> DEFINE b == NextIn(channel, latest[channel])
  <2>1. b \in InMin(channel) .. InMax(channel) /\ b \in Slots /\ channel \in Channels
    BY NextNewest, RingTypes DEF ControlTypes
  <2>2. latest' = [latest EXCEPT ![channel] = b] /\ latest_in_block' = latest'[channel]
    BY <1>5 DEF Select
  <2> HIDE DEF b, InMin, InMax
  <2>3. latest' \in [Channels -> Slots] /\ \A c \in Channels : latest'[c] \in InMin(c) .. InMax(c)
    BY <2>1, <2>2 DEF ControlTypes
  <2> QED BY <1>5, <2>1, <2>2, <2>3 DEF Select, ControlTypes
<1> QED BY <1>1, <1>2, <1>3, <1>4, <1>5
        DEF Main, MacInit, AskA, Wait, FetchA, FetchC, FetchD, Fetch, FetchB, NextBlock,
            WriteInit, WriteSum, RealWritten, BinWritten, GetInit, AskSum, GetSum,
            ChunkDone, ringVars

LEMMA FlagStep ==
  ASSUME ControlTypes, Counted, NEW in, in.command \in CommandWords, Main(in)
  PROVE  /\ state' \in States /\ pre' \in BOOLEAN /\ post' \in BOOLEAN
         /\ goto_idle_after_write' \in BOOLEAN
<1>1. CASE FetchB(in)
  <2>1. state = "B" /\ AfterBin /\ goto_idle_after_write' = goto_idle_after_write
    BY <1>1 DEF FetchB
  <2> QED BY <2>1, AfterBinCases DEF ControlTypes, States, Running
<1>2. CASE Listen(in) \/ Reset(in) \/ SetChannel(in) \/ Select(in) \/ MacInit(in) \/ AskA(in)
           \/ Wait(in) \/ FetchA(in) \/ FetchC(in) \/ FetchD(in)
  BY <1>2 DEF ControlTypes, States, Running, CommandWords, Listen, Reset, SetChannel, Select,
              MacInit, AskA, Wait, FetchA, FetchC, FetchD, Fetch, fsmVars
<1>3. CASE NextBlock(in) \/ WriteInit(in) \/ WriteSum(in) \/ RealWritten(in) \/ BinWritten(in)
           \/ GetInit(in) \/ AskSum(in) \/ GetSum(in) \/ ChunkDone(in)
  BY <1>3 DEF ControlTypes, States, Running, NextBlock, WriteInit, WriteSum, RealWritten,
              BinWritten, GetInit, AskSum, GetSum, ChunkDone
<1> QED BY <1>1, <1>2, <1>3 DEF Main

LEMMA CounterStep ==
  ASSUME ControlTypes, Selected, Counted, NEW in, Main(in)
  PROVE  at' \in AtTypes
<1>1. /\ at \in AtTypes /\ channel \in Channels /\ base_addr \in Int /\ latest_in_block \in Slots
  BY DEF ControlTypes, AtTypes
<1>2. /\ 0 \in 0 .. BLOCK_SIZE /\ 0 \in 0 .. CHUNK_SIZE /\ 0 \in ChunkBins /\ 0 \in 0 .. CHUNKS
      /\ \A n \in ChunkBins : n # CHUNK_SIZE - 1 => n + 1 \in ChunkBins
      /\ \A n \in ChunkBins : n + 1 \in 0 .. BLOCK_SIZE
  BY Sizes DEF ChunkBins
<1>3. \A b \in Slots : Base(b) \in Int
  BY BaseTypes DEF Slots
<1>4. CASE UNCHANGED at
  BY <1>1, <1>4
<1>5. CASE Listen(in) \/ Reset(in)
  BY <1>1, <1>2, <1>5 DEF Listen, Reset, Counted, AtTypes
<1>6. CASE MacInit(in)
  <2> DEFINE x == base_addr + Base(IrMin(channel))
             y == base_addr + Base(latest_in_block)
             ir == IrMin(channel)
  <2>1. ir \in Slots /\ x \in Int /\ y \in Int
    BY <1>1, <1>3, RingTypes
  <2>2. at' = [at EXCEPT !.i = 0, !.chunk = 0, !.chunk_prev = 0, !.in = latest_in_block,
                 !.ir = ir, !.chunk_pointer = 0, !.ir_addr = x, !.in_addr = y]
    BY <1>6 DEF MacInit
  <2> HIDE DEF ir, x, y
  <2> QED BY <1>1, <1>2, <2>1, <2>2 DEF AtTypes
<1>7. CASE FetchB(in)
  <2>1. state = "B" /\ AfterBin
    BY <1>7 DEF FetchB
  <2>2. /\ at.i = Start + at.chunk /\ Start \in Nat /\ Start + CHUNK_SIZE <= BLOCK_SIZE
        /\ at.chunk \in 0 .. CHUNK_SIZE
        /\ IF post THEN at.chunk = CHUNK_SIZE ELSE at.chunk < CHUNK_SIZE
    BY <2>1, ChunkFacts DEF Counted, Pipeline, ControlTypes
  <2>3. ~post => at.i + 1 \in 0 .. BLOCK_SIZE /\ at.chunk \in ChunkBins
            /\ at.chunk + 1 \in 0 .. CHUNK_SIZE
    <3> HIDE DEF Start
    <3> QED BY <2>2, Sizes DEF ChunkBins
  <2>4. at.ir_addr + 2 \in Int /\ at.in_addr + 2 \in Int
    BY <1>1 DEF AtTypes
  <2>5. ~post => NextBinOf(at) \in AtTypes
    BY <1>1, <2>3 DEF NextBinOf, AtTypes
  <2>6. NextAddressOf(at) \in AtTypes
    BY <1>1, <2>4 DEF NextAddressOf, AtTypes
  <2>7. ~post => NextAddressOf(NextBinOf(at)) \in AtTypes
    <3> DEFINE x == NextBinOf(at)
    <3>1. ~post => x \in AtTypes
      BY <2>5
    <3> HIDE DEF x
    <3>2. ~post => x.ir_addr + 2 \in Int /\ x.in_addr + 2 \in Int
      BY <3>1 DEF AtTypes
    <3>3. ~post => NextAddressOf(x) \in AtTypes
      BY <3>1, <3>2 DEF NextAddressOf, AtTypes
    <3> QED BY <3>3 DEF x
  <2> QED BY <1>1, <2>1, <2>5, <2>6, <2>7, AfterBinCases
<1>8. CASE NextBlock(in)
  <2>1. /\ Age \in 0 .. BLOCK_NUM - 1 /\ at.in \in InMin(channel) .. InMax(channel)
    BY <1>8 DEF NextBlock, Selected, Walking, Running
  <2> DEFINE ir == IF at.ir = IrMax(channel) THEN at.ir ELSE at.ir + 1
             back == IF at.in = InMin(channel) THEN InMax(channel) ELSE at.in - 1
  <2>2. ir \in Slots
    <3>1. at.ir \in IrMin(channel) .. IrMax(channel)
      BY <1>1, <2>1, RingTypes, Sizes DEF Age, AtTypes, Slots
    <3>2. IrMin(channel) .. IrMax(channel) \subseteq Slots /\ IrMin(channel) \in Int
              /\ IrMax(channel) \in Int
      BY <1>1, RingTypes, Sizes
    <3> HIDE DEF IrMin, IrMax, Slots
    <3>3. at.ir # IrMax(channel) => at.ir + 1 \in IrMin(channel) .. IrMax(channel)
      BY <3>1, <3>2
    <3> QED BY <3>1, <3>2, <3>3
  <2>3. back \in Slots
    <3>1. InMin(channel) .. InMax(channel) \subseteq Slots /\ InMin(channel) \in Int
              /\ InMax(channel) \in Int
          /\ InMax(channel) \in InMin(channel) .. InMax(channel)
      BY <1>1, RingTypes, Sizes
    <3> HIDE DEF InMin, InMax, Slots
    <3>3. at.in # InMin(channel) => at.in - 1 \in InMin(channel) .. InMax(channel)
      BY <2>1, <3>1
    <3> QED BY <2>1, <3>1, <3>3
  <2> DEFINE x == base_addr + Base(ir)
             y == base_addr + Base(back)
  <2>4. x \in Int /\ y \in Int
    BY <1>1, <1>3, <2>2, <2>3
  <2>5. at' = [at EXCEPT !.ir = ir, !.in = back, !.i = 0, !.chunk = 0,
                 !.chunk_prev = 0, !.ir_addr = x, !.in_addr = y]
    BY <1>8 DEF NextBlock
  <2> HIDE DEF ir, back, x, y
  <2> QED BY <1>1, <1>2, <2>2, <2>3, <2>4, <2>5 DEF AtTypes
<1>9. CASE WriteInit(in)
  <2>1. base_addr + ChunkBase(at.chunk_pointer - 1) \in Int
    BY <1>1, BaseTypes, Sizes DEF ChunkBase, CHUNK_OFFSET, AtTypes
  <2> HIDE DEF ChunkBase
  <2> QED BY <1>1, <1>2, <1>9, <2>1 DEF WriteInit, AtTypes
<1>10. CASE BinWritten(in)
  <2>1. at.cnt # CHUNK_SIZE - 1 => at.cnt + 1 \in ChunkBins
    BY <1>1, <1>2 DEF AtTypes
  <2>2. at.chunk_addr + 2 \in Int
    BY <1>1 DEF AtTypes
  <2> QED BY <1>1, <1>2, <1>10, <2>1, <2>2 DEF BinWritten, PointerAfter, AtTypes
<1>11. CASE GetInit(in)
  <2>1. base_addr + ChunkBase(at.chunk_pointer) \in Int
    BY <1>1, BaseTypes, Sizes DEF ChunkBase, CHUNK_OFFSET, AtTypes
  <2>2. at.chunk_pointer + 1 \in 0 .. CHUNKS
    BY <1>1, <1>11, Sizes DEF GetInit, Counted, AtTypes
  <2> HIDE DEF ChunkBase
  <2> QED BY <1>1, <1>2, <1>11, <2>1, <2>2 DEF GetInit, AtTypes
<1>12. CASE GetSum(in)
  <2>1. at.cnt # CHUNK_SIZE - 1 => at.cnt + 1 \in ChunkBins
    BY <1>1, <1>2 DEF AtTypes
  <2>2. at.chunk_addr + 2 \in Int
    BY <1>1 DEF AtTypes
  <2> QED BY <1>1, <1>2, <1>12, <2>1, <2>2 DEF GetSum, AtTypes
<1>13. CASE ChunkDone(in)
  BY <1>1, <1>2, <1>13 DEF ChunkDone, AtTypes
<1> QED BY <1>4, <1>5, <1>6, <1>7, <1>8, <1>9, <1>10, <1>11, <1>12, <1>13
        DEF Main, SetChannel, Select, AskA, Wait, FetchA, FetchC, FetchD, Fetch, WriteSum,
            RealWritten, AskSum

(* The input ring is walked backwards in step with the impulse response.   *)
LEMMA WalkBack ==
  ASSUME ControlTypes, Selected, NEW in, NextBlock(in)
  PROVE  /\ Age' \in 0 .. BLOCK_NUM - 1 /\ at'.in \in InMin(channel) .. InMax(channel)
         /\ ~goto_idle_after_write' =>
              /\ Age' = Age + 1
              /\ at'.in = Commands!Older(channel, latest[channel], Age')
         /\ goto_idle_after_write' /\ ~goto_idle_after_write =>
              Age' = Age /\ Age = BLOCK_NUM - 1
<1>1. /\ Age \in 0 .. BLOCK_NUM - 1 /\ at.in \in InMin(channel) .. InMax(channel)
      /\ channel \in Channels /\ latest[channel] \in InMin(channel) .. InMax(channel)
      /\ at.in = Commands!Older(channel, latest[channel], Age) /\ at.ir \in Nat
  BY DEF NextBlock, Selected, Walking, Running, Writing, ControlTypes, Slots
<1>2. /\ InMin(channel) \in Int /\ InMax(channel) = InMin(channel) + BLOCK_NUM - 1
      /\ IrMin(channel) \in Int /\ IrMax(channel) = IrMin(channel) + BLOCK_NUM - 1
      /\ BLOCK_NUM \in Nat
  BY <1>1, RingTypes, Sizes
<1> DEFINE last == at.ir = IrMax(channel)
           ir == IF last THEN at.ir ELSE at.ir + 1
           back == IF at.in = InMin(channel) THEN InMax(channel) ELSE at.in - 1
<1>3. /\ at'.ir = ir /\ at'.in = back /\ goto_idle_after_write' = (last \/ goto_idle_after_write)
      /\ UNCHANGED <<channel, latest>>
  BY DEF NextBlock, ringVars, ControlTypes
<1>4. Age' = at'.ir - IrMin(channel)
  BY <1>3 DEF Age
<1>5. back \in InMin(channel) .. InMax(channel)
  <2> HIDE DEF InMin, InMax
  <2> QED BY <1>1, <1>2
<1>6. last <=> Age = BLOCK_NUM - 1
  <2> HIDE DEF IrMin, IrMax
  <2> QED BY <1>1, <1>2 DEF Age
<1>7. IF last THEN Age' = Age ELSE Age' = Age + 1
  <2> HIDE DEF IrMin, IrMax
  <2> QED BY <1>1, <1>2, <1>3, <1>4 DEF Age
<1>8. Age' \in 0 .. BLOCK_NUM - 1
  <2> HIDE DEF last, Age
  <2>1. Age' = Age \/ (Age' = Age + 1 /\ Age # BLOCK_NUM - 1)
    BY <1>6, <1>7
  <2> QED BY <1>1, <1>2, <2>1
<1>9. ~last => back = Commands!Older(channel, latest[channel], Age + 1)
  <2>1. ~last => Age < BLOCK_NUM - 1
    <3> HIDE DEF last, Age
    <3> QED BY <1>1, <1>2, <1>6
  <2> HIDE DEF last, Age
  <2> QED BY <1>1, <2>1, OlderBlocks
<1> HIDE DEF last, back, ir, Age
<1> QED BY <1>3, <1>5, <1>6, <1>7, <1>8, <1>9

LEMMA SelectedStep ==
  ASSUME ControlTypes, Selected, Counted, NEW in, in.command \in CommandWords, Main(in)
  PROVE  Selected'
<1> USE DEF Walking, Running, Writing
<1>1. CASE Select(in)
  BY <1>1 DEF Select, Selected
<1>2. CASE MacInit(in)
  <2>1. /\ channel \in Channels /\ latest[channel] \in InMin(channel) .. InMax(channel)
        /\ latest_in_block = latest[channel] /\ IrMin(channel) \in Int
        /\ 0 \in 0 .. BLOCK_NUM - 1
    BY <1>2, RingTypes, Sizes DEF MacInit, ControlTypes, Selected
  <2>2. /\ state' = "GET_INIT" /\ at'.in = latest[channel] /\ at'.ir = IrMin(channel)
        /\ UNCHANGED <<channel, latest, latest_in_block>>
    BY <1>2, <2>1 DEF MacInit, ControlTypes, ringVars
  <2>3. Age' = 0
    <3>1. Age' = IrMin(channel) - IrMin(channel)
      BY <2>2 DEF Age
    <3> HIDE DEF IrMin, Age
    <3> QED BY <2>1, <3>1
  <2>4. Commands!Older(channel, latest[channel], 0) = latest[channel]
    BY <2>1, OlderBlocks
  <2> HIDE DEF Age, InMin, InMax
  <2> QED BY <2>1, <2>2, <2>3, <2>4 DEF Selected
<1>3. CASE NextBlock(in)
  <2>1. state' = "WRITE_INIT" /\ UNCHANGED <<channel, latest>>
    BY <1>3 DEF NextBlock, ringVars
  <2> HIDE DEF Age
  <2> QED BY <1>3, <2>1, WalkBack DEF Selected
<1>4. CASE Listen(in) \/ Reset(in) \/ SetChannel(in)
  BY <1>4 DEF Listen, Reset, SetChannel, CommandWords, Selected
<1>5. ASSUME UNCHANGED <<channel, latest, latest_in_block, at.ir, at.in>>, state \in Walking,
             state' # "INIT",
             state' \in Writing /\ state \in Writing =>
                 goto_idle_after_write' = goto_idle_after_write,
             state' \in Walking \ Writing /\ state \in Writing => ~goto_idle_after_write
      PROVE  Selected'
  <2>1. Age' = Age
    BY <1>5 DEF Age
  <2> HIDE DEF Age
  <2> QED BY <1>5, <2>1 DEF Selected
<1>6. CASE FetchB(in)
  <2>1. /\ state = "B" /\ state' \in {"A_ADDR", "NEXT_BLOCK", "WRITE_INIT"} /\ UNCHANGED ringVars
        /\ at' \in {at, NextBinOf(at), NextAddressOf(at), NextAddressOf(NextBinOf(at))}
    BY <1>6, AfterBinCases DEF FetchB
  <2>2. at'.ir = at.ir /\ at'.in = at.in
    BY <2>1 DEF NextBinOf, NextAddressOf, ControlTypes
  <2> QED BY <1>5, <2>1, <2>2 DEF ringVars
<1>7. CASE AskA(in) \/ Wait(in) \/ FetchA(in) \/ FetchC(in) \/ FetchD(in)
  BY <1>5, <1>7 DEF AskA, Wait, FetchA, FetchC, FetchD, Fetch, ringVars, fsmVars
<1>8. CASE WriteInit(in) \/ WriteSum(in) \/ RealWritten(in) \/ AskSum(in) \/ GetInit(in)
  BY <1>5, <1>8 DEF WriteInit, WriteSum, RealWritten, GetInit, AskSum, ringVars, ControlTypes
<1>9. CASE BinWritten(in)
  <2>1. /\ at'.ir = at.ir /\ at'.in = at.in /\ UNCHANGED ringVars
        /\ state = "WRITE_2_WAIT" /\ state' \in {"IDLE", "GET_INIT", "WRITE_1"}
        /\ state' = "GET_INIT" => ~goto_idle_after_write
        /\ state' = "WRITE_1" => goto_idle_after_write' = goto_idle_after_write
    BY <1>9 DEF BinWritten, ControlTypes
  <2>2. CASE state' = "IDLE"
    BY <2>2 DEF Selected
  <2>3. CASE state' # "IDLE"
    BY <1>5, <2>1, <2>3 DEF ringVars
  <2> QED BY <2>2, <2>3
<1>10. CASE GetSum(in) \/ ChunkDone(in)
  BY <1>5, <1>10 DEF GetSum, ChunkDone, ringVars, ControlTypes
<1> QED BY <1>1, <1>2, <1>3, <1>4, <1>6, <1>7, <1>8, <1>9, <1>10 DEF Main

LEMMA CountedStep ==
  ASSUME ControlTypes, Selected, Counted, NEW in, in.command \in CommandWords, Main(in)
  PROVE  Counted'
<1> USE DEF Walking, Running, Writing, Pipeline, Getting
<1>1. /\ CHUNK_SIZE \in Nat /\ CHUNK_SIZE >= 2 /\ CHUNKS \in Nat /\ CHUNKS > 0
      /\ CHUNK_SIZE * 0 = 0 /\ at \in AtTypes
  <2>1. 1 \in 1 .. CHUNKS
    BY Sizes
  <2> QED BY <2>1, Sizes, ChunkPlaces DEF ControlTypes, AtTypes
<1>2. CASE Listen(in) \/ SetChannel(in) \/ Select(in)
  <2>1. /\ state' \in {"IDLE", "RESET", "SET_LEFT", "SET_RIGHT", "SELECT", "INIT"}
        /\ at.chunk_pointer = 0
    BY <1>2 DEF Listen, SetChannel, Select, CommandWords, Counted
  <2>2. at' = at \/ at' = [at EXCEPT !.i = 0]
    BY <1>2 DEF Listen, SetChannel, Select
  <2>3. at'.chunk_pointer = 0
    BY <1>1, <2>1, <2>2 DEF AtTypes
  <2>4. state' = "RESET" => at'.i \in ChunkBins
    <3>1. state' = "RESET" => at' = [at EXCEPT !.i = 0]
      BY <1>2 DEF Listen, SetChannel, Select, CommandWords
    <3> QED BY <1>1, <3>1 DEF AtTypes, ChunkBins
  <2> QED BY <2>1, <2>3, <2>4 DEF Counted
<1>3. CASE Reset(in)
  <2>1. CASE at.i = CHUNK_SIZE - 1
    BY <1>1, <1>3, <2>1 DEF Reset, Counted, AtTypes
  <2>2. CASE at.i # CHUNK_SIZE - 1
    <3>1. at.i \in ChunkBins /\ at.i + 1 \in ChunkBins
      BY <1>1, <1>3, <2>2 DEF Reset, Counted, ChunkBins
    <3> QED BY <1>1, <1>3, <2>2, <3>1 DEF Reset, Counted, AtTypes
  <2> QED BY <2>1, <2>2
<1>4. CASE MacInit(in)
  <2>1. /\ state' = "GET_INIT" /\ pre' /\ ~post' /\ at'.chunk_pointer = 0 /\ at'.i = 0
    BY <1>1, <1>4 DEF MacInit, AtTypes
  <2> QED BY <1>1, <2>1 DEF Counted
<1>5. ASSUME state \in Walking \ {"GET_INIT", "NEXT_BLOCK"}, UNCHANGED <<pre, post>>,
             at'.i = at.i, at'.chunk_pointer = at.chunk_pointer,
             state \in Pipeline => at'.chunk = at.chunk /\ at'.chunk_prev = at.chunk_prev,
             \/ state \in Pipeline /\ state' \in Pipeline
             \/ state \in Getting /\ state' \in Getting
             \/ state \in Writing /\ state' \in Writing
      PROVE  Counted'
  <2>1. Start' = Start
    BY <1>5 DEF Start
  <2> HIDE DEF Start
  <2> QED BY <1>5, <2>1 DEF Counted
<1>6. CASE AskA(in) \/ Wait(in) \/ FetchA(in) \/ FetchC(in) \/ FetchD(in)
  BY <1>5, <1>6 DEF AskA, Wait, FetchA, FetchC, FetchD, Fetch, fsmVars
<1>7. CASE WriteInit(in) \/ WriteSum(in) \/ RealWritten(in) \/ AskSum(in) \/ GetSum(in)
  BY <1>1, <1>5, <1>7 DEF WriteInit, WriteSum, RealWritten, AskSum, GetSum, AtTypes
<1>8. CASE FetchB(in)
  <2>1. state = "B" /\ AfterBin
    BY <1>8 DEF FetchB
  <2>2. /\ at.i = Start + at.chunk /\ Start \in Nat /\ at.chunk \in 0 .. CHUNK_SIZE
        /\ IF post THEN at.chunk = CHUNK_SIZE ELSE at.chunk < CHUNK_SIZE
        /\ at.chunk_pointer \in 1 .. CHUNKS /\ at.chunk_pointer > 0
    BY <2>1, ChunkFacts, Sizes DEF Counted, ControlTypes
  <2>3. CASE /\ ~post /\ state' = "A_ADDR" /\ pre' = FALSE
             /\ \/ at' = NextBinOf(at) /\ post' = TRUE /\ at.chunk = CHUNK_SIZE - 1
                \/ at' = NextAddressOf(NextBinOf(at)) /\ post' = FALSE /\ at.chunk < CHUNK_SIZE - 1
    <3>1. /\ at'.i = at.i + 1 /\ at'.chunk = at.chunk + 1 /\ at'.chunk_prev = at.chunk
          /\ at'.chunk_pointer = at.chunk_pointer
      BY <1>1, <2>3 DEF NextBinOf, NextAddressOf, AtTypes
    <3>2. Start' = Start
      BY <3>1 DEF Start
    <3> HIDE DEF Start
    <3>3. at.i + 1 = Start + (at.chunk + 1)
      BY <1>1, <2>2
    <3>4. IF post' THEN at.chunk + 1 = CHUNK_SIZE ELSE at.chunk + 1 < CHUNK_SIZE
      BY <1>1, <2>2, <2>3
    <3> QED BY <1>1, <2>2, <2>3, <3>1, <3>2, <3>3, <3>4 DEF Counted
  <2>4. CASE post /\ at.chunk_pointer = CHUNKS /\ at.i = BLOCK_SIZE /\ state' = "NEXT_BLOCK"
                 /\ at' = at
    BY <2>4 DEF Counted
  <2>5. CASE /\ post /\ at.chunk_pointer < CHUNKS /\ at.i = CHUNK_SIZE * at.chunk_pointer
             /\ state' = "WRITE_INIT" /\ pre' = TRUE /\ post' = FALSE /\ at' = NextAddressOf(at)
    <3>1. at'.i = at.i /\ at'.chunk_pointer = at.chunk_pointer
      BY <2>5 DEF NextAddressOf, ControlTypes
    <3> QED BY <2>2, <2>5, <3>1 DEF Counted
  <2>6. post \in BOOLEAN
    BY DEF ControlTypes
  <2> HIDE DEF Start
  <2> QED BY <2>1, <2>3, <2>4, <2>5, <2>6, AfterBinCases
<1>9. CASE NextBlock(in)
  BY <1>1, <1>9 DEF NextBlock, Counted, AtTypes
<1>10. CASE BinWritten(in)
  <2> DEFINE done == at.cnt = CHUNK_SIZE - 1
  <2>1. /\ state = "WRITE_2_WAIT" /\ pre /\ ~post /\ UNCHANGED <<pre, post>> /\ at'.i = at.i
        /\ at.chunk_pointer \in 1 .. CHUNKS
    BY <1>1, <1>10 DEF BinWritten, Counted, AtTypes
  <2>2. CASE ~done
    BY <1>1, <1>5, <1>10, <2>1, <2>2 DEF BinWritten, PointerAfter, AtTypes
  <2>3. CASE done /\ goto_idle_after_write
    BY <1>1, <1>10, <2>1, <2>3 DEF BinWritten, Counted, AtTypes
  <2>4. CASE done /\ ~goto_idle_after_write
    <3>1. /\ state' = "GET_INIT"
          /\ at'.chunk_pointer = IF at.chunk_pointer = CHUNKS THEN 0 ELSE at.chunk_pointer
      BY <1>1, <1>10, <2>1, <2>4 DEF BinWritten, PointerAfter, AtTypes
    <3>2. at'.chunk_pointer < CHUNKS /\ at'.i = CHUNK_SIZE * at'.chunk_pointer
      <4>1. \/ at.chunk_pointer < CHUNKS /\ at.i = CHUNK_SIZE * at.chunk_pointer
            \/ at.chunk_pointer = CHUNKS /\ at.i = 0
        BY <2>1 DEF Counted
      <4>2. CASE at.chunk_pointer = CHUNKS
        BY <1>1, <2>1, <3>1, <4>1, <4>2
      <4>3. CASE at.chunk_pointer # CHUNKS
        BY <1>1, <2>1, <3>1, <4>1, <4>3
      <4> QED BY <4>2, <4>3
    <3> QED BY <2>1, <3>1, <3>2 DEF Counted
  <2> QED BY <2>2, <2>3, <2>4
<1>11. CASE GetInit(in)
  <2>1. /\ state' = "GET_SET_ADDR" /\ pre' /\ ~post' /\ at'.i = at.i
        /\ at'.chunk_pointer = at.chunk_pointer + 1 /\ at.chunk_pointer \in Nat
        /\ at.i = CHUNK_SIZE * at.chunk_pointer
    BY <1>1, <1>11 DEF GetInit, Counted, AtTypes
  <2>2. at'.chunk_pointer - 1 = at.chunk_pointer
    BY <2>1
  <2>3. Start' = CHUNK_SIZE * at.chunk_pointer /\ at'.chunk_pointer > 0
    BY <2>1, <2>2 DEF Start
  <2> QED BY <2>1, <2>3 DEF Counted
<1>12. CASE ChunkDone(in)
  <2>1. /\ state = "CHUNK_DONE" /\ state' = "A_ADDR" /\ pre /\ ~post /\ UNCHANGED <<pre, post>>
        /\ at'.i = at.i /\ at'.chunk_pointer = at.chunk_pointer /\ at'.chunk = 0
        /\ at.i = Start /\ at.chunk_pointer > 0 /\ Start \in Nat
    BY <1>1, <1>12, ChunkFacts DEF ChunkDone, Counted, AtTypes
  <2>2. Start' = Start /\ at.i = Start + 0
    BY <2>1 DEF Start
  <2> HIDE DEF Start
  <2> QED BY <1>1, <2>1, <2>2 DEF Counted
<1> QED BY <1>2, <1>3, <1>4, <1>6, <1>7, <1>8, <1>9, <1>10, <1>11, <1>12 DEF Main

-----------------------------------------------------------------------------
(* Accesses                                                                *)

(* What the SDRAM does with the access in flight.                          *)
Serves(in) ==
  flight' = IF m.op # "none" /\ ~in.wait THEN m
            ELSE IF in.valid THEN NoAccess ELSE flight
Answered(in) == in.valid => flight.op # "none"

(* A cycle without a new request.                                          *)
LEMMA HoldStep ==
  ASSUME Requests, NEW in, Answered(in), Serves(in), Hold(in)
  PROVE  /\ <<m', flight'>> \in {<<m, flight>>, <<NoAccess, m>>, <<m, NoAccess>>}
         /\ m' # NoAccess => flight' = NoAccess /\ m' = m
         /\ Quiet => Quiet'
         /\ in.valid => Quiet'
<1>1. NoAccess.op = "none"
  BY DEF NoAccess
<1>2. CASE m.op = "none"
  BY <1>1, <1>2 DEF Requests, Serves, Hold, Quiet, Answered
<1>3. CASE m.op # "none"
  <2>1. m # NoAccess /\ flight = NoAccess /\ ~in.valid
    BY <1>1, <1>3 DEF Requests, Answered
  <2> QED BY <1>3, <2>1 DEF Serves, Hold, Quiet
<1> QED BY <1>2, <1>3

(* A cycle with a new request, which finds no other one open.              *)
LEMMA RequestStep ==
  ASSUME Requests, NEW in, Answered(in), Serves(in),
         NEW op \in {"read", "write"}, NEW addr, NEW data, Request(op, addr, data),
         in.valid \/ Quiet
  PROVE  m' = [op |-> op, addr |-> addr, data |-> data] /\ flight' = NoAccess
<1>1. NoAccess.op = "none"
  BY DEF NoAccess
<1>2. m = NoAccess /\ ~ (Quiet /\ in.valid)
  BY <1>1 DEF Requests, Answered, Quiet
<1> QED BY <1>1, <1>2 DEF Serves, Request, Quiet

LEMMA RequestsStep ==
  ASSUME ControlTypes, Counted, Requests, Polling, NEW in, in.command \in CommandWords,
         Answered(in), Serves(in), Main(in)
  PROVE  /\ m'.op \in Ops /\ (m'.op = "none" => m' = NoAccess)
         /\ flight'.op \in Ops /\ (flight'.op = "none" => flight' = NoAccess)
         /\ m' # NoAccess => flight' = NoAccess
         /\ pc # "boot" /\ ~Waiting' => Quiet'
         /\ Quiet => Quiet' \/ Waiting'
<1> USE DEF Ops
<1>1. NoAccess.op = "none" /\ \A op, addr, data : [op |-> op, addr |-> addr, data |-> data].op = op
  BY DEF NoAccess
<1>2. ASSUME Hold(in), (~Waiting => Quiet) => in.valid \/ ~Waiting \/ Waiting'
      PROVE  /\ m'.op \in Ops /\ (m'.op = "none" => m' = NoAccess)
             /\ flight'.op \in Ops /\ (flight'.op = "none" => flight' = NoAccess)
             /\ m' # NoAccess => flight' = NoAccess
             /\ pc # "boot" /\ ~Waiting' => Quiet'
             /\ Quiet => Quiet' \/ Waiting'
  <2>1. pc # "boot" => (~Waiting => Quiet)
    BY DEF Requests
  <2> HIDE DEF Waiting
  <2> QED BY <1>1, <1>2, <2>1, HoldStep DEF Requests, Quiet
<1>3. ASSUME NEW op \in {"read", "write"}, NEW addr, NEW data, Request(op, addr, data),
             in.valid \/ ~Waiting, pc # "boot", Waiting'
      PROVE  /\ m'.op \in Ops /\ (m'.op = "none" => m' = NoAccess)
             /\ flight'.op \in Ops /\ (flight'.op = "none" => flight' = NoAccess)
             /\ m' # NoAccess => flight' = NoAccess
             /\ pc # "boot" /\ ~Waiting' => Quiet'
             /\ Quiet => Quiet' \/ Waiting'
  <2>1. in.valid \/ Quiet
    BY <1>3 DEF Requests
  <2>2. m' = [op |-> op, addr |-> addr, data |-> data] /\ flight' = NoAccess
    BY <1>3, <2>1, RequestStep
  <2> HIDE DEF Waiting
  <2> QED BY <1>1, <1>3, <2>2
<1>4. pc = "boot" => state \in {"IDLE", "RESET"}
  BY DEF Polling
<1>5. CASE Listen(in) \/ Reset(in) \/ SetChannel(in) \/ Select(in) \/ MacInit(in) \/ NextBlock(in)
           \/ WriteInit(in) \/ GetInit(in) \/ ChunkDone(in)
  BY <1>2, <1>5 DEF Listen, Reset, SetChannel, Select, MacInit, NextBlock, WriteInit, GetInit,
                    ChunkDone, Waiting
<1>6. CASE Wait(in)
  BY <1>2, <1>6 DEF Wait, Waiting, fsmVars
<1>7. CASE RealWritten(in) \/ BinWritten(in) \/ GetSum(in)
  BY <1>2, <1>7 DEF RealWritten, BinWritten, GetSum, WriteValid, ReadValid
<1>8. CASE AskA(in)
  <2>1. CASE post
    BY <1>2, <1>8, <2>1 DEF AskA, Waiting
  <2>2. CASE ~post
    BY <1>3, <1>4, <1>8, <2>2 DEF AskA, Waiting
  <2> QED BY <2>1, <2>2
<1>9. CASE FetchA(in) \/ FetchC(in) \/ FetchD(in)
  <2>1. /\ state \in {"A", "C", "D"} /\ state' \in {"C", "D", "B"} /\ UNCHANGED post
        /\ \/ post /\ Hold(in)
           \/ ~post /\ in.valid /\ \E addr : Request("read", addr, {})
    BY <1>9 DEF FetchA, FetchC, FetchD, Fetch, ReadValid
  <2>2. CASE post
    BY <1>2, <2>1, <2>2 DEF Waiting
  <2>3. CASE ~post
    BY <1>3, <1>4, <2>1, <2>3 DEF Waiting
  <2> QED BY <2>2, <2>3
<1>10. CASE FetchB(in)
  <2>1. state = "B" /\ (post \/ in.valid) /\ Hold(in)
    BY <1>10 DEF FetchB, ReadValid
  <2> QED BY <1>2, <2>1 DEF Waiting
<1>11. CASE WriteSum(in)
  <2>1. /\ state \in {"WRITE_1", "WRITE_2"} /\ state' \in {"WRITE_1_WAIT", "WRITE_2_WAIT"}
        /\ \E addr, data : Request("write", addr, data)
    BY <1>11 DEF WriteSum
  <2> QED BY <1>3, <1>4, <2>1 DEF Waiting
<1>12. CASE AskSum(in)
  <2>1. /\ state = "GET_SET_ADDR" /\ state' = "GET_DATA"
             /\ \E addr, data : Request("read", addr, data)
    BY <1>12 DEF AskSum
  <2> QED BY <1>3, <1>4, <2>1 DEF Waiting
<1> QED BY <1>5, <1>6, <1>7, <1>8, <1>9, <1>10, <1>11, <1>12 DEF Main

-----------------------------------------------------------------------------
(* The steps of the program                                                *)

(* Every step but KEY(0) is a clock cycle.                                 *)
Cycle(in, s_read) ==
  in \in Inputs /\ Main(in) /\ Reply(s_read) /\ Answered(in) /\ Serves(in)

LEMMA ClockCycle ==
  ASSUME Requests, NEW c \in CommandWords, NEW s \in BOOLEAN,
         Clock(c, s) \/ (c = "none" /\ s = FALSE /\ \E x : ClockBeside(x))
  PROVE  \E in : Cycle(in, s) /\ in.command = c
<1>1. NoAccess.op = "none"
  BY DEF NoAccess
<1>2. CASE Clock(c, s)
  <2>1. PICK valid \in Valids : \E wait \in Waits(valid) :
          LET in == [command |-> c, wait |-> wait, valid |-> valid]
          IN Main(in) /\ Reply(s) /\ Sdram(in)
    BY <1>2 DEF Clock
  <2>2. PICK wait \in Waits(valid) :
          LET in == [command |-> c, wait |-> wait, valid |-> valid]
          IN Main(in) /\ Reply(s) /\ Sdram(in)
    BY <2>1
  <2> DEFINE in == [command |-> c, wait |-> wait, valid |-> valid]
  <2>3. Main(in) /\ Reply(s) /\ Sdram(in)
    BY <2>2
  <2>4. valid \in BOOLEAN /\ wait \in BOOLEAN /\ (valid => flight.op # "none")
    BY DEF Valids, Waits
  <2>5. in \in Inputs /\ Answered(in) /\ in.command = c
    BY <2>4 DEF Inputs, Answered
  <2>6. Serves(in)
    BY <2>3 DEF Sdram, Serves
  <2> HIDE DEF in
  <2> QED BY <2>3, <2>5, <2>6 DEF Cycle
<1>3. CASE c = "none" /\ s = FALSE /\ \E x : ClockBeside(x)
  <2> DEFINE in == [command |-> "none", wait |-> FALSE, valid |-> FALSE]
  <2>1. flight = NoAccess /\ m = NoAccess /\ Main(in) /\ Reply(s) /\ UNCHANGED flight
    BY <1>3 DEF ClockBeside
  <2>2. in \in Inputs /\ Answered(in) /\ in.command = c
    BY <1>3 DEF Inputs, Answered, CommandWords
  <2>3. Serves(in)
    BY <1>1, <2>1 DEF Serves
  <2> HIDE DEF in
  <2> QED BY <2>1, <2>2, <2>3 DEF Cycle
<1> QED BY <1>2, <1>3

(* What a cycle does to the state of the MAC.                              *)
LEMMA StateStep ==
  ASSUME ControlTypes, Counted, NEW in, in.command \in CommandWords, Main(in)
  PROVE  /\ state = "IDLE" =>
              state' = IF in.command \in {"none", "BASE"} THEN "IDLE" ELSE in.command
         /\ state = "RESET" =>
              \/ state' = "RESET" /\ at'.i = at.i + 1 /\ at.i \in Nat
              \/ state' = "IDLE" /\ at.i = CHUNK_SIZE - 1
         /\ state \in {"SET_LEFT", "SET_RIGHT"} => state' = "IDLE"
         /\ state \in Running => state' \in Running \cup {"IDLE"}
<1>1. CASE FetchB(in)
  <2>1. state = "B" /\ state' \in {"A_ADDR", "NEXT_BLOCK", "WRITE_INIT"}
    BY <1>1, AfterBinCases DEF FetchB
  <2> QED BY <2>1 DEF Running
<1>2. CASE Listen(in) \/ SetChannel(in) \/ Select(in)
  BY <1>2 DEF Listen, SetChannel, Select, Running, CommandWords
<1>3. CASE Reset(in)
  BY <1>3 DEF Reset, Running, ControlTypes
<1>4. CASE MacInit(in) \/ AskA(in) \/ Wait(in) \/ FetchA(in) \/ FetchC(in) \/ FetchD(in)
           \/ NextBlock(in) \/ WriteInit(in) \/ WriteSum(in) \/ RealWritten(in)
  BY <1>4 DEF MacInit, AskA, Wait, FetchA, FetchC, FetchD, Fetch, NextBlock, WriteInit,
              WriteSum, RealWritten, Running, fsmVars
<1>5. CASE BinWritten(in) \/ GetInit(in) \/ AskSum(in) \/ GetSum(in) \/ ChunkDone(in)
  BY <1>5 DEF BinWritten, GetInit, AskSum, GetSum, ChunkDone, Running
<1> QED BY <1>1, <1>2, <1>3, <1>4, <1>5 DEF Main

(* What a cycle does to the invariant, for any program.                    *)
LEMMA CycleStep ==
  ASSUME ControlInv, NEW in, NEW s, Cycle(in, s), area' \in Int
  PROVE  /\ state' \in States /\ pre' \in BOOLEAN /\ post' \in BOOLEAN
         /\ goto_idle_after_write' \in BOOLEAN
         /\ channel' \in Channels /\ latest_in_block' \in Slots /\ base_addr' \in Int
         /\ latest' \in [Channels -> Slots]
         /\ \A c \in Channels : latest'[c] \in InMin(c) .. InMax(c)
         /\ at' \in AtTypes
         /\ Selected' /\ Counted'
         /\ read_state' \in {"IDLE", "GET_DATA", "OUTPUT_DATA"}
         /\ output_value' \in {"idle", "busy"} /\ reply' \in {"none", "idle", "busy"}
         /\ pc' = "boot" \/ pc # "boot" \/ (Quiet /\ ~Waiting') => Requests'
<1>1. in.command \in CommandWords /\ Main(in) /\ Reply(s) /\ Answered(in) /\ Serves(in)
  BY DEF Cycle, Inputs
<1>2. /\ read_state' \in {"IDLE", "GET_DATA", "OUTPUT_DATA"}
      /\ output_value' \in {"idle", "busy"} /\ reply' \in {"none", "idle", "busy"}
  BY <1>1 DEF Reply, StateWord, ControlInv, ControlTypes
<1>3. /\ channel' \in Channels /\ latest_in_block' \in Slots /\ base_addr' \in Int
      /\ latest' \in [Channels -> Slots] /\ \A c \in Channels : latest'[c] \in InMin(c) .. InMax(c)
  BY <1>1, RingStep DEF ControlInv
<1>4. /\ state' \in States /\ pre' \in BOOLEAN /\ post' \in BOOLEAN
      /\ goto_idle_after_write' \in BOOLEAN /\ at' \in AtTypes
  BY <1>1, FlagStep, CounterStep DEF ControlInv
<1>5. Selected' /\ Counted'
  BY <1>1, SelectedStep, CountedStep DEF ControlInv
<1>6. pc' = "boot" \/ pc # "boot" \/ (Quiet /\ ~Waiting') => Requests'
  BY <1>1, RequestsStep DEF ControlInv, Requests
<1> QED BY <1>2, <1>3, <1>4, <1>5, <1>6

(* A cycle in which the program does not read.                             *)
LEMMA NoReadStep ==
  ASSUME ControlInv, NEW in, Cycle(in, FALSE), access = 0
  PROVE  /\ pc # "boot" => read_state' = "IDLE"
         /\ pc = "boot" =>
              \/ read_state' = "IDLE"
              \/ state' = "RESET" /\ at'.i = 1 /\ read_state' = "OUTPUT_DATA"
<1>1. in.command \in CommandWords /\ Main(in) /\ Reply(FALSE)
  BY DEF Cycle, Inputs
<1>2. CASE read_state = "IDLE"
  BY <1>1, <1>2 DEF Reply
<1>3. CASE read_state # "IDLE"
  <2>1. /\ pc = "boot" /\ state = "RESET" /\ at.i \in {0, 1}
        /\ at.i = 1 => read_state = "OUTPUT_DATA"
    BY <1>3 DEF ControlInv, Replying
  <2>2. at.i = 0 => state' = "RESET" /\ at'.i = 1
    <3>1. CHUNK_SIZE - 1 # 0
      BY Sizes
    <3>2. at.i = 0 => at.i + 1 = 1
      OBVIOUS
    <3> QED BY <1>1, <2>1, <3>1, <3>2, StateStep DEF ControlInv
  <2>3. at.i = 0 => read_state' \in {"IDLE", "OUTPUT_DATA"}
    BY <1>1, <1>3 DEF Reply, ControlInv, ControlTypes
  <2>4. at.i = 1 => read_state' = "IDLE"
    BY <1>1, <2>1 DEF Reply
  <2> QED BY <2>1, <2>2, <2>3, <2>4
<1> QED BY <1>2, <1>3

Counters == {"boot", "base_wait", "zero_all", "reset", "reset_wait", "block", "zero_acc", "set",
             "set_wait", "start", "run_wait", "read"}

(* The MAC idles, and the program does not poll.                           *)
LEMMA RestStep ==
  ASSUME ControlInv, NEW in, Cycle(in, FALSE), in.command \in {"none", "BASE"},
         access = 0, access' = 0, area' \in Int, pc' \in Counters, side' \in Channels,
         pc \in Resting \/ (pc = "boot" /\ Quiet /\ state = "IDLE"),
         pc' \in Resting \cup {"boot"}
  PROVE  ControlInv'
<1>1. in.command \in CommandWords /\ Main(in) /\ Reply(FALSE)
  BY DEF Cycle, Inputs
<1>2. state = "IDLE" /\ state' = "IDLE"
  BY <1>1, StateStep DEF ControlInv, Polling, Resting
<1>3. ControlTypes' /\ Selected' /\ Counted'
  <2>1. access' \in 0 .. 2
    OBVIOUS
  <2> QED BY <2>1, CycleStep DEF ControlTypes, AtTypes, Counters
<1>4. Quiet /\ ~Waiting'
  BY <1>2 DEF ControlInv, Requests, Waiting, Resting
<1>5. Requests'
  BY <1>4, CycleStep
<1>6. Polling'
  BY <1>2 DEF Polling, Resting
<1>7. read_state' = "IDLE"
  BY <1>2, NoReadStep
<1>8. Replying'
  BY <1>2, <1>7 DEF Replying
<1> QED BY <1>3, <1>5, <1>6, <1>8 DEF ControlInv

(* A command is written, to be polled for.                                 *)
LEMMA CommandStep ==
  ASSUME ControlInv, NEW in, Cycle(in, FALSE), access = 0, access' = 0, area' \in Int,
         side' \in Channels,
         \/ pc = "reset" /\ pc' = "reset_wait" /\ in.command = "RESET"
         \/ pc = "set" /\ pc' = "set_wait" /\ in.command \in {"SET_LEFT", "SET_RIGHT"}
         \/ pc = "start" /\ pc' = "run_wait" /\ in.command = "SELECT"
  PROVE  ControlInv' /\ state = "IDLE" /\ state' = in.command
<1>1. in.command \in CommandWords /\ Main(in) /\ Reply(FALSE)
  BY DEF Cycle, Inputs
<1>2. state = "IDLE" /\ state' = in.command
  BY <1>1, StateStep DEF ControlInv, Polling, Resting
<1>3. ControlTypes' /\ Selected' /\ Counted' /\ Requests'
  <2>1. access' \in 0 .. 2 /\ pc # "boot" /\ pc' \in {"reset_wait", "set_wait", "run_wait"}
    OBVIOUS
  <2> QED BY <2>1, CycleStep DEF ControlTypes, AtTypes
<1>4. Polling'
  BY <1>2 DEF Polling, Running, Resting, After
<1>5. read_state' = "IDLE"
  BY NoReadStep
<1>6. Replying'
  BY <1>5 DEF Replying
<1> QED BY <1>2, <1>3, <1>4, <1>6 DEF ControlInv

(* The MAC works on, or the program polls.                                 *)
LEMMA PauseStep ==
  ASSUME ControlInv, NEW in, Cycle(in, FALSE), in.command = "none", access = 0,
         area' = area, UNCHANGED programVars
  PROVE  ControlInv'
<1>1. in.command \in CommandWords /\ Main(in) /\ Reply(FALSE) /\ in.command = "none"
  BY DEF Cycle, Inputs
<1>2. ControlTypes' /\ Selected' /\ Counted' /\ Requests'
  <2>1. area' \in Int /\ UNCHANGED <<pc, side, access>>
    BY DEF programVars, ControlInv, ControlTypes
  <2>2. CASE pc = "boot"
    <3>1. pc' = "boot"
      BY <2>1, <2>2
    <3> QED BY <2>1, <3>1, CycleStep DEF ControlTypes, AtTypes, ControlInv
  <2>3. CASE pc # "boot"
    BY <2>1, <2>3, CycleStep DEF ControlTypes, AtTypes, ControlInv
  <2> QED BY <2>2, <2>3
<1>3. /\ state = "IDLE" => state' = "IDLE"
      /\ state = "RESET" => state' \in {"IDLE", "RESET"}
      /\ state \in {"SET_LEFT", "SET_RIGHT"} => state' = "IDLE"
      /\ state \in Running => state' \in Running \cup {"IDLE"}
  BY <1>1, StateStep DEF ControlInv
<1>4. Polling'
  <2>1. UNCHANGED <<pc, access>>
    BY DEF programVars
  <2> QED BY <1>3, <2>1 DEF ControlInv, Polling
<1>5. Replying'
  <2>1. pc' = pc /\ access' = 0
    BY DEF programVars
  <2>2. CASE pc = "boot"
    <3>1. \/ read_state' = "IDLE"
          \/ state' = "RESET" /\ at'.i = 1 /\ read_state' = "OUTPUT_DATA"
      BY <2>2, NoReadStep
    <3> QED BY <2>1, <2>2, <3>1 DEF Replying
  <2>3. CASE pc # "boot"
    <3>1. read_state' = "IDLE"
      BY <2>3, NoReadStep
    <3> QED BY <2>1, <2>3, <3>1 DEF Replying
  <2> QED BY <2>2, <2>3
<1> QED BY <1>2, <1>4, <1>5 DEF ControlInv

LEMMA PollStep ==
  ASSUME ControlInv, Poll
  PROVE  /\ ControlInv' /\ UNCHANGED <<area, side>> /\ pc \in DOMAIN After
         /\ \E s \in BOOLEAN : Clock("none", s)
         /\ pc' # pc => state = "IDLE" /\ state' = "IDLE" /\ pc' = After[pc]
<1> DEFINE Reads == Clock("none", TRUE)
           Rests == Clock("none", FALSE)
<1>1. /\ pc \in DOMAIN After /\ UNCHANGED <<area, side>>
      /\ \/ access < 2 /\ access' = access + 1 /\ Reads /\ pc' = pc
         \/ access = 2 /\ reply # "none" /\ access' = 0 /\ Rests
            /\ pc' = IF reply = "idle" THEN After[pc] ELSE pc
         \/ access = 2 /\ reply = "none" /\ Rests /\ pc' = pc /\ access' = access
  BY DEF Poll
<1>2. PICK s \in BOOLEAN : Clock("none", s) /\ (s <=> access < 2)
  <2>1. (Reads /\ access < 2) \/ (Rests /\ access = 2)
    <3> HIDE DEF Reads, Rests
    <3> QED BY <1>1
  <2>2. CASE Reads /\ access < 2
    BY <2>2
  <2>3. CASE Rests /\ access = 2
    <3>1. ~(access < 2)
      BY <2>3
    <3> QED BY <2>3, <3>1
  <2> QED BY <2>1, <2>2, <2>3
<1> HIDE DEF Reads, Rests
<1>3. PICK in : Cycle(in, s) /\ in.command = "none"
  BY <1>2, ClockCycle DEF ControlInv, CommandWords
<1>4. in.command \in CommandWords /\ Main(in) /\ Reply(s)
  BY <1>3 DEF Cycle, Inputs
<1>5. /\ state = "IDLE" => state' = "IDLE"
      /\ state = "RESET" => state' \in {"IDLE", "RESET"}
      /\ state \in {"SET_LEFT", "SET_RIGHT"} => state' = "IDLE"
      /\ state \in Running => state' \in Running \cup {"IDLE"}
  BY <1>3, <1>4, StateStep DEF ControlInv
<1>6. pc # "boot" /\ pc' # "boot" /\ access \in 0 .. 2 /\ access' \in 0 .. 2 /\ pc' \in Counters
  <2>1. pc \in {"base_wait", "reset_wait", "set_wait", "run_wait"} /\ access \in 0 .. 2
    BY <1>1 DEF After, ControlInv, ControlTypes
  <2>2. pc' \in {pc, After[pc]} /\ After[pc] \in {"zero_all", "block", "start", "read"}
    BY <1>1, <2>1 DEF After
  <2>3. access' \in 0 .. 2
    BY <1>1, <2>1
  <2> QED BY <2>1, <2>2, <2>3 DEF Counters
<1>7. ControlTypes' /\ Selected' /\ Counted' /\ Requests'
  <2>1. area' \in Int /\ side' \in Channels
    BY <1>1 DEF ControlInv, ControlTypes
  <2> QED BY <1>3, <1>6, <2>1, CycleStep DEF ControlTypes, AtTypes, Counters
<1>8. pc' # pc => /\ state = "IDLE" /\ pc' = After[pc] /\ pc' \in Resting \cup {"block", "run_wait"}
                  /\ access' = 0 /\ access = 2
  <2>1. pc' # pc => access = 2 /\ reply = "idle" /\ pc' = After[pc] /\ access' = 0
    BY <1>1
  <2>2. access = 2 /\ reply = "idle" => state = "IDLE"
    BY DEF ControlInv, Replying
  <2> QED BY <1>1, <2>1, <2>2 DEF After, Resting
<1>9. Polling'
  <2>1. CASE pc' = pc
    BY <1>1, <1>5, <2>1 DEF ControlInv, Polling
  <2>2. CASE pc' # pc
    <3>1. pc' \in {"zero_all", "block", "start", "read"} /\ state' = "IDLE" /\ access' = 0
      BY <1>1, <1>5, <1>8, <2>2 DEF After
    <3> QED BY <3>1 DEF Polling
  <2> QED BY <2>1, <2>2
<1>10. Replying'
  <2>1. CASE access = 0
    <3>1. access' = 1 /\ s = TRUE /\ read_state = "IDLE"
      BY <1>1, <1>2, <1>6, <2>1 DEF ControlInv, Replying
    <3>2. read_state' = "GET_DATA"
      BY <1>4, <3>1 DEF Reply
    <3> QED BY <1>6, <3>1, <3>2 DEF Replying
  <2>2. CASE access = 1
    <3>1. access' = 2 /\ read_state = "GET_DATA"
      BY <1>1, <2>2 DEF ControlInv, Replying
    <3>2. read_state' = "OUTPUT_DATA" /\ reply' = "none" /\ output_value' = StateWord
      BY <1>4, <3>1 DEF Reply
    <3>3. output_value' = "idle" => state' = "IDLE"
      BY <1>5, <3>2 DEF StateWord
    <3> QED BY <1>6, <3>1, <3>2, <3>3 DEF Replying
  <2>3. CASE access = 2 /\ reply = "none"
    <3>1. access' = 2 /\ read_state = "OUTPUT_DATA" /\ (output_value = "idle" => state = "IDLE")
      BY <1>1, <2>3 DEF ControlInv, Replying
    <3>2. read_state' = "IDLE" /\ reply' = output_value
      BY <1>4, <3>1 DEF Reply
    <3>3. reply' # "none" /\ (reply' = "idle" => state' = "IDLE")
      BY <1>5, <3>1, <3>2 DEF ControlInv, ControlTypes
    <3> QED BY <1>6, <3>1, <3>2, <3>3 DEF Replying
  <2>4. CASE access = 2 /\ reply # "none"
    <3>1. access' = 0 /\ read_state = "IDLE" /\ s = FALSE
      <4>1. access' = 0 /\ read_state = "IDLE"
        BY <1>1, <2>4 DEF ControlInv, Replying
      <4>2. ~s
        BY <1>2, <2>4
      <4> QED BY <1>2, <4>1, <4>2
    <3>2. read_state' = "IDLE"
      BY <1>4, <3>1 DEF Reply
    <3> QED BY <1>6, <3>1, <3>2 DEF Replying
  <2> QED BY <1>6, <2>1, <2>2, <2>3, <2>4
<1>11. pc' # pc => state' = "IDLE"
  BY <1>5, <1>8
<1>12. ControlInv'
  BY <1>7, <1>9, <1>10 DEF ControlInv
<1>13. \E r \in BOOLEAN : Clock("none", r)
  BY <1>2
<1> QED BY <1>1, <1>8, <1>11, <1>12, <1>13

LEMMA Key0Step ==
  ASSUME ControlInv, Key0
  PROVE  ControlInv'
<1>1. /\ state' = "RESET" /\ at' = [at EXCEPT !.i = 0, !.chunk_pointer = 0]
      /\ m' = (IF m.op = "read" THEN NoAccess ELSE m) /\ flight' = NoAccess
      /\ output_value' = "busy" /\ pc' = "boot" /\ side' = 1 /\ access' = 0
      /\ UNCHANGED <<pre, post, goto_idle_after_write, channel, latest, latest_in_block,
                     base_addr, read_state, reply, area>>
  BY DEF Key0, ringVars, memVars
<1>2. /\ at' \in AtTypes /\ at'.i = 0 /\ at'.chunk_pointer = 0
  <2>1. at \in AtTypes /\ 0 \in 0 .. BLOCK_SIZE /\ 0 \in 0 .. CHUNKS
    BY Sizes DEF ControlInv, ControlTypes, AtTypes
  <2> QED BY <1>1, <2>1 DEF AtTypes
<1>3. ControlTypes'
  BY <1>1, <1>2 DEF ControlInv, ControlTypes, AtTypes, States, Channels
<1>4. Selected'
  BY <1>1 DEF Selected, Walking, Running
<1>5. Counted'
  <2>1. 0 \in ChunkBins
    BY Sizes DEF ChunkBins
  <2> QED BY <1>1, <1>2, <2>1 DEF Counted, Walking, Running, Getting, Pipeline, Writing
<1>6. Requests'
  BY <1>1 DEF Requests, NoAccess, ControlInv, Ops
<1>7. Polling' /\ Replying'
  BY <1>1, <1>2 DEF Polling, Replying, Resting
<1> QED BY <1>3, <1>4, <1>5, <1>6, <1>7 DEF ControlInv

LEMMA ControlStep ==
  ASSUME ControlInv, [Next]_vars
  PROVE  ControlInv'
<1> USE DEF CommandWords
<1>1. CASE Pause
  <2>1. PICK in : Cycle(in, FALSE) /\ in.command = "none"
    BY <1>1, ClockCycle DEF Pause, ControlInv
  <2> QED BY <1>1, <2>1, PauseStep DEF Pause
<1>2. CASE SetBase
  <2>1. PICK in : Cycle(in, FALSE) /\ in.command = "BASE"
    BY <1>2, ClockCycle DEF SetBase, ControlInv
  <2>2. area' \in Int
    BY <1>2, BodyMacAssumption DEF SetBase
  <2>3. access = 0
    BY <1>2 DEF SetBase, ControlInv, Polling, After
  <2> QED BY <1>2, <2>1, <2>2, <2>3, RestStep
          DEF SetBase, Quiet, Resting, Counters, ControlInv, ControlTypes
<1>3. CASE ZeroSdram \/ StoreBlocks \/ CopySums
  <2>1. PICK in : Cycle(in, FALSE) /\ in.command = "none"
    BY <1>3, ClockCycle DEF ZeroSdram, StoreBlocks, CopySums, ControlInv
  <2>2. CASE pc' # "reset"
    <3>1. /\ pc \in Resting /\ pc' \in Counters /\ access = 0 /\ access' = 0
          /\ area' \in Int /\ side' \in Channels
          /\ pc' \in Resting \cup {"boot"}
      BY <1>3 DEF ZeroSdram, StoreBlocks, CopySums, ControlInv, ControlTypes, Polling, After,
                  Resting, Counters, Channels
    <3> QED BY <2>1, <3>1, RestStep
  <2>3. CASE pc' = "reset"
    <3>1. /\ pc \in Resting /\ pc' \in Counters /\ access = 0 /\ access' = 0
          /\ area' \in Int /\ side' \in Channels
          /\ pc' \in Resting \cup {"boot"}
      BY <1>3, <2>3 DEF ZeroSdram, StoreBlocks, CopySums, ControlInv, ControlTypes, Polling, After,
                  Resting, Counters, Channels
    <3> QED BY <2>1, <3>1, RestStep
  <2> QED BY <2>2, <2>3
<1>4. CASE WriteReset \/ WriteChannel \/ WriteStart
  <2>1. PICK c \in CommandWords :
          /\ Clock(c, FALSE)
          /\ \/ pc = "reset" /\ pc' = "reset_wait" /\ c = "RESET"
             \/ pc = "set" /\ pc' = "set_wait" /\ c \in {"SET_LEFT", "SET_RIGHT"}
             \/ pc = "start" /\ pc' = "run_wait" /\ c = "SELECT"
    BY <1>4 DEF WriteReset, WriteChannel, WriteStart, Write
  <2>2. PICK in : Cycle(in, FALSE) /\ in.command = c
    BY <2>1, ClockCycle DEF ControlInv
  <2>3. UNCHANGED <<area, side, access>>
    BY <1>4 DEF WriteReset, WriteChannel, WriteStart, Write
  <2>4. access = 0 /\ area \in Int /\ side \in Channels
    BY <2>1 DEF ControlInv, ControlTypes, Polling, After
  <2> QED BY <2>1, <2>2, <2>3, <2>4, CommandStep
<1>5. CASE Poll
  BY <1>5, PollStep
<1>6. CASE Key0
  BY <1>6, Key0Step
<1>7. CASE UNCHANGED vars
  BY <1>7 DEF vars, fsmVars, ringVars, replyVars, memVars, programVars, ControlInv, ControlTypes,
              Selected, Age, Counted, Start, Requests, Quiet, Waiting, Polling, Replying, After
<1> QED BY <1>1, <1>2, <1>3, <1>4, <1>5, <1>6, <1>7 DEF Next, Program

LEMMA ControlStart == ASSUME Init PROVE ControlInv
<1>1. PICK a \in Areas : area = a
  BY DEF Init
<1>2. area \in Int
  BY <1>1, BodyMacAssumption
<1>3. /\ 0 \in 0 .. BLOCK_SIZE /\ 0 \in 0 .. CHUNK_SIZE /\ 0 \in ChunkBins /\ 0 \in 0 .. CHUNKS
      /\ 0 \in Slots
  BY Sizes DEF ChunkBins, Slots
<1>4. ResetLatest \in [Channels -> Slots]
          /\ \A c \in Channels : ResetLatest[c] \in InMin(c) .. InMax(c)
  <2>1. \A c \in Channels : ResetLatest[c] \in InMin(c) .. InMax(c) /\ ResetLatest[c] \in Slots
    BY RingTypes DEF ResetLatest
  <2> QED BY <2>1 DEF ResetLatest
<1>5. InMax(1) - 1 \in Slots
  BY RingTypes DEF Channels
<1>6. ControlTypes
  <2> HIDE DEF InMin, InMax, ResetLatest
  <2>1. /\ at \in [i : 0 .. BLOCK_SIZE, chunk : 0 .. CHUNK_SIZE, chunk_prev : ChunkBins,
                    ir : Slots, in : Slots, ir_addr : Int, in_addr : Int,
                    chunk_pointer : 0 .. CHUNKS, chunk_addr : Int, cnt : ChunkBins,
                    r : BOOLEAN]
    BY <1>3 DEF Init
  <2>2. latest \in [Channels -> Slots] /\ \A c \in Channels : latest[c] \in InMin(c) .. InMax(c)
    BY <1>4 DEF Init
  <2>3. latest_in_block \in Slots /\ base_addr \in Int
    BY <1>5 DEF Init
  <2>4. /\ state = "RESET" /\ pre = TRUE /\ post = FALSE /\ goto_idle_after_write = FALSE
        /\ channel = 1 /\ read_state = "IDLE" /\ output_value = "busy" /\ reply = "none"
        /\ pc = "boot" /\ side = 1 /\ access = 0
    BY DEF Init
  <2>5. 0 \in 0 .. 2 /\ 1 \in Channels
    BY DEF Channels
  <2>6. "RESET" \in States
    BY DEF States
  <2> QED BY <1>2, <2>1, <2>2, <2>3, <2>4, <2>5, <2>6 DEF ControlTypes
<1>7. Selected /\ Counted
  BY <1>3 DEF Init, Selected, Counted, Walking, Running, Getting, Pipeline, Writing
<1>8. Requests /\ Polling /\ Replying
  BY DEF Init, Requests, Polling, Replying, NoAccess, Ops, Resting
<1> QED BY <1>6, <1>7, <1>8 DEF ControlInv

LEMMA ControlInvHolds == Spec => []ControlInv
  BY ControlStart, ControlStep, PTL DEF Spec

(* Every register keeps its type: block pointers stay in range, and the    *)
(* arrays are addressed inside a chunk although chunk_prev, chunk and the  *)
(* chunk pointer run one ahead.                                            *)
THEOREM BodyTypeCorrect == Spec => []TypeOK
<1>1. ControlInv => TypeOK
  <2> SUFFICES ASSUME ControlInv PROVE TypeOK
    OBVIOUS
  <2>1. state \in {"A", "C", "D", "B"} => ~(pre /\ post)
    <3>1. CHUNK_SIZE # 0
      BY Sizes
    <3> QED BY <3>1 DEF ControlInv, Counted, Pipeline
  <2> QED BY <2>1 DEF ControlInv, ControlTypes, Requests, TypeOK, States, Ops, After
<1> QED BY <1>1, ControlInvHolds, PTL

(* The MAC has one access at a time: it never asks while an access waits   *)
(* or is on its way, whenever the board is reset, and it leaves the SDRAM  *)
(* alone while it is idle.                                                 *)
THEOREM BodyAccesses == Spec => []OneAccess
<1>1. ControlInv => OneAccess
  BY DEF ControlInv, Requests, OneAccess, Waiting, Quiet
<1> QED BY <1>1, ControlInvHolds, PTL

-----------------------------------------------------------------------------
(* Sums of products                                                        *)

(* The words of different blocks are different.                            *)
LEMMA DistinctBases ==
  ASSUME NEW p \in Slots, NEW q \in Slots, p # q
  PROVE  Base(p) + 2 <= Base(q) \/ Base(q) + 2 <= Base(p)
<1> DEFINE s == BLOCK_SIZE * 2
<1>1. s \in Nat /\ s >= 2 /\ p \in Nat /\ q \in Nat
  BY Sizes DEF Slots
<1>2. Base(p) = p * s /\ Base(q) = q * s
  BY Sizes, <1>1 DEF Base
<1> HIDE DEF s
<1>3. \A x, y \in Nat : x < y => x * s + s <= y * s /\ x * s \in Nat /\ y * s \in Nat
  <2> SUFFICES ASSUME NEW x \in Nat, NEW y \in Nat, x < y
               PROVE  x * s + s <= y * s /\ x * s \in Nat /\ y * s \in Nat
    OBVIOUS
  <2>1. PICK d \in Nat : y = x + 1 + d
    <3>1. y - x - 1 \in Nat /\ y = x + 1 + (y - x - 1)
      OBVIOUS
    <3> QED BY <3>1
  <2>2. y * s = x * s + s + d * s /\ d * s \in Nat /\ x * s \in Nat
    BY <1>1, <2>1
  <2> QED BY <1>1, <2>2
<1>4. p < q \/ q < p
  BY <1>1
<1> QED BY <1>1, <1>2, <1>3, <1>4

(* The words of a bin and of the bin after it.                             *)
LEMMA BinWords ==
  ASSUME NEW block \in Slots, NEW e \in Int
  PROVE  /\ BlockWord(block, e, 0) \in Int
         /\ BlockWord(block, e, 1) = BlockWord(block, e, 0) + 1
         /\ BlockWord(block, e + 1, 0) = BlockWord(block, e, 0) + 2
         /\ BlockWord(block, 0, 0) = Base(block)
<1>1. Base(block) \in Int
  BY BaseTypes DEF Slots
<1> QED BY <1>1 DEF BlockWord

LEMMA BinProducts ==
  ASSUME NEW p, p.ir \in Slots, p.in \in Slots, NEW e \in Int,
         NEW x, x = BlockWord(p.ir, e, 0), NEW y, y = BlockWord(p.in, e, 0)
  PROVE  Real(p, e) = AC(x, y) \cup BD(x, y) /\ Imag(p, e) = AD(x, y) \cup BC(x, y)
BY BinWords DEF Real, Imag, AC, BD, AD, BC

LEMMA PairTypes ==
  ASSUME NEW c \in Channels, NEW b \in InMin(c) .. InMax(c), NEW k \in 0 .. BLOCK_NUM - 1
  PROVE  /\ PairOf(c, b, k).ir = IrMin(c) + k /\ PairOf(c, b, k).ir \in Slots
         /\ PairOf(c, b, k).in = Commands!Older(c, b, k) /\ PairOf(c, b, k).in \in Slots
<1>1. IrMin(c) + k \in IrMin(c) .. IrMax(c)
  <2>1. IrMin(c) \in Int /\ IrMax(c) = IrMin(c) + BLOCK_NUM - 1
    BY RingTypes
  <2> HIDE DEF IrMin, IrMax
  <2> QED BY <2>1, Sizes
<1>2. Commands!Older(c, b, k) \in Slots
  BY OlderBlocks, RingTypes
<1> QED BY <1>1, <1>2, RingTypes DEF PairOf

LEMMA NextPair ==
  ASSUME NEW c, NEW b, NEW e, NEW k \in Nat
  PROVE  /\ RealOf(c, b, e, k + 1) = RealOf(c, b, e, k) \cup Real(PairOf(c, b, k), e)
         /\ ImagOf(c, b, e, k + 1) = ImagOf(c, b, e, k) \cup Imag(PairOf(c, b, k), e)
         /\ RealOf(c, b, e, 0) = {} /\ ImagOf(c, b, e, 0) = {}
<1>1. 0 .. (k + 1) - 1 = (0 .. k - 1) \cup {k} /\ 0 .. 0 - 1 = {}
  OBVIOUS
<1> QED BY <1>1, Zenon DEF RealOf, ImagOf

(* The pairs of different impulse response blocks share no product.        *)
LEMMA DisjointPairs ==
  ASSUME NEW p, p.ir \in Slots, p.in \in Slots, NEW q, q.ir \in Slots, q.in \in Slots,
         p.ir # q.ir, NEW e \in Int
  PROVE  Real(p, e) \cap Real(q, e) = {} /\ Imag(p, e) \cap Imag(q, e) = {}
<1> DEFINE x == BlockWord(p.ir, e, 0)
           y == BlockWord(q.ir, e, 0)
           u == BlockWord(p.in, e, 0)
           v == BlockWord(q.in, e, 0)
<1>1. x \in Int /\ y \in Int /\ (x + 2 <= y \/ y + 2 <= x)
  <2>1. Base(p.ir) \in Int /\ Base(q.ir) \in Int
    BY BaseTypes DEF Slots
  <2> QED BY <2>1, DistinctBases DEF BlockWord
<1>2. /\ Real(p, e) = AC(x, u) \cup BD(x, u) /\ Imag(p, e) = AD(x, u) \cup BC(x, u)
      /\ Real(q, e) = AC(y, v) \cup BD(y, v) /\ Imag(q, e) = AD(y, v) \cup BC(y, v)
  BY BinProducts
<1> HIDE DEF x, y, u, v
<1>3. x # y /\ x # y + 1 /\ x + 1 # y /\ x + 1 # y + 1
  BY <1>1
<1>4. /\ \A s \in Real(p, e) \cup Imag(p, e) : s[2] \in {x, x + 1}
      /\ \A s \in Real(q, e) \cup Imag(q, e) : s[2] \in {y, y + 1}
  BY <1>2 DEF AC, BD, AD, BC, Plus, Minus
<1> QED BY <1>3, <1>4

LEMMA NewProducts ==
  ASSUME NEW c \in Channels, NEW b \in InMin(c) .. InMax(c), NEW k \in 0 .. BLOCK_NUM - 1,
         NEW e \in Int
  PROVE  /\ Add(RealOf(c, b, e, k), Real(PairOf(c, b, k), e)) = RealOf(c, b, e, k + 1)
         /\ Add(ImagOf(c, b, e, k), Imag(PairOf(c, b, k), e)) = ImagOf(c, b, e, k + 1)
<1>1. k \in Nat
  BY Sizes
<1>2. ASSUME NEW j \in 0 .. k - 1
      PROVE  /\ Real(PairOf(c, b, j), e) \cap Real(PairOf(c, b, k), e) = {}
             /\ Imag(PairOf(c, b, j), e) \cap Imag(PairOf(c, b, k), e) = {}
  <2>1. j \in 0 .. BLOCK_NUM - 1 /\ j # k /\ IrMin(c) \in Int
    BY <1>1, Sizes, RingTypes
  <2>2. PairOf(c, b, j).ir # PairOf(c, b, k).ir
    <3>1. PairOf(c, b, j).ir = IrMin(c) + j /\ PairOf(c, b, k).ir = IrMin(c) + k
      BY <2>1, PairTypes
    <3> HIDE DEF IrMin
    <3> QED BY <1>1, <2>1, <3>1
  <2> QED BY <2>1, <2>2, PairTypes, DisjointPairs
<1>3. /\ RealOf(c, b, e, k) \cap Real(PairOf(c, b, k), e) = {}
      /\ ImagOf(c, b, e, k) \cap Imag(PairOf(c, b, k), e) = {}
  BY <1>2, Zenon DEF RealOf, ImagOf
<1> QED BY <1>1, <1>3, NextPair DEF Add

(* The two products of a part are different.                               *)
LEMMA TwoProducts ==
  ASSUME NEW x \in Int, NEW y \in Int
  PROVE  /\ Add(AC(x, y), BD(x, y)) = AC(x, y) \cup BD(x, y)
         /\ Add(AD(x, y), BC(x, y)) = AD(x, y) \cup BC(x, y)
BY DEF Add, AC, BD, AD, BC, Plus, Minus

(* The products of two words are a sum, and so is what an addition gives.  *)
LEMMA ProductSums ==
  /\ \A x, y \in Int : Plus(x, y) \in Sums /\ Minus(x, y) \in Sums
  /\ \A s, t \in Sums : Add(s, t) \in Sums
  /\ {} \in Sums /\ Junk \in Sums
BY DEF Sums, Products, Plus, Minus, Add, Twice, Junk

-----------------------------------------------------------------------------
(* The SDRAM and the registers for words and sums                          *)

(* What the SDRAM stores in a cycle, if the address is in the block of     *)
(* sums.                                                                   *)
Stores(in) ==
  sums' = IF m.op = "write" /\ ~in.wait
          THEN IF Written % 2 = 0 THEN [sums EXCEPT !.r[Written \div 2] = m.data]
               ELSE [sums EXCEPT !.i[Written \div 2] = m.data]
          ELSE sums

WriteInside == m.op = "write" => Written \in 0 .. 2 * BLOCK_SIZE - 1

LEMMA ClockStores ==
  ASSUME Requests, WriteInside, NEW c \in CommandWords, NEW s \in BOOLEAN, Clock(c, s)
  PROVE  \E in : Cycle(in, s) /\ in.command = c /\ Stores(in) /\ damaged' = damaged
<1>2. PICK valid \in Valids : \E wait \in Waits(valid) :
        LET in == [command |-> c, wait |-> wait, valid |-> valid]
        IN Main(in) /\ Reply(s) /\ Sdram(in)
  BY DEF Clock
<1>3. PICK wait \in Waits(valid) :
        LET in == [command |-> c, wait |-> wait, valid |-> valid]
        IN Main(in) /\ Reply(s) /\ Sdram(in)
  BY <1>2
<1> DEFINE in == [command |-> c, wait |-> wait, valid |-> valid]
<1>4. Main(in) /\ Reply(s) /\ Sdram(in)
  BY <1>3
<1>5. valid \in BOOLEAN /\ wait \in BOOLEAN /\ (valid => flight.op # "none")
  BY DEF Valids, Waits
<1>6. in \in Inputs /\ Answered(in) /\ in.command = c
  BY <1>5 DEF Inputs, Answered
<1>7. Serves(in)
  BY <1>4 DEF Sdram, Serves
<1>8. Stores(in) /\ damaged' = damaged
  <2>1. CASE m.op = "write" /\ ~in.wait
    <3>1. Written \in 0 .. 2 * BLOCK_SIZE - 1 /\ m.op # "none"
      BY <2>1 DEF WriteInside
    <3> HIDE DEF in
    <3> QED BY <1>4, <2>1, <3>1 DEF Sdram, Stores
  <2>2. CASE ~ (m.op = "write" /\ ~in.wait)
    <3> HIDE DEF in
    <3> QED BY <1>4, <2>2 DEF Sdram, Stores
  <2> QED BY <2>1, <2>2
<1> HIDE DEF in
<1> QED BY <1>4, <1>6, <1>7, <1>8 DEF Cycle

(* A word of the block of sums and its bin.                                *)
LEMMA SumWords ==
  /\ \A k \in 0 .. 2 * BLOCK_SIZE - 1 : k \div 2 \in Bins
  /\ \A e \in Int : /\ (2 * e) \div 2 = e /\ (2 * e) % 2 = 0
                    /\ (2 * e + 1) \div 2 = e /\ (2 * e + 1) % 2 # 0
  /\ \A e \in Bins : 2 * e \in 0 .. 2 * BLOCK_SIZE - 1 /\ 2 * e + 1 \in 0 .. 2 * BLOCK_SIZE - 1
<1>1. BLOCK_SIZE \in Nat
  BY Sizes
<1>2. ASSUME NEW k \in 0 .. 2 * BLOCK_SIZE - 1
      PROVE  k \div 2 \in Bins
  BY <1>1, Z3T(20) DEF Bins
<1>3. ASSUME NEW e \in Int
      PROVE  /\ (2 * e) \div 2 = e /\ (2 * e) % 2 = 0
             /\ (2 * e + 1) \div 2 = e /\ (2 * e + 1) % 2 # 0
  BY Z3T(20)
<1>4. ASSUME NEW e \in Bins
      PROVE  2 * e \in 0 .. 2 * BLOCK_SIZE - 1 /\ 2 * e + 1 \in 0 .. 2 * BLOCK_SIZE - 1
  BY <1>1 DEF Bins
<1> QED BY <1>2, <1>3, <1>4

LEMMA SumTypes ==
  ASSUME DataTypes, WriteInside, NEW in, Stores(in)
  PROVE  sums' \in [r : [Bins -> Sums], i : [Bins -> Sums]]
<1>1. CASE m.op = "write" /\ ~in.wait
  <2> DEFINE k == Written \div 2
  <2>1. k \in Bins /\ m.data \in Sums
    BY <1>1, SumWords DEF WriteInside, DataTypes, Accesses
  <2>2. sums' = [sums EXCEPT !.r[k] = m.data] \/ sums' = [sums EXCEPT !.i[k] = m.data]
    BY <1>1 DEF Stores
  <2> HIDE DEF k, Sums, Bins
  <2> QED BY <2>1, <2>2 DEF DataTypes
<1>2. CASE ~ (m.op = "write" /\ ~in.wait)
  BY <1>2 DEF Stores, DataTypes
<1> QED BY <1>1, <1>2

(* What the MAC reads is a word, or a sum.                                 *)
LEMMA ReadTypes ==
  ASSUME ControlTypes, DataTypes
  PROVE  Word \in Int /\ Sum \in Sums
<1>1. Word \in Int
  BY DEF Word, ControlTypes, DataTypes, Accesses
<1>2. CHUNK_OFFSET \in Int
  <2>1. 4 * BLOCK_NUM \in Nat
    BY Sizes
  <2> HIDE DEF Base
  <2> QED BY <2>1, BaseTypes DEF CHUNK_OFFSET
<1> DEFINE k == Word - CHUNK_OFFSET
<1>3. CASE k \in 0 .. 2 * BLOCK_SIZE - 1
  <2>1. k \div 2 \in Bins
    BY <1>3, SumWords
  <2>2. Sum = IF k % 2 = 0 THEN sums.r[k \div 2] ELSE sums.i[k \div 2]
    BY <1>3 DEF Sum
  <2>3. sums \in [r : [Bins -> Sums], i : [Bins -> Sums]]
    BY DEF DataTypes
  <2>4. sums.r[k \div 2] \in Sums /\ sums.i[k \div 2] \in Sums
    <3> HIDE DEF k, Sums, Bins
    <3> QED BY <2>1, <2>3
  <2> HIDE DEF k, Sums
  <2> QED BY <1>1, <2>2, <2>4
<1>4. CASE k \notin 0 .. 2 * BLOCK_SIZE - 1
  <2>1. Sum = Junk
    BY <1>4 DEF Sum
  <2> QED BY <1>1, <2>1, ProductSums
<1> QED BY <1>1, <1>3, <1>4

LEMMA AccessTypes ==
  ASSUME ControlTypes, DataTypes, NEW in, Main(in), Serves(in)
  PROVE  m' \in Accesses /\ flight' \in Accesses
<1>1. NoAccess \in Accesses
  BY ProductSums DEF NoAccess, Accesses, Ops
<1>2. flight' \in Accesses
  BY <1>1 DEF Serves, DataTypes
<1>3. ASSUME NEW op \in {"read", "write"}, NEW addr \in Int, NEW data \in Sums,
             Request(op, addr, data)
      PROVE  m' \in Accesses
  BY <1>3 DEF Request, Accesses, Ops
<1>4. CASE Hold(in)
  BY <1>1, <1>2, <1>4 DEF Hold, DataTypes
<1>5. /\ at.ir_addr \in Int /\ at.in_addr \in Int /\ at.chunk_addr \in Int /\ at.cnt \in ChunkBins
      /\ at.in_addr + 1 \in Int /\ at.ir_addr + 1 \in Int /\ at.chunk_addr + 1 \in Int
  BY DEF ControlTypes
<1>6. {} \in Sums /\ array.r[at.cnt] \in Sums /\ array.i[at.cnt] \in Sums
  <2>1. array \in [r : [ChunkBins -> Sums], i : [ChunkBins -> Sums]]
    BY DEF DataTypes
  <2> HIDE DEF Sums, ChunkBins
  <2> QED BY <1>5, <2>1, ProductSums
<1>7. CASE AskA(in) \/ FetchA(in) \/ FetchC(in) \/ FetchD(in)
  <2>1. Hold(in) \/ \E addr \in {at.ir_addr, at.in_addr, at.in_addr + 1, at.ir_addr + 1} :
                      Request("read", addr, {})
    BY <1>7 DEF AskA, FetchA, FetchC, FetchD, Fetch
  <2> QED BY <1>2, <1>3, <1>4, <1>5, <1>6, <2>1
<1>8. CASE WriteSum(in)
  <2>1. \/ Request("write", at.chunk_addr, array.r[at.cnt])
        \/ Request("write", at.chunk_addr + 1, array.i[at.cnt])
    BY <1>8 DEF WriteSum
  <2> QED BY <1>2, <1>3, <1>5, <1>6, <2>1
<1>9. CASE AskSum(in)
  <2>1. Request("read", at.chunk_addr, {}) \/ Request("read", at.chunk_addr + 1, {})
    BY <1>9 DEF AskSum
  <2> QED BY <1>2, <1>3, <1>5, <1>6, <2>1
<1>10. \/ Hold(in) \/ AskA(in) \/ FetchA(in) \/ FetchC(in) \/ FetchD(in) \/ WriteSum(in)
       \/ AskSum(in)
  BY DEF Main, Listen, Reset, SetChannel, Select, MacInit, Wait, FetchB, NextBlock, WriteInit,
         RealWritten, BinWritten, GetInit, GetSum, ChunkDone
<1> QED BY <1>2, <1>4, <1>7, <1>8, <1>9, <1>10

LEMMA RegisterTypes ==
  ASSUME ControlTypes, DataTypes, NEW in, Main(in), state = "RESET" => at.i \in ChunkBins
  PROVE  /\ operand' \in [a : Int, b : Int, c : Int, d : Int]
         /\ alu' \in [ac : Sums, bc : Sums, bd : Sums, ad : Sums,
                      new_r : Sums, new_i : Sums, acc_r : Sums, acc_i : Sums]
         /\ array' \in [r : [ChunkBins -> Sums], i : [ChunkBins -> Sums]]
<1>1. /\ operand \in [a : Int, b : Int, c : Int, d : Int]
      /\ alu \in [ac : Sums, bc : Sums, bd : Sums, ad : Sums,
                  new_r : Sums, new_i : Sums, acc_r : Sums, acc_i : Sums]
      /\ array \in [r : [ChunkBins -> Sums], i : [ChunkBins -> Sums]]
      /\ at.cnt \in ChunkBins /\ at.chunk_prev \in ChunkBins
      /\ Word \in Int /\ Sum \in Sums /\ {} \in Sums
  BY ReadTypes, ProductSums DEF DataTypes, ControlTypes
<1> HIDE DEF Word, Sum, Sums, ChunkBins
<1>2. array.r[at.chunk_prev] \in Sums /\ array.i[at.chunk_prev] \in Sums
  BY <1>1
<1>3. CASE FetchA(in)
  <2>1. Plus(operand.b, operand.c) \in Sums /\ Minus(operand.b, operand.d) \in Sums
    BY <1>1, ProductSums
  <2>2. alu' = alu \/ alu' = [alu EXCEPT !.bc = Plus(operand.b, operand.c),
                                         !.bd = Minus(operand.b, operand.d),
                                         !.acc_i = array.i[at.chunk_prev]]
    BY <1>3 DEF FetchA
  <2> QED BY <1>1, <1>2, <1>3, <2>1, <2>2 DEF FetchA, Fetch
<1>4. CASE FetchC(in)
  <2>1. Add(alu.ac, alu.bd) \in Sums /\ Add(alu.ad, alu.bc) \in Sums
    BY <1>1, ProductSums
  <2>2. alu' = alu \/ alu' = [alu EXCEPT !.new_r = Add(alu.ac, alu.bd),
                                         !.new_i = Add(alu.ad, alu.bc),
                                         !.acc_r = array.r[at.chunk_prev]]
    BY <1>4 DEF FetchC
  <2> QED BY <1>1, <1>2, <1>4, <2>1, <2>2 DEF FetchC, Fetch
<1>5. CASE FetchD(in)
  <2>1. /\ Add(alu.acc_r, alu.new_r) \in Sums /\ Add(alu.acc_i, alu.new_i) \in Sums
        /\ Plus(operand.a, operand.c) \in Sums
    BY <1>1, ProductSums
  <2> QED BY <1>1, <1>5, <2>1 DEF FetchD, Fetch
<1>6. CASE FetchB(in)
  <2>1. Plus(operand.a, operand.d) \in Sums
    BY <1>1, ProductSums
  <2>2. array' = array \/ array' = [r |-> [array.r EXCEPT ![at.chunk_prev] = alu.acc_r],
                                    i |-> [array.i EXCEPT ![at.chunk_prev] = alu.acc_i]]
    BY <1>6 DEF FetchB
  <2> QED BY <1>1, <1>6, <2>1, <2>2 DEF FetchB
<1>7. CASE GetSum(in)
  <2>1. /\ \/ array' = [array EXCEPT !.r[at.cnt] = Sum]
           \/ array' = [array EXCEPT !.i[at.cnt] = Sum]
        /\ UNCHANGED <<operand, alu>>
    BY <1>7 DEF GetSum
  <2> QED BY <1>1, <2>1
<1>8. CASE Reset(in)
  BY <1>1, <1>8 DEF Reset
<1>9. CASE UNCHANGED sumVars
  BY <1>1, <1>9 DEF sumVars
<1>10. \/ FetchA(in) \/ FetchC(in) \/ FetchD(in) \/ FetchB(in) \/ GetSum(in) \/ Reset(in)
       \/ UNCHANGED sumVars
  BY DEF Main, Listen, SetChannel, Select, MacInit, AskA, Wait, NextBlock, WriteInit, WriteSum,
         RealWritten, BinWritten, GetInit, AskSum, ChunkDone
<1> QED BY <1>3, <1>4, <1>5, <1>6, <1>7, <1>8, <1>9, <1>10

-----------------------------------------------------------------------------
(* Addresses                                                               *)

(* While the MAC runs, the program polls and has told it where the area    *)
(* lies.                                                                   *)
LEMMA RunFacts ==
  ASSUME ControlInv, state \in Running
  PROVE  /\ pc = "run_wait" /\ at \in AtTypes /\ channel \in Channels
         /\ latest[channel] \in InMin(channel) .. InMax(channel)
         /\ area \in Int /\ Base(at.ir) \in Int /\ Base(at.in) \in Int
         /\ Based => base_addr = area
         /\ ~Waiting => Quiet
BY BaseTypes DEF ControlInv, ControlTypes, AtTypes, Polling, Resting, Running, Based, Requests,
     Slots

LEMMA ChunkBases ==
  ASSUME NEW p \in Int
  PROVE  ChunkBase(p) = CHUNK_OFFSET + 2 * (CHUNK_SIZE * p + 0) /\ CHUNK_OFFSET \in Int
<1>1. CHUNK_OFFSET \in Int /\ CHUNK_SIZE \in Int /\ p * CHUNK_SIZE = CHUNK_SIZE * p
  <2>1. 4 * BLOCK_NUM \in Nat
    BY Sizes
  <2>2. CHUNK_OFFSET \in Int
    BY <2>1, BaseTypes DEF CHUNK_OFFSET
  <2> QED BY <2>2, Sizes
<1>2. CHUNK_SIZE * p \in Int
  BY <1>1
<1> DEFINE s == CHUNK_SIZE * p
<1>3. ChunkBase(p) = CHUNK_OFFSET + s * 2
  BY <1>1 DEF ChunkBase
<1> HIDE DEF s
<1>4. s \in Int => CHUNK_OFFSET + s * 2 = CHUNK_OFFSET + 2 * (s + 0)
  BY <1>1
<1>5. s = CHUNK_SIZE * p
  BY DEF s
<1> QED BY <1>1, <1>2, <1>3, <1>4, <1>5

Addressed == {"GET_INIT"} \cup Getting \cup Pipeline
Chunked == {"GET_SET_ADDR", "GET_DATA"} \cup (Writing \ {"WRITE_INIT"})
NextBin == IF state \in Pipeline /\ post THEN at.i - 1 ELSE at.i
BlockPlaces == at.ir_addr = area + IrWord(NextBin) /\ at.in_addr = area + InWord(NextBin)
ChunkPlace == at.chunk_addr = area + CHUNK_OFFSET + 2 * (Start + at.cnt)

LEMMA LocatedParts ==
  Located <=>
    /\ state \in Addressed \/ (state \in Writing /\ ~goto_idle_after_write) => BlockPlaces
    /\ state \in Chunked => ChunkPlace
  BY DEF Located, Addressed, Chunked, NextBin, BlockPlaces, ChunkPlace

LEMMA LocatedStep ==
  ASSUME ControlInv, Based, Located, LastBlock, NEW in, in.command \in CommandWords, Main(in),
         area' = area
  PROVE  Located'
<1> USE DEF Addressed, Chunked, Running, Getting, Pipeline, Writing
<1> HIDE DEF Base, Start
<1>1. at \in AtTypes /\ channel \in Channels /\ area \in Int
  BY DEF ControlInv, ControlTypes, AtTypes
<1>2. /\ state \in Addressed \/ (state \in Writing /\ ~goto_idle_after_write) => BlockPlaces
      /\ state \in Chunked => ChunkPlace
  BY LocatedParts
<1>3. ASSUME /\ state' \in Addressed
                  \/ (state' \in Writing /\ ~goto_idle_after_write') => BlockPlaces'
             /\ state' \in Chunked => ChunkPlace'
      PROVE  Located'
  BY <1>3 DEF Located, Addressed, Chunked, NextBin, BlockPlaces, ChunkPlace
<1>4. ASSUME UNCHANGED <<at.i, at.ir, at.in, at.ir_addr, at.in_addr, post>>,
             state \in Pipeline \/ ~post, state' \in Pipeline <=> state \in Pipeline
      PROVE  BlockPlaces <=> BlockPlaces'
  <2>1. NextBin' = NextBin
    BY <1>4 DEF NextBin
  <2> HIDE DEF NextBin
  <2> QED BY <1>4, <2>1 DEF BlockPlaces, IrWord, InWord
<1>5. ASSUME UNCHANGED <<at.chunk_pointer, at.chunk_addr, at.cnt>>
      PROVE  ChunkPlace <=> ChunkPlace'
  BY <1>5 DEF ChunkPlace, Start
<1>6. CASE Listen(in) \/ Reset(in) \/ SetChannel(in) \/ Select(in)
  <2>1. state' \in {"IDLE", "RESET", "SET_LEFT", "SET_RIGHT", "SELECT", "INIT"}
    BY <1>6 DEF Listen, Reset, SetChannel, Select, CommandWords
  <2> QED BY <1>3, <2>1
<1>7. ASSUME state' \in Addressed \/ state' \in Writing, state' \notin Chunked,
             NEW ir \in Slots, NEW i2 \in Slots, UNCHANGED base_addr, state \in Running,
             at'.i = 0, at'.ir = ir, at'.in = i2, at'.ir_addr = base_addr + Base(ir),
             at'.in_addr = base_addr + Base(i2), ~post'
      PROVE  Located'
  <2>1. NextBin' = 0 /\ base_addr = area
    BY <1>7, RunFacts DEF NextBin
  <2>2. IrWord(0)' = Base(ir) /\ InWord(0)' = Base(i2)
    BY <1>7, BinWords DEF IrWord, InWord
  <2>3. BlockPlaces'
    BY <1>7, <2>1, <2>2 DEF BlockPlaces
  <2> QED BY <1>3, <1>7, <2>3
<1>8. CASE MacInit(in)
  <2>1. latest_in_block \in Slots /\ IrMin(channel) \in Slots
    BY <1>1, RingTypes DEF ControlInv, ControlTypes
  <2> DEFINE ir == IrMin(channel)
             x == base_addr + Base(ir)
             y == base_addr + Base(latest_in_block)
  <2>2. /\ state = "INIT" /\ state' = "GET_INIT" /\ ~post' /\ UNCHANGED base_addr
        /\ at' = [at EXCEPT !.i = 0, !.chunk = 0, !.chunk_prev = 0, !.in = latest_in_block,
                    !.ir = ir, !.chunk_pointer = 0, !.ir_addr = x, !.in_addr = y]
    BY <1>8 DEF MacInit, ringVars
  <2> HIDE DEF ir, x, y
  <2>3. /\ at'.i = 0 /\ at'.ir = ir /\ at'.in = latest_in_block
        /\ at'.ir_addr = x /\ at'.in_addr = y
    BY <1>1, <2>2 DEF AtTypes
  <2>4. ir \in Slots /\ x = base_addr + Base(ir) /\ y = base_addr + Base(latest_in_block)
    BY <2>1 DEF ir, x, y
  <2> QED BY <1>7, <2>1, <2>2, <2>3, <2>4
<1>9. CASE AskA(in) \/ Wait(in) \/ FetchA(in) \/ FetchC(in) \/ FetchD(in)
  <2>1. /\ UNCHANGED <<at, post, goto_idle_after_write>>
        /\ \/ state \in Pipeline /\ state' \in Pipeline
           \/ state' = state /\ state \in {"GET_DATA", "WRITE_1_WAIT", "WRITE_2_WAIT"}
    BY <1>9 DEF AskA, Wait, FetchA, FetchC, FetchD, Fetch, fsmVars
  <2>2. state \in Pipeline \/ ~post
    BY <2>1 DEF ControlInv, Counted
  <2> QED BY <1>2, <1>3, <1>4, <1>5, <2>1, <2>2
<1>10. CASE FetchB(in)
  <2>1. /\ state = "B" /\ AfterBin /\ at.i \in Int /\ BlockPlaces
        /\ Base(at.ir) \in Int /\ Base(at.in) \in Int /\ at.ir \in Slots /\ at.in \in Slots
    BY <1>1, <1>2, <1>10, RunFacts DEF FetchB, AtTypes
  <2>2. ASSUME NEW bin \in Int, at'.ir = at.ir, at'.in = at.in,
               \/ NextBin = bin /\ NextBin' = bin
                  /\ at'.ir_addr = at.ir_addr /\ at'.in_addr = at.in_addr
               \/ NextBin = bin /\ NextBin' = bin + 1
                  /\ at'.ir_addr = at.ir_addr + 2 /\ at'.in_addr = at.in_addr + 2
        PROVE  BlockPlaces'
    <3>1. /\ IrWord(bin)' = IrWord(bin) /\ IrWord(bin + 1)' = IrWord(bin) + 2 /\ IrWord(bin) \in Int
          /\ InWord(bin)' = InWord(bin) /\ InWord(bin + 1)' = InWord(bin) + 2 /\ InWord(bin) \in Int
      BY <2>1, <2>2, BinWords DEF IrWord, InWord
    <3> HIDE DEF IrWord, InWord, NextBin
    <3> QED BY <1>1, <2>1, <2>2, <3>1 DEF BlockPlaces
  <2>3. CASE ~post /\ state' = "A_ADDR" /\ post' = TRUE /\ at' = NextBinOf(at)
    <3>1. /\ at'.ir = at.ir /\ at'.in = at.in /\ at'.ir_addr = at.ir_addr
          /\ at'.in_addr = at.in_addr /\ at'.i = at.i + 1
      BY <1>1, <2>3 DEF NextBinOf, AtTypes
    <3>2. NextBin = at.i /\ NextBin' = at.i
      BY <2>1, <2>3, <3>1 DEF NextBin
    <3> HIDE DEF NextBin
    <3> QED BY <1>3, <2>1, <2>2, <2>3, <3>1, <3>2
  <2>4. CASE state' = "NEXT_BLOCK"
    BY <1>3, <2>4
  <2>5. CASE post /\ state' = "WRITE_INIT" /\ post' = FALSE /\ at' = NextAddressOf(at)
    <3>1. /\ at'.ir = at.ir /\ at'.in = at.in /\ at'.ir_addr = at.ir_addr + 2
          /\ at'.in_addr = at.in_addr + 2 /\ at'.i = at.i
      BY <1>1, <2>5 DEF NextAddressOf, AtTypes
    <3>2. NextBin = at.i - 1 /\ NextBin' = (at.i - 1) + 1 /\ at.i - 1 \in Int
      BY <2>1, <2>5, <3>1 DEF NextBin
    <3> HIDE DEF NextBin
    <3> QED BY <1>3, <2>1, <2>2, <2>5, <3>1, <3>2
  <2>6. CASE ~post /\ state' = "A_ADDR" /\ UNCHANGED post /\ at' = NextAddressOf(NextBinOf(at))
    <3>1. /\ at'.ir = at.ir /\ at'.in = at.in /\ at'.ir_addr = at.ir_addr + 2
          /\ at'.in_addr = at.in_addr + 2 /\ at'.i = at.i + 1
      BY <1>1, <2>6 DEF NextAddressOf, NextBinOf, AtTypes
    <3>2. NextBin = at.i /\ NextBin' = at.i + 1
      BY <2>1, <2>6, <3>1 DEF NextBin
    <3> HIDE DEF NextBin
    <3> QED BY <1>3, <2>1, <2>2, <2>6, <3>1, <3>2
  <2> QED BY <2>1, <2>3, <2>4, <2>5, <2>6, AfterBinCases DEF ControlInv
<1>11. CASE NextBlock(in)
  <2> DEFINE last == at.ir = IrMax(channel)
             ir == IF last THEN at.ir ELSE at.ir + 1
             back == IF at.in = InMin(channel) THEN InMax(channel) ELSE at.in - 1
             x == base_addr + Base(ir)
             y == base_addr + Base(back)
  <2>1. /\ state = "NEXT_BLOCK" /\ state' = "WRITE_INIT" /\ ~post' /\ UNCHANGED base_addr
        /\ at' = [at EXCEPT !.ir = ir, !.in = back, !.i = 0, !.chunk = 0,
                    !.chunk_prev = 0, !.ir_addr = x, !.in_addr = y]
    BY <1>11 DEF NextBlock, ringVars
  <2> HIDE DEF ir, back, x, y
  <2>2. /\ at'.i = 0 /\ at'.ir = ir /\ at'.in = back /\ at'.ir_addr = x /\ at'.in_addr = y
    BY <1>1, <2>1 DEF AtTypes
  <2>3. ir \in Slots /\ back \in Slots
    <3>1. at' \in AtTypes
      BY CounterStep DEF ControlInv
    <3> QED BY <2>2, <3>1 DEF AtTypes
  <2>4. x = base_addr + Base(ir) /\ y = base_addr + Base(back)
    BY DEF x, y
  <2> QED BY <1>7, <2>1, <2>2, <2>3, <2>4
<1>12. CASE WriteInit(in)
  <2> DEFINE x == base_addr + ChunkBase(at.chunk_pointer - 1)
  <2>1. /\ state = "WRITE_INIT" /\ state' = "WRITE_1" /\ UNCHANGED <<post, goto_idle_after_write>>
        /\ at' = [at EXCEPT !.cnt = 0, !.r = TRUE, !.chunk_addr = x]
    BY <1>12 DEF WriteInit
  <2> HIDE DEF x
  <2>2. /\ UNCHANGED <<at.i, at.ir, at.in, at.ir_addr, at.in_addr, at.chunk_pointer>>
        /\ at'.cnt = 0 /\ at'.chunk_addr = x /\ ~post /\ base_addr = area
             /\ at.chunk_pointer - 1 \in Int
    BY <1>1, <2>1, RunFacts DEF AtTypes, ControlInv, Counted
  <2>3. x = area + ChunkBase(at.chunk_pointer - 1)
    BY <2>2 DEF x
  <2>4. at'.chunk_addr = area + CHUNK_OFFSET + 2 * (Start + 0) /\ Start' = Start
    <3> DEFINE s == CHUNK_SIZE * (at.chunk_pointer - 1)
    <3>1. /\ ChunkBase(at.chunk_pointer - 1) = CHUNK_OFFSET + 2 * (s + 0)
          /\ CHUNK_OFFSET \in Int /\ s \in Int
      BY <2>2, ChunkBases, Sizes
    <3>2. Start = s /\ Start' = s
      BY <2>2 DEF Start
    <3> HIDE DEF s
    <3> QED BY <1>1, <2>2, <2>3, <3>1, <3>2
  <2>5. ChunkPlace'
    BY <2>2, <2>4 DEF ChunkPlace
  <2> QED BY <1>2, <1>3, <1>4, <2>1, <2>2, <2>5
<1>13. CASE WriteSum(in) \/ RealWritten(in)
  <2>1. /\ state \in Chunked \cap Writing /\ state' \in Chunked \cap Writing
        /\ UNCHANGED <<at, post, goto_idle_after_write>>
    BY <1>13 DEF WriteSum, RealWritten
  <2>2. ~post
    BY <2>1 DEF ControlInv, Counted
  <2> QED BY <1>2, <1>3, <1>4, <1>5, <2>1, <2>2
<1>14. CASE BinWritten(in)
  <2>1. /\ state = "WRITE_2_WAIT" /\ state' \in {"IDLE", "GET_INIT", "WRITE_1"} /\ UNCHANGED post
        /\ state' = "GET_INIT" => ~goto_idle_after_write
        /\ state' = "WRITE_1" => /\ goto_idle_after_write' = goto_idle_after_write
                                 /\ at'.cnt = at.cnt + 1 /\ at'.chunk_addr = at.chunk_addr + 2
                                 /\ at'.chunk_pointer = at.chunk_pointer
        /\ UNCHANGED <<at.i, at.ir, at.in, at.ir_addr, at.in_addr>>
    <3> DEFINE done == at.cnt = CHUNK_SIZE - 1
               cnt == IF done THEN 0 ELSE at.cnt + 1
               pointer == IF done /\ goto_idle_after_write THEN 0
                          ELSE PointerAfter(at.chunk_pointer, done)
    <3>1. /\ state = "WRITE_2_WAIT" /\ UNCHANGED post
          /\ state' = IF done /\ goto_idle_after_write THEN "IDLE"
                      ELSE IF done THEN "GET_INIT" ELSE "WRITE_1"
          /\ goto_idle_after_write' = (goto_idle_after_write /\ ~done)
          /\ at' = [at EXCEPT !.cnt = cnt, !.chunk_addr = @ + 2, !.chunk_pointer = pointer]
      BY <1>14 DEF BinWritten
    <3>2. ~done => cnt = at.cnt + 1 /\ pointer = at.chunk_pointer
      BY DEF PointerAfter
    <3>3. goto_idle_after_write \in BOOLEAN
      BY DEF ControlInv, ControlTypes
    <3> HIDE DEF done, cnt, pointer
    <3>4. /\ UNCHANGED <<at.i, at.ir, at.in, at.ir_addr, at.in_addr>>
          /\ at'.cnt = cnt /\ at'.chunk_addr = at.chunk_addr + 2 /\ at'.chunk_pointer = pointer
      BY <1>1, <3>1 DEF AtTypes
    <3> QED BY <3>1, <3>2, <3>3, <3>4
  <2>2. ~post
    BY <2>1 DEF ControlInv, Counted
  <2>3. state' = "WRITE_1" => ChunkPlace'
    <3>1. at.cnt \in Int /\ Start \in Int /\ CHUNK_OFFSET \in Int /\ ChunkPlace
      BY <1>1, <1>2, <2>1, ChunkFacts, ChunkBases DEF ControlInv, AtTypes, ChunkBins
    <3>2. state' = "WRITE_1" => Start' = Start
      BY <2>1 DEF Start
    <3> QED BY <1>1, <2>1, <3>1, <3>2 DEF ChunkPlace
  <2> QED BY <1>2, <1>3, <1>4, <2>1, <2>2, <2>3
<1>15. CASE GetInit(in)
  <2> DEFINE x == base_addr + ChunkBase(at.chunk_pointer)
  <2>1. /\ state = "GET_INIT" /\ state' = "GET_SET_ADDR"
             /\ UNCHANGED <<post, goto_idle_after_write>>
        /\ at' = [at EXCEPT !.cnt = 0, !.r = TRUE, !.chunk_pointer = @ + 1, !.chunk_addr = x]
    BY <1>15 DEF GetInit
  <2> HIDE DEF x
  <2>2. /\ UNCHANGED <<at.i, at.ir, at.in, at.ir_addr, at.in_addr>>
        /\ at'.chunk_pointer = at.chunk_pointer + 1 /\ at.chunk_pointer \in Int
        /\ at'.cnt = 0 /\ at'.chunk_addr = x /\ ~post /\ base_addr = area
    BY <1>1, <2>1, RunFacts DEF AtTypes, ControlInv, Counted
  <2>3. x = area + ChunkBase(at.chunk_pointer)
    BY <2>2 DEF x
  <2>4. at'.chunk_addr = area + CHUNK_OFFSET + 2 * (Start' + 0)
    <3> DEFINE s == CHUNK_SIZE * at.chunk_pointer
    <3>1. /\ ChunkBase(at.chunk_pointer) = CHUNK_OFFSET + 2 * (s + 0)
          /\ CHUNK_OFFSET \in Int /\ s \in Int
      BY <2>2, ChunkBases, Sizes
    <3>2. at'.chunk_pointer - 1 = at.chunk_pointer
      BY <2>2
    <3>3. Start' = s
      BY <3>2 DEF Start
    <3> HIDE DEF s
    <3> QED BY <1>1, <2>2, <2>3, <3>1, <3>3
  <2>5. ChunkPlace'
    BY <2>2, <2>4 DEF ChunkPlace
  <2> QED BY <1>2, <1>3, <1>4, <2>1, <2>2, <2>5
<1>16. CASE AskSum(in) \/ ChunkDone(in)
  <2>1. /\ \/ state = "GET_SET_ADDR" /\ state' = "GET_DATA" /\ at' = at
           \/ /\ state = "CHUNK_DONE" /\ state' = "A_ADDR"
              /\ at' = [at EXCEPT !.chunk = 0, !.chunk_prev = 0]
        /\ UNCHANGED <<post, goto_idle_after_write>>
    BY <1>16 DEF AskSum, ChunkDone
  <2>2. /\ UNCHANGED <<at.i, at.ir, at.in, at.ir_addr, at.in_addr>> /\ ~post
        /\ UNCHANGED <<at.chunk_pointer, at.chunk_addr, at.cnt>>
    BY <1>1, <2>1 DEF AtTypes, ControlInv, Counted
  <2>3. BlockPlaces'
    <3>1. NextBin' = NextBin
      BY <2>1, <2>2 DEF NextBin
    <3> HIDE DEF NextBin
    <3> QED BY <1>2, <2>1, <2>2, <3>1 DEF BlockPlaces, IrWord, InWord
  <2> QED BY <1>2, <1>3, <1>5, <2>1, <2>2, <2>3
<1>17. CASE GetSum(in)
  <2>1. /\ state = "GET_DATA" /\ state' \in {"GET_SET_ADDR", "CHUNK_DONE"}
        /\ UNCHANGED <<post, goto_idle_after_write>>
        /\ UNCHANGED <<at.i, at.ir, at.in, at.ir_addr, at.in_addr, at.chunk_pointer>>
        /\ state' = "GET_SET_ADDR" =>
             \/ UNCHANGED <<at.chunk_addr, at.cnt>>
             \/ at'.cnt = at.cnt + 1 /\ at'.chunk_addr = at.chunk_addr + 2
    BY <1>1, <1>17 DEF GetSum, AtTypes
  <2>2. ~post
    BY <2>1 DEF ControlInv, Counted
  <2>3. state' = "GET_SET_ADDR" => ChunkPlace'
    <3>1. at.cnt \in Int /\ Start \in Int /\ CHUNK_OFFSET \in Int /\ ChunkPlace
      BY <1>1, <1>2, <2>1, ChunkFacts, ChunkBases DEF ControlInv, AtTypes, ChunkBins
    <3>2. Start' = Start
      BY <2>1 DEF Start
    <3> QED BY <1>1, <2>1, <3>1, <3>2 DEF ChunkPlace
  <2> QED BY <1>2, <1>3, <1>4, <2>1, <2>2, <2>3
<1> QED BY <1>6, <1>8, <1>9, <1>10, <1>11, <1>12, <1>13, <1>14, <1>15, <1>16, <1>17 DEF Main

-----------------------------------------------------------------------------
(* Accesses and their answers                                              *)

(* A cycle without request and answer: nothing happens, or the SDRAM takes *)
(* the access.                                                             *)
LEMMA HoldWaits ==
  ASSUME Requests, NEW in, Serves(in), Hold(in), ~in.valid
  PROVE  \/ m' = m /\ flight' = flight /\ (m.op = "none" \/ in.wait)
         \/ m # NoAccess /\ ~in.wait /\ m' = NoAccess /\ flight' = m
BY DEF Requests, Serves, Hold, NoAccess

(* The answer that comes is the one that is waited for.                    *)
LEMMA Answer ==
  ASSUME ControlInv, Asked, Waiting, NEW in, Answered(in), in.valid
  PROVE  flight = Access /\ m = NoAccess
<1>1. flight.op # "none" /\ NoAccess.op = "none"
  BY DEF Answered, NoAccess
<1>2. flight # NoAccess /\ m = NoAccess
  BY <1>1 DEF ControlInv, Requests
<1> QED BY <1>2 DEF Asked

LEMMA AccessParts ==
  /\ Access.op = IF state \in {"WRITE_1_WAIT", "WRITE_2_WAIT"} THEN "write" ELSE "read"
  /\ Access.addr = Wanted
BY DEF Access

(* The read answers are the words and sums that the pipeline is at.        *)
LEMMA WordRead ==
  ASSUME ControlInv, Based, Located, Asked, Waiting, NEW in, Answered(in), in.valid
  PROVE  /\ state = "A" => Word = IrWord(at.i)
         /\ state = "C" => Word = InWord(at.i)
         /\ state = "D" => Word = InWord(at.i) + 1
         /\ state = "B" => Word = IrWord(at.i) + 1
<1>1. flight.addr = Wanted
  BY Answer, AccessParts
<1>2. /\ at \in AtTypes /\ area \in Int /\ Base(at.ir) \in Int /\ Base(at.in) \in Int
      /\ at.ir \in Slots /\ at.in \in Slots
  <2>1. state \in Running
    BY DEF Waiting, Running
  <2> QED BY <2>1, RunFacts DEF AtTypes
<1>3. state \in {"A", "C", "D", "B"} =>
        at.ir_addr = area + IrWord(at.i) /\ at.in_addr = area + InWord(at.i)
  BY DEF Located, Pipeline, Waiting
<1>4. IrWord(at.i) \in Int /\ InWord(at.i) \in Int
  BY <1>2, BinWords DEF IrWord, InWord, AtTypes
<1> HIDE DEF IrWord, InWord
<1> QED BY <1>1, <1>2, <1>3, <1>4 DEF Word, Wanted

LEMMA ChunkWords ==
  ASSUME ControlInv, state \in {"GET_SET_ADDR", "GET_DATA"} \cup Writing
  PROVE  /\ Start + at.cnt \in Bins /\ at.cnt \in Int /\ Start \in Nat
         /\ CHUNK_OFFSET \in Int /\ area \in Int
<1>1. Start \in Nat /\ Start + CHUNK_SIZE <= BLOCK_SIZE
  BY ChunkFacts DEF ControlInv, Getting
<1>2. at.cnt \in ChunkBins /\ area \in Int
  BY DEF ControlInv, ControlTypes
<1>3. CHUNK_OFFSET \in Int
  BY ChunkBases
<1> HIDE DEF Start
<1> QED BY <1>1, <1>2, <1>3, Sizes DEF Bins, ChunkBins

LEMMA SumRead ==
  ASSUME ControlInv, Based, Located, Asked, state = "GET_DATA", NEW in, Answered(in), in.valid
  PROVE  Sum = IF at.r THEN sums.r[Start + at.cnt] ELSE sums.i[Start + at.cnt]
<1>1. flight.addr = Wanted
  BY Answer, AccessParts DEF Waiting
<1>2. /\ Start + at.cnt \in Bins /\ CHUNK_OFFSET \in Int /\ area \in Int /\ at.r \in BOOLEAN
  BY ChunkWords DEF ControlInv, ControlTypes
<1> DEFINE e == Start + at.cnt
<1>3. at.chunk_addr = area + CHUNK_OFFSET + 2 * e
  BY DEF Located, Writing
<1>4. Wanted = IF at.r THEN at.chunk_addr ELSE at.chunk_addr + 1
  BY <1>2 DEF Wanted
<1> HIDE DEF e
<1>5. e \in Bins /\ e \in Int
  BY <1>2 DEF e, Bins
<1>6. Word - CHUNK_OFFSET = IF at.r THEN 2 * e ELSE 2 * e + 1
  BY <1>1, <1>2, <1>3, <1>4, <1>5 DEF Word
<1>7. Sum = IF at.r THEN sums.r[e] ELSE sums.i[e]
  BY <1>5, <1>6, SumWords DEF Sum
<1> QED BY <1>7 DEF e

(* A sum that is written goes where it belongs.                            *)
LEMMA WrittenWord ==
  ASSUME ControlInv, Located, state \in {"WRITE_1", "WRITE_1_WAIT", "WRITE_2", "WRITE_2_WAIT"}
  PROVE  /\ at.chunk_addr - area - CHUNK_OFFSET = 2 * (Start + at.cnt)
         /\ (at.chunk_addr + 1) - area - CHUNK_OFFSET = 2 * (Start + at.cnt) + 1
         /\ at.chunk_addr - area - CHUNK_OFFSET \in 0 .. 2 * BLOCK_SIZE - 1
         /\ (at.chunk_addr + 1) - area - CHUNK_OFFSET \in 0 .. 2 * BLOCK_SIZE - 1
<1> DEFINE e == Start + at.cnt
<1>1. e \in Bins /\ CHUNK_OFFSET \in Int /\ area \in Int
  BY ChunkWords DEF Writing
<1>2. at.chunk_addr = area + CHUNK_OFFSET + 2 * e
  BY DEF Located, Writing
<1> HIDE DEF e
<1>3. e \in Int /\ 2 * e \in 0 .. 2 * BLOCK_SIZE - 1 /\ 2 * e + 1 \in 0 .. 2 * BLOCK_SIZE - 1
  BY <1>1, SumWords DEF Bins
<1>4. /\ at.chunk_addr - area - CHUNK_OFFSET = 2 * e
      /\ (at.chunk_addr + 1) - area - CHUNK_OFFSET = 2 * e + 1
  BY <1>1, <1>2, <1>3
<1> QED BY <1>3, <1>4 DEF e

LEMMA SumWritten ==
  ASSUME ControlInv, Located, Asked, state \in {"WRITE_1_WAIT", "WRITE_2_WAIT"},
         NEW in, Stores(in)
  PROVE  sums' = IF m = NoAccess \/ in.wait THEN sums
                 ELSE IF state = "WRITE_1_WAIT"
                 THEN [sums EXCEPT !.r[Start + at.cnt] = array.r[at.cnt]]
                 ELSE [sums EXCEPT !.i[Start + at.cnt] = array.i[at.cnt]]
<1>1. CASE m = NoAccess \/ in.wait
  BY <1>1 DEF Stores, NoAccess
<1>2. CASE m # NoAccess /\ ~in.wait
  <2>1. m = Access
    BY <1>2 DEF Asked, Waiting
  <2>2. m.op = "write" /\ m.addr = Wanted
    BY <2>1, AccessParts
  <2>3. m.data = IF state = "WRITE_1_WAIT" THEN array.r[at.cnt] ELSE array.i[at.cnt]
    BY <2>1 DEF Access
  <2>4. Wanted = IF state = "WRITE_1_WAIT" THEN at.chunk_addr ELSE at.chunk_addr + 1
    BY DEF Wanted
  <2> DEFINE e == Start + at.cnt
  <2>5. Written = IF state = "WRITE_1_WAIT" THEN 2 * e ELSE 2 * e + 1
    <3>1. /\ at.chunk_addr - area - CHUNK_OFFSET = 2 * e
          /\ (at.chunk_addr + 1) - area - CHUNK_OFFSET = 2 * e + 1
      BY WrittenWord
    <3>2. Written = Wanted - area - CHUNK_OFFSET
      BY <2>2 DEF Written
    <3>3. CASE state = "WRITE_1_WAIT"
      <4>1. Written = at.chunk_addr - area - CHUNK_OFFSET
        BY <2>4, <3>2, <3>3
      <4> QED BY <3>1, <3>3, <4>1
    <3>4. CASE state = "WRITE_2_WAIT"
      <4>1. Wanted = at.chunk_addr + 1
        BY <2>4, <3>4
      <4>2. Written = (at.chunk_addr + 1) - area - CHUNK_OFFSET
        BY <3>2, <4>1
      <4> QED BY <3>1, <3>4, <4>2
    <3> QED BY <3>3, <3>4
  <2>6. e \in Int
    BY ChunkWords DEF Bins, Writing
  <2> HIDE DEF e
  <2>7. sums' = IF state = "WRITE_1_WAIT" THEN [sums EXCEPT !.r[e] = m.data]
                ELSE [sums EXCEPT !.i[e] = m.data]
    BY <1>2, <2>2, <2>5, <2>6, SumWords DEF Stores
  <2>8. sums' = IF state = "WRITE_1_WAIT" THEN [sums EXCEPT !.r[e] = array.r[at.cnt]]
                ELSE [sums EXCEPT !.i[e] = array.i[at.cnt]]
    BY <2>3, <2>7
  <2> QED BY <1>2, <2>8 DEF e
<1> QED BY <1>1, <1>2

(* Nothing is written but sums.                                            *)
LEMMA QuietSums ==
  ASSUME ControlInv, Asked, state \in Running \ {"WRITE_1_WAIT", "WRITE_2_WAIT"}, NEW in, Stores(in)
  PROVE  sums' = sums
<1>1. m = NoAccess \/ m.op = "read"
  <2>1. CASE Waiting
    <3>1. m = NoAccess \/ m = Access
      BY <2>1 DEF Asked
    <3> QED BY <3>1, AccessParts
  <2>2. CASE ~Waiting
    BY <2>2, RunFacts DEF Quiet
  <2> QED BY <2>1, <2>2
<1> QED BY <1>1 DEF Stores, NoAccess

LEMMA AskedStep ==
  ASSUME ControlInv, Based, Located, Asked, NEW in, in.command \in CommandWords, Main(in),
         Answered(in), Serves(in), pc # "boot", Requests', pc' # "boot",
         area' = area, damaged' = damaged
  PROVE  Asked'
<1> HIDE DEF Access, Wanted, Written, Base, Start
<1> USE DEF Running
<1>1. at \in AtTypes
  BY DEF ControlInv, ControlTypes, AtTypes
<1>2. ASSUME Waiting' => m' \in {NoAccess, Access'} /\ flight' \in {NoAccess, Access'},
             Waiting' => m' # NoAccess \/ flight' # NoAccess,
             WriteInside'
      PROVE  Asked'
  BY <1>2 DEF Asked, WriteInside
<1>3. WriteInside /\ NoAccess.op = "none"
  BY DEF Asked, WriteInside, NoAccess
<1>4. CASE ~Waiting'
  <2>1. m' = NoAccess
    BY <1>4 DEF Requests, Quiet
  <2> QED BY <1>2, <1>3, <1>4, <2>1 DEF WriteInside
<1>5. ASSUME NEW op \in {"read", "write"}, NEW addr, NEW data, Request(op, addr, data),
             in.valid \/ ~Waiting,
             Access' = [op |-> op, addr |-> addr, data |-> data],
             op = "write" => addr - area - CHUNK_OFFSET \in 0 .. 2 * BLOCK_SIZE - 1
      PROVE  Asked'
  <2>1. in.valid \/ Quiet
    BY <1>5 DEF ControlInv, Requests
  <2>2. m' = Access' /\ m'.op = op /\ m'.addr = addr /\ m' # NoAccess /\ flight' = NoAccess
    BY <1>3, <1>5, <2>1, RequestStep DEF ControlInv
  <2>3. WriteInside'
    BY <1>5, <2>2 DEF WriteInside, Written
  <2> QED BY <1>2, <2>2, <2>3
<1>6. CASE Wait(in)
  <2>1. UNCHANGED <<state, at, array, area, post>> /\ Hold(in) /\ Waiting
    BY <1>6 DEF Wait, fsmVars, sumVars, Waiting
  <2>2. Access' = Access
    BY <2>1 DEF Access, Wanted
  <2>3. ~in.valid
    <3> SUFFICES ASSUME in.valid PROVE FALSE
      OBVIOUS
    <3>1. flight.op = IF state \in {"WRITE_1_WAIT", "WRITE_2_WAIT"} THEN "write" ELSE "read"
      BY <2>1, Answer, AccessParts
    <3> QED BY <1>6, <3>1 DEF Wait, ReadValid, WriteValid
  <2>4. \/ m' = m /\ flight' = flight
        \/ m # NoAccess /\ m' = NoAccess /\ flight' = m
    BY <2>1, <2>3, HoldWaits DEF ControlInv
  <2>5. m' = m \/ m' = NoAccess
    BY <2>4
  <2>6. WriteInside'
    BY <1>3, <2>1, <2>5 DEF WriteInside, Written
  <2> QED BY <1>2, <2>1, <2>2, <2>4, <2>6 DEF Asked
<1>7. CASE AskA(in) /\ Waiting'
  <2>1. ~post' /\ state' = "A" /\ at' = at /\ Request("read", at.ir_addr, {}) /\ ~Waiting
    BY <1>7 DEF AskA, Waiting
  <2>2. Access' = [op |-> "read", addr |-> at.ir_addr, data |-> {}]
    BY <2>1 DEF Access, Wanted
  <2> QED BY <1>5, <2>1, <2>2
<1>8. CASE (FetchA(in) \/ FetchC(in) \/ FetchD(in)) /\ Waiting'
  <2>1. ~post /\ in.valid /\ at' = at
    BY <1>8 DEF FetchA, FetchC, FetchD, Fetch, Waiting, ReadValid
  <2>2. \/ state' = "C" /\ Request("read", at.in_addr, {})
        \/ state' = "D" /\ Request("read", at.in_addr + 1, {})
        \/ state' = "B" /\ Request("read", at.ir_addr + 1, {})
    BY <1>8, <2>1 DEF FetchA, FetchC, FetchD, Fetch
  <2>3. /\ state' = "C" => Access' = [op |-> "read", addr |-> at.in_addr, data |-> {}]
        /\ state' = "D" => Access' = [op |-> "read", addr |-> at.in_addr + 1, data |-> {}]
        /\ state' = "B" => Access' = [op |-> "read", addr |-> at.ir_addr + 1, data |-> {}]
    BY <2>1 DEF Access, Wanted
  <2> QED BY <1>5, <2>1, <2>2, <2>3
<1>9. CASE WriteSum(in)
  <2>1. /\ at' = at /\ array' = array /\ ~Waiting
        /\ \/ state = "WRITE_1" /\ state' = "WRITE_1_WAIT"
              /\ Request("write", at.chunk_addr, array.r[at.cnt])
           \/ state = "WRITE_2" /\ state' = "WRITE_2_WAIT"
              /\ Request("write", at.chunk_addr + 1, array.i[at.cnt])
    BY <1>9 DEF WriteSum, Waiting, sumVars
  <2>2. /\ state' = "WRITE_1_WAIT" =>
             Access' = [op |-> "write", addr |-> at.chunk_addr, data |-> array.r[at.cnt]]
        /\ state' = "WRITE_2_WAIT" =>
             Access' = [op |-> "write", addr |-> at.chunk_addr + 1, data |-> array.i[at.cnt]]
    BY <2>1 DEF Access, Wanted
  <2>3. /\ at.chunk_addr - area - CHUNK_OFFSET \in 0 .. 2 * BLOCK_SIZE - 1
        /\ (at.chunk_addr + 1) - area - CHUNK_OFFSET \in 0 .. 2 * BLOCK_SIZE - 1
    BY <2>1, WrittenWord
  <2> DEFINE x == at.chunk_addr
             y == at.chunk_addr + 1
             u == array.r[at.cnt]
             v == array.i[at.cnt]
  <2>4. CASE state = "WRITE_1"
    <3>1. /\ Request("write", x, u) /\ Access' = [op |-> "write", addr |-> x, data |-> u]
          /\ x - area - CHUNK_OFFSET \in 0 .. 2 * BLOCK_SIZE - 1 /\ ~Waiting
      BY <2>1, <2>2, <2>3, <2>4
    <3> HIDE DEF x, u
    <3> QED BY <1>5, <3>1
  <2>5. CASE state = "WRITE_2"
    <3>1. /\ Request("write", y, v) /\ Access' = [op |-> "write", addr |-> y, data |-> v]
          /\ y - area - CHUNK_OFFSET \in 0 .. 2 * BLOCK_SIZE - 1 /\ ~Waiting
      BY <2>1, <2>2, <2>3, <2>5
    <3> HIDE DEF y, v
    <3> QED BY <1>5, <3>1
  <2> QED BY <2>1, <2>4, <2>5
<1>10. CASE AskSum(in)
  <2>1. /\ at' = at /\ state' = "GET_DATA" /\ ~Waiting
        /\ Request("read", IF at.r THEN at.chunk_addr ELSE at.chunk_addr + 1, {})
    BY <1>10 DEF AskSum, Waiting
  <2>2. Access' = [op |-> "read", addr |-> IF at.r THEN at.chunk_addr ELSE at.chunk_addr + 1,
                   data |-> {}]
    BY <2>1 DEF Access, Wanted
  <2> QED BY <1>5, <2>1, <2>2
<1>11. CASE \/ Listen(in) \/ Reset(in) \/ SetChannel(in) \/ Select(in) \/ MacInit(in)
            \/ NextBlock(in) \/ WriteInit(in) \/ RealWritten(in) \/ GetInit(in) \/ GetSum(in)
            \/ ChunkDone(in)
  <2>1. ~Waiting'
    BY <1>11 DEF Listen, Reset, SetChannel, Select, MacInit, NextBlock, WriteInit, RealWritten,
                 GetInit, GetSum, ChunkDone, Waiting, CommandWords
  <2> QED BY <1>4, <2>1
<1>12. CASE FetchB(in) \/ BinWritten(in)
  <2>1. state' \in {"A_ADDR", "NEXT_BLOCK", "WRITE_INIT", "IDLE", "GET_INIT", "WRITE_1"}
    <3>1. CASE FetchB(in)
      BY <3>1, AfterBinCases DEF FetchB, ControlInv
    <3>2. CASE BinWritten(in)
      BY <3>2 DEF BinWritten
    <3> QED BY <1>12, <3>1, <3>2
  <2>2. ~Waiting'
    BY <2>1 DEF Waiting
  <2> QED BY <1>4, <2>2
<1> QED BY <1>4, <1>6, <1>7, <1>8, <1>9, <1>10, <1>11, <1>12 DEF Main

-----------------------------------------------------------------------------
(* The pipeline                                                            *)

(* The pair of blocks in work, and the bin before.                         *)
LEMMA PipelineFacts ==
  ASSUME ControlInv, state \in Pipeline
  PROVE  /\ at \in AtTypes /\ channel \in Channels /\ Age \in 0 .. BLOCK_NUM - 1
         /\ latest[channel] \in InMin(channel) .. InMax(channel)
         /\ at.ir = PairOf(channel, latest[channel], Age).ir /\ at.ir \in Slots
         /\ at.in = PairOf(channel, latest[channel], Age).in /\ at.in \in Slots
         /\ at.i \in Int /\ Old \in Int /\ Start \in Int
         /\ \A e \in Int : IrWord(e) \in Int /\ InWord(e) \in Int
         /\ ~pre => Old = Start + at.chunk_prev /\ at.chunk_prev \in ChunkBins
         /\ pre => ~post
<1>1. /\ at \in AtTypes /\ channel \in Channels /\ Age \in 0 .. BLOCK_NUM - 1
      /\ latest[channel] \in InMin(channel) .. InMax(channel)
      /\ at.in = Commands!Older(channel, latest[channel], Age)
      /\ at.i = Start + at.chunk /\ IF pre THEN at.chunk = 0 ELSE at.chunk = at.chunk_prev + 1
      /\ IF post THEN at.chunk = CHUNK_SIZE ELSE at.chunk < CHUNK_SIZE
  BY DEF ControlInv, ControlTypes, AtTypes, Selected, Counted, Walking, Pipeline, Running, Writing
<1>2. /\ PairOf(channel, latest[channel], Age).ir = IrMin(channel) + Age
      /\ PairOf(channel, latest[channel], Age).in = at.in
  BY <1>1, PairTypes
<1>3. at.ir = IrMin(channel) + Age
  <2>1. at.ir \in Int /\ IrMin(channel) \in Int
    BY <1>1, RingTypes DEF AtTypes, Slots
  <2> HIDE DEF IrMin
  <2> QED BY <2>1 DEF Age
<1>4. \A e \in Int : IrWord(e) \in Int /\ InWord(e) \in Int
  BY <1>1, BinWords DEF IrWord, InWord, AtTypes
<1>5. Start \in Int /\ at.i \in Int /\ at.chunk \in Int /\ at.chunk_prev \in ChunkBins
  BY <1>1, ChunkFacts DEF ControlInv, AtTypes
<1>6. Old \in Int /\ (~pre => Old = Start + at.chunk_prev)
  <2> HIDE DEF Start
  <2> QED BY <1>1, <1>5 DEF Old, ChunkBins
<1>7. pre => ~post
  BY <1>1, Sizes
<1> QED BY <1>1, <1>2, <1>3, <1>4, <1>5, <1>6, <1>7 DEF AtTypes

(* The steps inside the pipeline leave the counters alone.                 *)
LEMMA InnerStep ==
  ASSUME ControlInv, NEW in, in.command \in CommandWords, Main(in), state' \in Pipeline
  PROVE  \/ AskA(in) \/ FetchA(in) \/ FetchC(in) \/ FetchD(in)
            \/ (Wait(in) /\ state \in {"A", "C", "D", "B"})
         \/ FetchB(in) /\ state' = "A_ADDR" /\ ~post /\ pre' = FALSE
            /\ at'.i = at.i + 1 /\ at'.chunk_prev = at.chunk
            /\ UNCHANGED <<at.ir, at.in, at.chunk_pointer>>
         \/ ChunkDone(in) /\ state' = "A_ADDR" /\ pre' = TRUE
<1> USE DEF Pipeline
<1>1. CASE FetchB(in)
  <2>1. /\ ~post /\ state' = "A_ADDR" /\ pre' = FALSE /\ at \in AtTypes
        /\ at' = NextBinOf(at) \/ at' = NextAddressOf(NextBinOf(at))
    <3>1. state = "B" /\ AfterBin /\ state' # "NEXT_BLOCK" /\ state' # "WRITE_INIT"
      BY <1>1 DEF FetchB
    <3>2. at \in AtTypes
      BY DEF ControlInv, ControlTypes, AtTypes
    <3> QED BY <3>1, <3>2, AfterBinCases DEF ControlInv
  <2>2. /\ at'.i = at.i + 1 /\ at'.chunk_prev = at.chunk
        /\ UNCHANGED <<at.ir, at.in, at.chunk_pointer>>
    BY <2>1 DEF NextBinOf, NextAddressOf, AtTypes
  <2> QED BY <1>1, <2>1, <2>2
<1>2. CASE ChunkDone(in)
  <2>1. state = "CHUNK_DONE" /\ pre
    BY <1>2 DEF ChunkDone, ControlInv, Counted, Getting
  <2> QED BY <1>2, <2>1 DEF ChunkDone
<1>3. CASE Listen(in) \/ Reset(in) \/ SetChannel(in) \/ Select(in) \/ MacInit(in)
  BY <1>3 DEF Listen, Reset, SetChannel, Select, MacInit, CommandWords
<1>4. CASE \/ NextBlock(in) \/ WriteInit(in) \/ WriteSum(in) \/ RealWritten(in)
           \/ BinWritten(in) \/ GetInit(in) \/ AskSum(in) \/ GetSum(in)
  BY <1>4 DEF NextBlock, WriteInit, WriteSum, RealWritten, BinWritten, GetInit, AskSum, GetSum
<1>5. CASE Wait(in)
  BY <1>5 DEF Wait, fsmVars
<1> QED BY <1>1, <1>2, <1>3, <1>4, <1>5 DEF Main

LEMMA FetchedStep ==
  ASSUME ControlInv, Based, DataTypes, Located, Asked, Fetched, NEW in, in.command \in CommandWords,
         Main(in), Answered(in)
  PROVE  Fetched'
<1> USE DEF Pipeline
<1> HIDE DEF IrWord, InWord, AC
<1>1. SUFFICES ASSUME state' \in Pipeline, ~post', state' \in {"C", "D", "B"}
               PROVE  Fetched'
  BY DEF Fetched
<1>2. AskA(in) \/ FetchA(in) \/ FetchC(in) \/ FetchD(in)
          \/ (Wait(in) /\ state \in {"A", "C", "D", "B"})
  BY <1>1, InnerStep DEF AskA
<1>3. state \in Pipeline /\ ~post /\ post' = post /\ at' = at
  BY <1>1, <1>2 DEF AskA, FetchA, FetchC, FetchD, Fetch, Wait, fsmVars
<1>4. /\ IrWord(at.i)' = IrWord(at.i) /\ InWord(at.i)' = InWord(at.i)
  BY <1>3 DEF IrWord, InWord
<1>5. operand \in [a : Int, b : Int, c : Int, d : Int] /\ DOMAIN alu =
        {"ac", "bc", "bd", "ad", "new_r", "new_i", "acc_r", "acc_i"}
  BY DEF DataTypes
<1>6. CASE AskA(in)
  BY <1>1, <1>6 DEF AskA
<1>7. CASE Wait(in)
  BY <1>3, <1>4, <1>7 DEF Wait, fsmVars, sumVars, Fetched
<1>8. CASE FetchA(in)
  <2>1. /\ state = "A" /\ state' = "C" /\ in.valid /\ operand' = [operand EXCEPT !.a = Word]
    BY <1>3, <1>8 DEF FetchA, Fetch, ReadValid
  <2>2. operand'.a = IrWord(at.i)
    BY <1>3, <1>5, <2>1, WordRead DEF Waiting
  <2> QED BY <1>4, <2>1, <2>2 DEF Fetched
<1>9. CASE FetchC(in)
  <2>1. /\ state = "C" /\ state' = "D" /\ in.valid /\ operand' = [operand EXCEPT !.c = Word]
    BY <1>3, <1>9 DEF FetchC, Fetch, ReadValid
  <2>2. operand'.c = InWord(at.i) /\ operand'.a = operand.a
    BY <1>3, <1>5, <2>1, WordRead DEF Waiting
  <2>3. operand.a = IrWord(at.i)
    BY <1>3, <2>1 DEF Fetched
  <2> QED BY <1>4, <2>1, <2>2, <2>3 DEF Fetched
<1>10. CASE FetchD(in)
  <2>1. /\ state = "D" /\ state' = "B" /\ in.valid /\ operand' = [operand EXCEPT !.d = Word]
        /\ alu'.ac = Plus(operand.a, operand.c)
    BY <1>3, <1>5, <1>10 DEF FetchD, Fetch, ReadValid
  <2>2. operand'.d = InWord(at.i) + 1 /\ operand'.a = operand.a /\ operand'.c = operand.c
    BY <1>3, <1>5, <2>1, WordRead DEF Waiting
  <2>3. operand.a = IrWord(at.i) /\ operand.c = InWord(at.i)
    BY <1>3, <2>1 DEF Fetched
  <2>4. alu'.ac = AC(IrWord(at.i), InWord(at.i))
    BY <2>1, <2>3 DEF AC
  <2>5. AC(IrWord(at.i), InWord(at.i))' = AC(IrWord(at.i), InWord(at.i))
    BY <1>4 DEF AC
  <2> QED BY <1>4, <2>1, <2>2, <2>3, <2>4, <2>5 DEF Fetched
<1> QED BY <1>2, <1>6, <1>7, <1>8, <1>9, <1>10

LEMMA KeptStep ==
  ASSUME ControlInv, Based, DataTypes, Located, Asked, Fetched, Kept, NEW in,
         in.command \in CommandWords, Main(in), Answered(in)
  PROVE  Kept'
<1> USE DEF Pipeline
<1> HIDE DEF Old
<1> DEFINE x == IrWord(Old)
           y == InWord(Old)
<1>1. SUFFICES ASSUME state' \in Pipeline, ~pre', state' # "B"
               PROVE  Kept'
  BY DEF Kept
<1>2. /\ operand \in [a : Int, b : Int, c : Int, d : Int]
      /\ alu \in [ac : Sums, bc : Sums, bd : Sums, ad : Sums,
                  new_r : Sums, new_i : Sums, acc_r : Sums, acc_i : Sums]
  BY DEF DataTypes
<1>3. CASE FetchB(in)
  <2>1. /\ state = "B" /\ state' = "A_ADDR" /\ ~post /\ in.valid
        /\ at'.i = at.i + 1 /\ UNCHANGED <<at.ir, at.in>>
        /\ operand' = [operand EXCEPT !.b = Word]
        /\ alu' = [alu EXCEPT !.ad = Plus(operand.a, operand.d)]
    <3>1. ~post /\ state = "B" /\ state' = "A_ADDR" /\ at'.i = at.i + 1
              /\ UNCHANGED <<at.ir, at.in>>
      BY <1>1, <1>3, InnerStep DEF FetchB, AskA, FetchA, FetchC, FetchD, Fetch, Wait, fsmVars,
                                   ChunkDone
    <3> QED BY <1>3, <3>1 DEF FetchB, ReadValid
  <2>2. at.i \in Int /\ Old' = at.i
    <3>1. at.i \in Int
      BY <2>1, PipelineFacts
    <3> QED BY <2>1, <3>1 DEF Old
  <2>3. x' = IrWord(at.i) /\ y' = InWord(at.i)
    BY <2>1, <2>2 DEF IrWord, InWord
  <2>4. operand'.b = IrWord(at.i) + 1
    BY <1>2, <2>1, WordRead DEF Waiting
  <2>5. /\ operand'.c = InWord(at.i) /\ operand'.d = InWord(at.i) + 1
        /\ alu'.ac = AC(IrWord(at.i), InWord(at.i)) /\ operand.a = IrWord(at.i)
        /\ operand.d = InWord(at.i) + 1
    <3> HIDE DEF AC, IrWord, InWord
    <3> QED BY <1>2, <2>1 DEF Fetched
  <2>6. alu'.ad = AD(IrWord(at.i), InWord(at.i))
    BY <1>2, <2>1, <2>5 DEF AD
  <2>7. /\ AC(x, y)' = AC(IrWord(at.i), InWord(at.i)) /\ AD(x, y)' = AD(IrWord(at.i), InWord(at.i))
    BY <2>3 DEF AC, AD
  <2> HIDE DEF AC, AD, IrWord, InWord
  <2> QED BY <2>1, <2>3, <2>4, <2>5, <2>6, <2>7 DEF Kept
<1>4. CASE AskA(in) \/ FetchA(in) \/ FetchC(in) \/ FetchD(in)
               \/ (Wait(in) /\ state \in {"A", "C", "D", "B"})
  <2>1. /\ state \in Pipeline /\ ~pre /\ pre' = pre /\ at' = at
    BY <1>1, <1>4 DEF AskA, FetchA, FetchC, FetchD, Fetch, Wait, fsmVars
  <2>2. Old' = Old /\ x' = x /\ y' = y
    BY <2>1 DEF Old, IrWord, InWord
  <2>3. x \in Int /\ y \in Int
    BY <2>1, PipelineFacts
  <2> HIDE DEF x, y
  <2>4. /\ state \in {"A_ADDR", "A"} =>
             /\ operand.b = x + 1 /\ operand.c = y /\ operand.d = y + 1
        /\ state \in {"A_ADDR", "A", "C"} => alu.ac = AC(x, y) /\ alu.ad = AD(x, y)
        /\ state = "C" => alu.bc = BC(x, y) /\ alu.bd = BD(x, y)
        /\ state = "D" => /\ alu.new_r = AC(x, y) \cup BD(x, y)
                          /\ alu.new_i = AD(x, y) \cup BC(x, y)
    <3> HIDE DEF AC, AD, BC, BD, IrWord, InWord
    <3> QED BY <2>1 DEF Kept, x, y
  <2>5. ASSUME /\ state' \in {"A_ADDR", "A"} =>
                    /\ operand'.b = x + 1 /\ operand'.c = y /\ operand'.d = y + 1
               /\ state' \in {"A_ADDR", "A", "C"} => alu'.ac = AC(x, y) /\ alu'.ad = AD(x, y)
               /\ state' = "C" => alu'.bc = BC(x, y) /\ alu'.bd = BD(x, y)
               /\ state' = "D" => /\ alu'.new_r = AC(x, y) \cup BD(x, y)
                                 /\ alu'.new_i = AD(x, y) \cup BC(x, y)
        PROVE  Kept'
    <3>1. /\ IrWord(Old)' = x /\ InWord(Old)' = y
      BY <2>2 DEF x, y
    <3> HIDE DEF IrWord, InWord
    <3> QED BY <2>5, <3>1 DEF Kept, AC, AD, BC, BD
  <2> HIDE DEF AC, AD, BC, BD
  <2>6. CASE AskA(in)
    BY <2>4, <2>5, <2>6 DEF AskA, sumVars
  <2>7. CASE Wait(in)
    BY <2>4, <2>5, <2>7 DEF Wait, fsmVars, sumVars
  <2>8. CASE FetchA(in)
    <3>1. /\ state = "A" /\ state' = "C"
          /\ alu' = [alu EXCEPT !.bc = Plus(operand.b, operand.c),
                                !.bd = Minus(operand.b, operand.d),
                                !.acc_i = array.i[at.chunk_prev]]
      BY <2>1, <2>8 DEF FetchA, Fetch
    <3>2. Plus(operand.b, operand.c) = BC(x, y) /\ Minus(operand.b, operand.d) = BD(x, y)
      BY <2>4, <3>1 DEF BC, BD
    <3> QED BY <1>2, <2>4, <2>5, <3>1, <3>2
  <2>9. CASE FetchC(in)
    <3>1. /\ state = "C" /\ state' = "D"
          /\ alu' = [alu EXCEPT !.new_r = Add(alu.ac, alu.bd),
                                !.new_i = Add(alu.ad, alu.bc),
                                !.acc_r = array.r[at.chunk_prev]]
      BY <2>1, <2>9 DEF FetchC, Fetch
    <3>2. /\ Add(alu.ac, alu.bd) = AC(x, y) \cup BD(x, y)
          /\ Add(alu.ad, alu.bc) = AD(x, y) \cup BC(x, y)
      BY <2>3, <2>4, <3>1, TwoProducts
    <3> QED BY <1>2, <2>5, <3>1, <3>2
  <2>10. CASE FetchD(in)
    BY <1>1, <2>10 DEF FetchD, Fetch
  <2> QED BY <1>4, <2>6, <2>7, <2>8, <2>9, <2>10
<1> QED BY <1>1, <1>3, <1>4, InnerStep

LEMMA RingKept ==
  ASSUME NEW in, Main(in), state \in Walking
  PROVE  UNCHANGED <<channel, latest, base_addr>>
BY DEF Main, Listen, Reset, SetChannel, Select, MacInit, AskA, Wait, FetchA, FetchC, FetchD, Fetch,
       FetchB, NextBlock, WriteInit, WriteSum, RealWritten, BinWritten, GetInit, AskSum, GetSum,
       ChunkDone, ringVars, Walking, Running

LEMMA AccumulatedStep ==
  ASSUME ControlInv, DataTypes, Kept, Accumulated, Loaded, NEW in, in.command \in CommandWords,
         Main(in)
  PROVE  Accumulated'
<1> USE DEF Pipeline
<1> HIDE DEF Old, Age, Start
<1> DEFINE R(n) == RealOf(channel, latest[channel], Old, n)
           I(n) == ImagOf(channel, latest[channel], Old, n)
<1>1. SUFFICES ASSUME state' \in {"C", "D", "B"}, ~pre'
               PROVE  Accumulated'
  BY DEF Accumulated
<1>2. FetchA(in) \/ FetchC(in) \/ FetchD(in) \/ (Wait(in) /\ state \in {"A", "C", "D", "B"})
  BY <1>1, InnerStep DEF AskA
<1>3. /\ state \in {"A", "C", "D", "B"} /\ ~pre /\ pre' = pre /\ at' = at
  BY <1>1, <1>2 DEF FetchA, FetchC, FetchD, Fetch, Wait, fsmVars
<1>4. UNCHANGED <<channel, latest>>
  BY <1>3, RingKept DEF Walking, Running
<1>5. Old' = Old /\ Age' = Age
  BY <1>3, <1>4 DEF Old, Age
<1>6. /\ channel \in Channels /\ Age \in 0 .. BLOCK_NUM - 1 /\ Old \in Int
      /\ latest[channel] \in InMin(channel) .. InMax(channel)
      /\ at.ir = PairOf(channel, latest[channel], Age).ir /\ at.ir \in Slots
      /\ at.in = PairOf(channel, latest[channel], Age).in /\ at.in \in Slots
      /\ Old = Start + at.chunk_prev /\ at.chunk_prev \in ChunkBins
  BY <1>3, PipelineFacts
<1>7. alu \in [ac : Sums, bc : Sums, bd : Sums, ad : Sums,
               new_r : Sums, new_i : Sums, acc_r : Sums, acc_i : Sums]
  BY DEF DataTypes
<1>8. array.r[at.chunk_prev] = R(Age) /\ array.i[at.chunk_prev] = I(Age)
  <2>1. ~ (at.chunk_prev < at.chunk_prev)
    BY <1>6 DEF ChunkBins
  <2> HIDE DEF RealOf, ImagOf
  <2> QED BY <1>3, <1>6, <2>1 DEF Loaded, RealSum, ImagSum
<1>9. /\ state \in {"C", "D"} => alu.acc_i = I(Age)
      /\ state = "D" => alu.acc_r = R(Age)
      /\ state = "B" => alu.acc_r = R(Age + 1) /\ alu.acc_i = I(Age + 1)
  <2> HIDE DEF RealOf, ImagOf
  <2> QED BY <1>3 DEF Accumulated, RealSum, ImagSum
<1>10. ASSUME /\ state' \in {"C", "D"} => alu'.acc_i = I(Age)
              /\ state' = "D" => alu'.acc_r = R(Age)
              /\ state' = "B" => alu'.acc_r = R(Age + 1) /\ alu'.acc_i = I(Age + 1)
       PROVE  Accumulated'
  <2> HIDE DEF RealOf, ImagOf
  <2> QED BY <1>1, <1>4, <1>5, <1>10 DEF Accumulated, RealSum, ImagSum
<1>11. /\ Add(R(Age), Real(PairOf(channel, latest[channel], Age), Old)) = R(Age + 1)
       /\ Add(I(Age), Imag(PairOf(channel, latest[channel], Age), Old)) = I(Age + 1)
  BY <1>6, NewProducts
<1> HIDE DEF R, I
<1>12. CASE FetchA(in)
  <2>1. /\ state = "A" /\ state' = "C"
        /\ alu' = [alu EXCEPT !.bc = Plus(operand.b, operand.c),
                              !.bd = Minus(operand.b, operand.d),
                              !.acc_i = array.i[at.chunk_prev]]
    BY <1>3, <1>12 DEF FetchA, Fetch
  <2> QED BY <1>7, <1>8, <1>10, <2>1
<1>13. CASE FetchC(in)
  <2>1. /\ state = "C" /\ state' = "D"
        /\ alu' = [alu EXCEPT !.new_r = Add(alu.ac, alu.bd),
                              !.new_i = Add(alu.ad, alu.bc),
                              !.acc_r = array.r[at.chunk_prev]]
    BY <1>3, <1>13 DEF FetchC, Fetch
  <2> QED BY <1>7, <1>8, <1>9, <1>10, <2>1
<1>14. CASE FetchD(in)
  <2>1. /\ state = "D" /\ state' = "B"
        /\ alu'.acc_r = Add(alu.acc_r, alu.new_r) /\ alu'.acc_i = Add(alu.acc_i, alu.new_i)
    BY <1>3, <1>7, <1>14 DEF FetchD, Fetch
  <2>2. /\ alu.new_r = AC(IrWord(Old), InWord(Old)) \cup BD(IrWord(Old), InWord(Old))
        /\ alu.new_i = AD(IrWord(Old), InWord(Old)) \cup BC(IrWord(Old), InWord(Old))
    <3> HIDE DEF AC, AD, BC, BD, IrWord, InWord
    <3> QED BY <1>3, <2>1 DEF Kept
  <2> DEFINE p == PairOf(channel, latest[channel], Age)
  <2>3. alu.new_r = Real(p, Old) /\ alu.new_i = Imag(p, Old)
    <3>1. p.ir = at.ir /\ p.in = at.in
      BY <1>6
    <3> HIDE DEF p
    <3> QED BY <1>6, <2>2, <3>1, BinProducts DEF IrWord, InWord
  <2>4. alu'.acc_r = R(Age + 1) /\ alu'.acc_i = I(Age + 1)
    BY <1>9, <1>11, <2>1, <2>3
  <2> QED BY <1>10, <2>1, <2>4
<1>15. CASE Wait(in)
  BY <1>9, <1>10, <1>15 DEF Wait, fsmVars, sumVars
<1> QED BY <1>2, <1>12, <1>13, <1>14, <1>15

LEMMA LoadedStep ==
  ASSUME ControlInv, Based, DataTypes, Located, Asked, Accumulated, Loaded, Stored, LastBlock,
         NEW in, in.command \in CommandWords, Main(in), Answered(in)
  PROVE  Loaded'
<1> USE DEF Pipeline, Getting, Writing
<1> HIDE DEF Age, Start
<1> DEFINE R(e, n) == RealOf(channel, latest[channel], e, n)
           I(e, n) == ImagOf(channel, latest[channel], e, n)
<1>1. at \in AtTypes /\ array \in [r : [ChunkBins -> Sums], i : [ChunkBins -> Sums]]
  BY DEF ControlInv, ControlTypes, AtTypes, DataTypes
<1>2. CASE state' \notin Getting \cup Pipeline \cup {"NEXT_BLOCK"} \cup Writing
  BY <1>2 DEF Loaded
<1>3. CASE Listen(in) \/ Reset(in) \/ SetChannel(in) \/ Select(in) \/ MacInit(in)
  BY <1>2, <1>3 DEF Listen, Reset, SetChannel, Select, MacInit, CommandWords
<1>4. CASE state \in Walking /\ state' \in Getting \cup Pipeline \cup {"NEXT_BLOCK"} \cup Writing
  <2>1. UNCHANGED <<channel, latest>>
    BY <1>4, RingKept
  <2>2. /\ state \in Getting =>
             /\ \A j \in ChunkBins : state = "CHUNK_DONE" \/ j < at.cnt =>
                  array.r[j] = R(Start + j, Age) /\ array.i[j] = I(Start + j, Age)
             /\ state # "CHUNK_DONE" /\ ~at.r => array.r[at.cnt] = R(Start + at.cnt, Age)
        /\ state \in Pipeline =>
             \A j \in ChunkBins :
               LET n == IF ~pre /\ j < at.chunk_prev THEN Age + 1 ELSE Age
               IN array.r[j] = R(Start + j, n) /\ array.i[j] = I(Start + j, n)
        /\ state = "NEXT_BLOCK" =>
             \A j \in ChunkBins : /\ array.r[j] = R(Start + j, Age + 1)
                                  /\ array.i[j] = I(Start + j, Age + 1)
        /\ state \in Writing =>
             \A j \in ChunkBins : /\ array.r[j] = R(Start + j, Full)
                                  /\ array.i[j] = I(Start + j, Full)
    <3> HIDE DEF RealOf, ImagOf, Full
    <3> QED BY DEF Loaded, RealSum, ImagSum
  <2>3. ASSUME /\ state' \in Getting =>
                    /\ \A j \in ChunkBins : state' = "CHUNK_DONE" \/ j < at'.cnt =>
                         array'.r[j] = R(Start' + j, Age') /\ array'.i[j] = I(Start' + j, Age')
                    /\ state' # "CHUNK_DONE"
                         /\ ~at'.r => array'.r[at'.cnt] = R(Start' + at'.cnt, Age')
               /\ state' \in Pipeline =>
                    \A j \in ChunkBins :
                      LET n == IF ~pre' /\ j < at'.chunk_prev THEN Age' + 1 ELSE Age'
                      IN array'.r[j] = R(Start' + j, n) /\ array'.i[j] = I(Start' + j, n)
               /\ state' = "NEXT_BLOCK" =>
                    \A j \in ChunkBins : /\ array'.r[j] = R(Start' + j, Age' + 1)
                                         /\ array'.i[j] = I(Start' + j, Age' + 1)
               /\ state' \in Writing =>
                    \A j \in ChunkBins : /\ array'.r[j] = R(Start' + j, Full')
                                         /\ array'.i[j] = I(Start' + j, Full')
        PROVE  Loaded'
    <3> HIDE DEF RealOf, ImagOf, Full
    <3> QED BY <2>1, <2>3 DEF Loaded, RealSum, ImagSum
  <2> HIDE DEF R, I
  <2>4. ASSUME UNCHANGED <<at.ir, at.chunk_pointer>>
        PROVE  Age' = Age /\ Start' = Start
    BY <2>1, <2>4 DEF Age, Start
  <2>5. CASE GetInit(in)
    <3>1. state' = "GET_SET_ADDR" /\ at'.cnt = 0 /\ at'.r = TRUE
      BY <1>1, <2>5 DEF GetInit, AtTypes
    <3>2. \A j \in ChunkBins : ~ (j < 0)
      BY DEF ChunkBins
    <3> QED BY <2>3, <3>1, <3>2
  <2>6. CASE AskSum(in) \/ (Wait(in) /\ state \notin {"A", "C", "D", "B"} \cup Writing)
    <3>1. /\ state \in {"GET_SET_ADDR", "GET_DATA"} /\ state' \in {"GET_SET_ADDR", "GET_DATA"}
          /\ at' = at /\ array' = array
      BY <2>6 DEF AskSum, Wait, fsmVars, sumVars
    <3> QED BY <2>2, <2>3, <2>4, <3>1
  <2>7. CASE GetSum(in)
    <3>1. state = "GET_DATA" /\ in.valid /\ UNCHANGED <<at.ir, at.chunk_pointer>>
      BY <1>1, <2>7 DEF GetSum, ReadValid, AtTypes
    <3>2. /\ Start' = Start /\ Age' = Age /\ at.cnt \in ChunkBins /\ at.r \in BOOLEAN
      BY <1>1, <2>4, <3>1 DEF AtTypes
    <3>3. Sum = IF at.r THEN R(Start + at.cnt, Age) ELSE I(Start + at.cnt, Age)
      <4>1. Sum = IF at.r THEN sums.r[Start + at.cnt] ELSE sums.i[Start + at.cnt]
        BY <3>1, SumRead
      <4>2. Start + at.cnt \in Bins /\ ~ (Start + at.cnt < Start)
        BY <3>1, <3>2, ChunkWords DEF Bins, ChunkBins
      <4>3. sums.r[Start + at.cnt] = R(Start + at.cnt, Age)
                /\ sums.i[Start + at.cnt] = I(Start + at.cnt, Age)
        <5> HIDE DEF RealOf, ImagOf
        <5> QED BY <3>1, <4>2 DEF Stored, RealSum, ImagSum, R, I
      <4> QED BY <4>1, <4>3
    <3>4. CASE at.r
      <4>1. /\ array' = [array EXCEPT !.r[at.cnt] = Sum] /\ state' = "GET_SET_ADDR"
            /\ at' = [at EXCEPT !.r = FALSE]
        BY <2>7, <3>4 DEF GetSum
      <4>2. at'.cnt = at.cnt /\ ~at'.r
        BY <1>1, <4>1 DEF AtTypes
      <4>3. /\ array'.r[at.cnt] = Sum /\ array'.i = array.i
            /\ \A j \in ChunkBins : j # at.cnt => array'.r[j] = array.r[j]
        BY <1>1, <3>2, <4>1
      <4>4. \A j \in ChunkBins : j < at.cnt => j # at.cnt
        BY <3>2 DEF ChunkBins
      <4> QED BY <2>2, <2>3, <3>1, <3>2, <3>3, <3>4, <4>1, <4>2, <4>3, <4>4
    <3>5. CASE ~at.r
      <4> DEFINE done == at.cnt = CHUNK_SIZE - 1
                 cnt == IF done THEN 0 ELSE at.cnt + 1
      <4>1. /\ array' = [array EXCEPT !.i[at.cnt] = Sum]
            /\ state' = IF done THEN "CHUNK_DONE" ELSE "GET_SET_ADDR"
            /\ at' = [at EXCEPT !.r = TRUE, !.chunk_addr = @ + 2, !.cnt = cnt]
        BY <2>7, <3>5 DEF GetSum
      <4>2. at'.cnt = cnt /\ at'.r
        <5> HIDE DEF cnt
        <5> QED BY <1>1, <4>1 DEF AtTypes
      <4>3. /\ array'.i[at.cnt] = Sum /\ array'.r = array.r
            /\ \A j \in ChunkBins : j # at.cnt => array'.i[j] = array.i[j]
        BY <1>1, <3>2, <4>1
      <4>4. \A j \in ChunkBins : state' = "CHUNK_DONE" \/ j < cnt => j = at.cnt \/ j < at.cnt
        BY <3>2, <4>1, Sizes DEF ChunkBins
      <4>5. /\ array.r[at.cnt] = R(Start + at.cnt, Age)
            /\ \A j \in ChunkBins : j < at.cnt =>
                 array.r[j] = R(Start + j, Age) /\ array.i[j] = I(Start + j, Age)
        BY <2>2, <3>1, <3>5
      <4>6. state' \in {"CHUNK_DONE", "GET_SET_ADDR"}
        BY <4>1
      <4> HIDE DEF done, cnt
      <4>7. \A j \in ChunkBins : state' = "CHUNK_DONE" \/ j < cnt =>
              array'.r[j] = R(Start + j, Age) /\ array'.i[j] = I(Start + j, Age)
        BY <3>3, <3>5, <4>3, <4>4, <4>5
      <4> QED BY <2>3, <3>2, <4>2, <4>6, <4>7
    <3> QED BY <3>2, <3>4, <3>5
  <2>8. CASE ChunkDone(in)
    <3>1. /\ state = "CHUNK_DONE" /\ state' = "A_ADDR" /\ pre' = TRUE /\ array' = array
          /\ UNCHANGED <<at.ir, at.chunk_pointer>>
      BY <1>1, <2>8 DEF ChunkDone, sumVars, AtTypes, ControlInv, Counted
    <3> QED BY <2>2, <2>3, <2>4, <3>1
  <2>9. CASE AskA(in) \/ FetchA(in) \/ FetchC(in) \/ FetchD(in)
             \/ (Wait(in) /\ state \in {"A", "C", "D", "B"})
    <3>1. state \in Pipeline /\ state' \in Pipeline /\ UNCHANGED <<at, pre, array>>
      BY <2>9 DEF AskA, FetchA, FetchC, FetchD, Fetch, Wait, fsmVars, sumVars
    <3>2. Age' = Age /\ Start' = Start
      BY <2>4, <3>1
    <3> QED BY <2>2, <2>3, <3>1, <3>2
  <2>10. CASE FetchB(in)
    <3>1. /\ state = "B" /\ AfterBin /\ at.chunk \in Int /\ at.chunk_prev \in ChunkBins
          /\ IF pre THEN at.chunk = 0 ELSE at.chunk = at.chunk_prev + 1
          /\ array' = IF pre THEN array
                      ELSE [r |-> [array.r EXCEPT ![at.chunk_prev] = alu.acc_r],
                            i |-> [array.i EXCEPT ![at.chunk_prev] = alu.acc_i]]
          /\ pre \in BOOLEAN
      BY <1>1, <2>10 DEF FetchB, ControlInv, ControlTypes, Counted, AtTypes
    <3>2. ~pre => /\ alu.acc_r = R(Start + at.chunk_prev, Age + 1)
                  /\ alu.acc_i = I(Start + at.chunk_prev, Age + 1)
      <4>1. ~pre => Old = Start + at.chunk_prev
        BY <3>1, PipelineFacts
      <4> HIDE DEF RealOf, ImagOf, Old
      <4> QED BY <3>1, <4>1 DEF Accumulated, RealSum, ImagSum, R, I
    <3>3. \A j \in ChunkBins :
            LET n == IF j < at.chunk THEN Age + 1 ELSE Age
            IN array'.r[j] = R(Start + j, n) /\ array'.i[j] = I(Start + j, n)
      <4>1. CASE pre
        <5>1. \A j \in ChunkBins : ~ (j < at.chunk)
          BY <3>1, <4>1 DEF ChunkBins
        <5> QED BY <2>2, <3>1, <4>1, <5>1
      <4>2. CASE ~pre
        <5>1. \A j \in ChunkBins : j < at.chunk <=> (j = at.chunk_prev \/ j < at.chunk_prev)
          BY <3>1, <4>2 DEF ChunkBins
        <5>2. \A j \in ChunkBins :
                /\ array'.r[j] = IF j = at.chunk_prev THEN alu.acc_r ELSE array.r[j]
                /\ array'.i[j] = IF j = at.chunk_prev THEN alu.acc_i ELSE array.i[j]
          BY <1>1, <3>1, <4>2
        <5>3. \A j \in ChunkBins : LET n == IF j < at.chunk_prev THEN Age + 1 ELSE Age
                                   IN array.r[j] = R(Start + j, n) /\ array.i[j] = I(Start + j, n)
          BY <2>2, <3>1, <4>2
        <5> QED BY <3>2, <4>2, <5>1, <5>2, <5>3
      <4> QED BY <3>1, <4>1, <4>2
    <3>4. /\ UNCHANGED <<at.ir, at.chunk_pointer>>
          /\ \/ state' = "A_ADDR" /\ at'.chunk_prev = at.chunk /\ pre' = FALSE
             \/ /\ state' \in {"NEXT_BLOCK", "WRITE_INIT"} /\ at.chunk = CHUNK_SIZE /\ at'.i = at.i
                /\ state' = "WRITE_INIT" => at.i = CHUNK_SIZE * at.chunk_pointer
      <4>1. post => at.chunk = CHUNK_SIZE
        BY <3>1 DEF ControlInv, Counted
      <4>2. /\ at' = NextBinOf(at) \/ at' = NextAddressOf(NextBinOf(at)) =>
                 at'.chunk_prev = at.chunk /\ UNCHANGED <<at.ir, at.chunk_pointer>>
            /\ at' = at \/ at' = NextAddressOf(at) => UNCHANGED <<at.i, at.ir, at.chunk_pointer>>
        BY <1>1 DEF NextBinOf, NextAddressOf, AtTypes
      <4> HIDE DEF NextBinOf, NextAddressOf
      <4> QED BY <3>1, <4>1, <4>2, AfterBinCases DEF ControlInv
    <3>5. Age' = Age /\ Start' = Start
      BY <2>4, <3>4
    <3>6. CASE state' = "A_ADDR"
      BY <2>3, <3>3, <3>4, <3>5, <3>6
    <3>7. CASE state' \in {"NEXT_BLOCK", "WRITE_INIT"}
      <4>1. \A j \in ChunkBins : j < at.chunk
        BY <3>4, <3>7, Sizes DEF ChunkBins
      <4>2. state' = "WRITE_INIT" => Full' = Age + 1
        <5>1. state' = "WRITE_INIT" => at'.i # 0
          <6>1. at.chunk_pointer \in 1 .. CHUNKS
            BY <3>1, ChunkFacts DEF ControlInv
          <6>2. /\ Start \in Nat /\ Start + CHUNK_SIZE = CHUNK_SIZE * at.chunk_pointer
            BY <3>1, ChunkFacts DEF ControlInv
          <6>3. CHUNK_SIZE * at.chunk_pointer # 0
            BY <6>2, Sizes
          <6> QED BY <3>4, <6>3
        <5> QED BY <3>5, <5>1 DEF Full
      <4> QED BY <2>3, <3>3, <3>5, <3>7, <4>1, <4>2
    <3> QED BY <3>4, <3>6, <3>7
  <2>11. CASE NextBlock(in)
    <3>1. /\ state = "NEXT_BLOCK" /\ state' = "WRITE_INIT" /\ array' = array
          /\ at'.i = 0 /\ UNCHANGED at.chunk_pointer /\ ~goto_idle_after_write
      BY <1>1, <2>11 DEF NextBlock, sumVars, AtTypes, LastBlock
    <3>2. Start' = Start
      BY <3>1 DEF Start
    <3>3. Full' = Age + 1
      <4>1. goto_idle_after_write' => Age' = Age
        BY <2>11, <3>1, WalkBack DEF ControlInv
      <4>2. ~goto_idle_after_write' => Age' = Age + 1
        BY <2>11, WalkBack DEF ControlInv
      <4> QED BY <3>1, <4>1, <4>2 DEF Full
    <3> QED BY <2>2, <2>3, <3>1, <3>2, <3>3
  <2>12. CASE WriteInit(in) \/ WriteSum(in) \/ RealWritten(in)
                  \/ (BinWritten(in) /\ state' = "WRITE_1")
              \/ (Wait(in) /\ state \in Writing)
    <3>1. /\ state \in Writing /\ state' \in Writing /\ array' = array
          /\ UNCHANGED <<at.i, at.ir, at.chunk_pointer, goto_idle_after_write>>
      <4>1. CASE WriteInit(in) \/ WriteSum(in) \/ RealWritten(in) \/ (Wait(in) /\ state \in Writing)
        BY <1>1, <4>1 DEF WriteInit, WriteSum, RealWritten, Wait, fsmVars, sumVars, AtTypes
      <4>2. CASE BinWritten(in) /\ state' = "WRITE_1"
        <5>1. at.cnt # CHUNK_SIZE - 1 /\ goto_idle_after_write \in BOOLEAN
          BY <4>2 DEF BinWritten, ControlInv, ControlTypes
        <5> QED BY <1>1, <4>2, <5>1 DEF BinWritten, sumVars, AtTypes, PointerAfter
      <4> QED BY <2>12, <4>1, <4>2
    <3>2. Start' = Start /\ Age' = Age
      BY <2>4, <3>1
    <3>3. Full' = Full
      BY <3>1, <3>2 DEF Full
    <3> HIDE DEF Full
    <3> QED BY <2>2, <2>3, <3>1, <3>2, <3>3
  <2>13. CASE BinWritten(in) /\ state' # "WRITE_1"
    <3>1. state' \in {"IDLE", "GET_INIT"}
      BY <2>13 DEF BinWritten
    <3> QED BY <1>2, <3>1
  <2> QED BY <1>3, <2>5, <2>6, <2>7, <2>8, <2>9, <2>10, <2>11, <2>12, <2>13 DEF Main
<1>5. state \in Walking \/ Listen(in) \/ Reset(in) \/ SetChannel(in) \/ Select(in) \/ MacInit(in)
  BY DEF Main, AskA, Wait, FetchA, FetchC, FetchD, Fetch, FetchB, NextBlock, WriteInit, WriteSum,
         RealWritten, BinWritten, GetInit, AskSum, GetSum, ChunkDone, Walking, Running
<1> QED BY <1>2, <1>3, <1>4, <1>5

(* The first bin whose sums are not yet complete for the pair in work.     *)
First == IF state = "GET_INIT" THEN CHUNK_SIZE * at.chunk_pointer ELSE Start
Between == {"GET_INIT", "NEXT_BLOCK"} \cup Getting \cup Pipeline

LEMMA StoredStep ==
  ASSUME ControlInv, DataTypes, Located, Asked, Loaded, Stored, Zeroed, LastBlock,
         NEW in, in.command \in CommandWords, Main(in), Answered(in), Serves(in), Stores(in)
  PROVE  Stored' /\ (state \in Running /\ state' = "IDLE" => Complete')
<1> USE DEF Pipeline, Getting, Writing, Between
<1> HIDE DEF Age, Start, Full, First
<1> DEFINE R(e, n) == RealOf(channel, latest[channel], e, n)
           I(e, n) == ImagOf(channel, latest[channel], e, n)
<1>1. at \in AtTypes /\ sums \in [r : [Bins -> Sums], i : [Bins -> Sums]]
  BY DEF ControlInv, ControlTypes, AtTypes, DataTypes
<1>2. ASSUME state' \notin Between \cup Writing, state \in Running => state' # "IDLE"
      PROVE  Stored' /\ (state \in Running /\ state' = "IDLE" => Complete')
  BY <1>2 DEF Stored
<1>3. CASE Listen(in) \/ Reset(in) \/ SetChannel(in) \/ Select(in)
  <2>1. /\ state' \in {"IDLE", "RESET", "SET_LEFT", "SET_RIGHT", "SELECT", "INIT"}
        /\ state \in Running => state' # "IDLE"
    BY <1>3 DEF Listen, Reset, SetChannel, Select, CommandWords, Running
  <2> QED BY <1>2, <2>1
<1>4. CASE MacInit(in)
  <2>1. /\ state = "INIT" /\ state' = "GET_INIT" /\ sums = ZeroSums /\ UNCHANGED <<channel, latest>>
    BY <1>4 DEF MacInit, Zeroed, ringVars
  <2>2. sums' = sums
    BY <2>1, QuietSums DEF Running
  <2>3. Age' = 0
    <3>1. at'.ir = IrMin(channel)
      BY <1>1, <1>4 DEF MacInit, AtTypes
    <3>2. IrMin(channel) \in Int
      BY RingTypes DEF ControlInv, ControlTypes
    <3>3. Age' = IrMin(channel) - IrMin(channel)
      BY <2>1, <3>1 DEF Age
    <3> HIDE DEF IrMin
    <3> QED BY <3>2, <3>3
  <2>4. \A e \in Bins : ~ (e < CHUNK_SIZE * at'.chunk_pointer)
    <3>1. at'.chunk_pointer = 0 /\ CHUNK_SIZE * 0 = 0
      BY <1>1, <1>4, Sizes DEF MacInit, AtTypes
    <3> QED BY <3>1 DEF Bins
  <2>5. \A e \in Bins : sums'.r[e] = {} /\ sums'.i[e] = {}
    BY <2>1, <2>2 DEF ZeroSums
  <2>6. \A e \in Bins : R(e, 0) = {} /\ I(e, 0) = {}
    BY NextPair
  <2>7. RealSum(0, 0)' = R(0, 0) /\ channel' = channel /\ latest' = latest
    BY <2>1 DEF RealSum
  <2> HIDE DEF RealOf, ImagOf
  <2> QED BY <2>1, <2>3, <2>4, <2>5, <2>6 DEF Stored, RealSum, ImagSum
<1>5. CASE state \in Walking
  <2>1. UNCHANGED <<channel, latest>>
    BY <1>5, RingKept
  <2>2. /\ state \in Between =>
             \A e \in Bins : LET n == IF e < First THEN Age + 1 ELSE Age
                             IN sums.r[e] = R(e, n) /\ sums.i[e] = I(e, n)
        /\ state \in Writing =>
             /\ \A e \in Bins : e < WrittenTo
                  \/ (e = WrittenTo /\ RealOut) => sums.r[e] = R(e, Full)
             /\ \A e \in Bins : e < WrittenTo
                  \/ (e = WrittenTo /\ ImagOut) => sums.i[e] = I(e, Full)
             /\ \A e \in Bins : e >= Start + CHUNK_SIZE =>
                  sums.r[e] = R(e, Full - 1) /\ sums.i[e] = I(e, Full - 1)
    <3> HIDE DEF RealOf, ImagOf, WrittenTo, RealOut, ImagOut
    <3> QED BY DEF Stored, RealSum, ImagSum, First
  <2>3. ASSUME /\ state' \in Between =>
                    \A e \in Bins : LET n == IF e < First' THEN Age' + 1 ELSE Age'
                                    IN sums'.r[e] = R(e, n) /\ sums'.i[e] = I(e, n)
               /\ state' \in Writing =>
                    /\ \A e \in Bins : e < WrittenTo'
                         \/ (e = WrittenTo' /\ RealOut') => sums'.r[e] = R(e, Full')
                    /\ \A e \in Bins : e < WrittenTo'
                         \/ (e = WrittenTo' /\ ImagOut') => sums'.i[e] = I(e, Full')
                    /\ \A e \in Bins : e >= Start' + CHUNK_SIZE =>
                         sums'.r[e] = R(e, Full' - 1) /\ sums'.i[e] = I(e, Full' - 1)
        PROVE  Stored'
    <3> HIDE DEF RealOf, ImagOf, WrittenTo, RealOut, ImagOut
    <3> QED BY <2>1, <2>3 DEF Stored, RealSum, ImagSum, First
  <2> HIDE DEF R, I
  <2>4. ASSUME UNCHANGED <<at.ir, at.chunk_pointer>>
        PROVE  Age' = Age /\ Start' = Start
    BY <2>1, <2>4 DEF Age, Start
  <2>5. state \in Running
    BY <1>5 DEF Walking
  <2>6. Age \in Int /\ Full \in Int
    <3>1. Age \in Int
      BY <1>5 DEF ControlInv, Selected
    <3> QED BY <3>1 DEF Full
  <2>7. CASE \/ GetInit(in) \/ AskSum(in) \/ GetSum(in) \/ ChunkDone(in) \/ AskA(in) \/ FetchA(in)
             \/ FetchC(in) \/ FetchD(in) \/ (Wait(in) /\ state \notin Writing)
             \/ (FetchB(in) /\ state' # "WRITE_INIT")
    <3>1. /\ state \in Between /\ state' \in Between /\ sums' = sums /\ at'.ir = at.ir
          /\ \/ GetInit(in)
             \/ state # "GET_INIT" /\ state' # "GET_INIT" /\ at'.chunk_pointer = at.chunk_pointer
      <4>1. state \in Between
        BY <2>7 DEF GetInit, AskSum, GetSum, ChunkDone, AskA, FetchA, FetchC, FetchD, Fetch,
             Wait, FetchB
      <4>2. sums' = sums
        BY <2>5, <4>1, QuietSums
      <4>3. CASE \/ GetInit(in) \/ AskSum(in) \/ GetSum(in) \/ ChunkDone(in)
        BY <1>1, <4>1, <4>2, <4>3 DEF GetInit, AskSum, GetSum, ChunkDone, AtTypes
      <4>4. CASE AskA(in) \/ FetchA(in) \/ FetchC(in) \/ FetchD(in)
                     \/ (Wait(in) /\ state \notin Writing)
        BY <4>1, <4>2, <4>4 DEF AskA, FetchA, FetchC, FetchD, Fetch, Wait, fsmVars
      <4>5. CASE FetchB(in) /\ state' # "WRITE_INIT"
        <5>1. /\ state = "B" /\ state' \in {"A_ADDR", "NEXT_BLOCK"}
              /\ at' \in {at, NextBinOf(at), NextAddressOf(NextBinOf(at))}
          BY <4>5, AfterBinCases DEF FetchB, ControlInv
        <5>2. UNCHANGED <<at.ir, at.chunk_pointer>>
          BY <1>1, <5>1 DEF NextBinOf, NextAddressOf, AtTypes
        <5> QED BY <4>2, <5>1, <5>2
      <4> QED BY <2>7, <4>3, <4>4, <4>5
    <3>2. First' = First
      <4>1. CASE GetInit(in)
        <5>1. state = "GET_INIT" /\ state' = "GET_SET_ADDR"
                  /\ at'.chunk_pointer = at.chunk_pointer + 1
              /\ at.chunk_pointer \in Int
          BY <1>1, <4>1 DEF GetInit, AtTypes
        <5>2. at'.chunk_pointer - 1 = at.chunk_pointer
          BY <5>1
        <5> QED BY <5>1, <5>2 DEF First, Start
      <4>2. CASE ~GetInit(in)
        BY <3>1, <4>2 DEF First, Start
      <4> QED BY <4>1, <4>2
    <3>3. Age' = Age
      BY <2>1, <3>1 DEF Age
    <3>4. state' # "IDLE" /\ state' \notin Writing
      BY <3>1
    <3>5. Stored'
      BY <2>2, <2>3, <3>1, <3>2, <3>3, <3>4
    <3> QED BY <3>4, <3>5
  <2>8. ASSUME state' = "WRITE_INIT", sums' = sums, state \in Between \ {"GET_INIT"},
               at'.chunk_pointer = at.chunk_pointer, Full' = Age + 1,
               Start + CHUNK_SIZE \in Int, Start \in Int
        PROVE  Stored'
    <3>1. Start' = Start /\ First = Start
      BY <2>8 DEF Start, First
    <3>2. WrittenTo' = Start /\ ~RealOut' /\ ~ImagOut'
      BY <2>8, <3>1 DEF WrittenTo, RealOut, ImagOut
    <3>3. \A e \in Bins : /\ e < Start => sums.r[e] = R(e, Age + 1) /\ sums.i[e] = I(e, Age + 1)
                          /\ e >= Start + CHUNK_SIZE =>
                               sums.r[e] = R(e, Age) /\ sums.i[e] = I(e, Age)
      <4>1. \A e \in Bins : e >= Start + CHUNK_SIZE => ~ (e < Start)
        BY <2>8, Sizes DEF Bins
      <4> QED BY <2>2, <2>8, <3>1, <4>1
    <3>4. Full' - 1 = Age
      BY <2>6, <2>8
    <3> QED BY <2>3, <2>8, <3>1, <3>2, <3>3, <3>4
  <2>9. CASE FetchB(in) /\ state' = "WRITE_INIT"
    <3>1. /\ state = "B" /\ at' = NextAddressOf(at) /\ at.i = CHUNK_SIZE * at.chunk_pointer
      BY <2>9, AfterBinCases DEF FetchB, ControlInv
    <3>2. UNCHANGED <<at.i, at.ir, at.chunk_pointer>>
      BY <1>1, <3>1 DEF NextAddressOf, AtTypes
    <3>3. Start \in Nat /\ Start + CHUNK_SIZE = CHUNK_SIZE * at.chunk_pointer
      BY <3>1, ChunkFacts DEF ControlInv
    <3>4. at.i # 0 /\ Start + CHUNK_SIZE \in Int
      BY <3>1, <3>3, Sizes
    <3>5. Full' = Age + 1
      BY <2>4, <3>2, <3>4 DEF Full
    <3>6. sums' = sums
      BY <2>5, <3>1, QuietSums
    <3> QED BY <2>8, <2>9, <3>1, <3>2, <3>3, <3>4, <3>5, <3>6
  <2>10. CASE NextBlock(in)
    <3>1. /\ state = "NEXT_BLOCK" /\ state' = "WRITE_INIT"
          /\ at'.i = 0 /\ UNCHANGED at.chunk_pointer /\ ~goto_idle_after_write
          /\ at.chunk_pointer = CHUNKS
      BY <1>1, <2>10 DEF NextBlock, AtTypes, LastBlock, ControlInv, Counted
    <3>2. Full' = Age + 1
      <4>1. goto_idle_after_write' => Age' = Age
        BY <2>10, <3>1, WalkBack DEF ControlInv
      <4>2. ~goto_idle_after_write' => Age' = Age + 1
        BY <2>10, WalkBack DEF ControlInv
      <4> QED BY <3>1, <4>1, <4>2 DEF Full
    <3>3. Start \in Int /\ Start + CHUNK_SIZE \in Int
      <4>1. CHUNKS \in 1 .. CHUNKS
        BY Sizes
      <4> QED BY <3>1, <4>1, ChunkPlaces, Sizes DEF Start
    <3>4. sums' = sums
      BY <2>5, <3>1, QuietSums
    <3> QED BY <2>8, <3>1, <3>2, <3>3, <3>4
  <2>11. CASE state \in Writing
    <3>1. /\ Start \in Nat /\ Start + CHUNK_SIZE \in Int /\ Start + CHUNK_SIZE <= BLOCK_SIZE
          /\ Start + CHUNK_SIZE = CHUNK_SIZE * at.chunk_pointer
          /\ at.cnt \in ChunkBins /\ Start + at.cnt \in Bins /\ at.cnt \in Int
          /\ CHUNK_SIZE \in Nat /\ CHUNK_SIZE >= 2
      BY <1>1, <2>11, ChunkFacts, ChunkWords, Sizes DEF ControlInv, AtTypes
    <3>2. \A j \in ChunkBins : array.r[j] = R(Start + j, Full) /\ array.i[j] = I(Start + j, Full)
      <4> HIDE DEF RealOf, ImagOf
      <4> QED BY <2>11 DEF Loaded, RealSum, ImagSum, R, I
    <3>3. \A e \in Bins : e >= Start + CHUNK_SIZE => e # Start + at.cnt
      BY <3>1 DEF ChunkBins, Bins
    <3>4. CASE WriteInit(in)
      <4>1. /\ state = "WRITE_INIT" /\ state' = "WRITE_1" /\ at'.cnt = 0
            /\ UNCHANGED <<at.i, at.ir, at.chunk_pointer, goto_idle_after_write>>
        BY <1>1, <3>4 DEF WriteInit, AtTypes
      <4>2. sums' = sums
        BY <2>5, <4>1, QuietSums
      <4>3. Start' = Start /\ Full' = Full
        BY <2>4, <4>1 DEF Full
      <4>4. WrittenTo = Start /\ WrittenTo' = Start /\ ~RealOut' /\ ~ImagOut'
        BY <3>1, <4>1, <4>3 DEF WrittenTo, RealOut, ImagOut
      <4>5. Stored'
        BY <2>2, <2>3, <4>1, <4>2, <4>3, <4>4
      <4> QED BY <4>1, <4>5
    <3>5. ASSUME state # "WRITE_INIT", state' \in Writing \ {"WRITE_INIT"}, at' = at,
                 goto_idle_after_write' = goto_idle_after_write,
                 \/ sums' = sums /\ RealOut' = RealOut /\ ImagOut' = ImagOut
                 \/ sums' = [sums EXCEPT !.r[Start + at.cnt] = array.r[at.cnt]] /\ ~ImagOut'
                 \/ sums' = [sums EXCEPT !.i[Start + at.cnt] = array.i[at.cnt]]
                      /\ RealOut' = RealOut
          PROVE  Stored'
      <4>1. Start' = Start /\ Full' = Full
        BY <2>4, <3>5 DEF Full
      <4>2. WrittenTo = Start + at.cnt /\ WrittenTo' = Start + at.cnt
        BY <3>5, <4>1 DEF WrittenTo
      <4> DEFINE w == Start + at.cnt
      <4>3. array.r[at.cnt] = R(w, Full) /\ array.i[at.cnt] = I(w, Full) /\ w \in Bins
        BY <3>1, <3>2
      <4>4. \A e \in Bins : e < w => e # w
        BY <4>3 DEF Bins
      <4> HIDE DEF w, RealOut, ImagOut
      <4>5. /\ \A e \in Bins : e < w \/ (e = w /\ RealOut) => sums.r[e] = R(e, Full)
            /\ \A e \in Bins : e < w \/ (e = w /\ ImagOut) => sums.i[e] = I(e, Full)
            /\ \A e \in Bins : e >= Start + CHUNK_SIZE =>
                 sums.r[e] = R(e, Full - 1) /\ sums.i[e] = I(e, Full - 1)
        BY <2>2, <2>11, <4>2 DEF w
      <4>6. \A e \in Bins : e >= Start + CHUNK_SIZE => e # w
        BY <3>3 DEF w
      <4>7. CASE sums' = sums /\ RealOut' = RealOut /\ ImagOut' = ImagOut
        BY <2>3, <3>5, <4>1, <4>2, <4>5, <4>7 DEF w
      <4>8. CASE sums' = [sums EXCEPT !.r[Start + at.cnt] = array.r[at.cnt]] /\ ~ImagOut'
        <5>1. /\ sums'.i = sums.i /\ sums'.r[w] = array.r[at.cnt]
              /\ \A e \in Bins : e # w => sums'.r[e] = sums.r[e]
          BY <1>1, <4>3, <4>8 DEF w
        <5>2. /\ \A e \in Bins : e < w \/ e = w => sums'.r[e] = R(e, Full)
              /\ \A e \in Bins : e < w => sums'.i[e] = I(e, Full)
              /\ \A e \in Bins : e >= Start + CHUNK_SIZE =>
                   sums'.r[e] = R(e, Full - 1) /\ sums'.i[e] = I(e, Full - 1)
          BY <4>3, <4>4, <4>5, <4>6, <5>1
        <5> QED BY <2>3, <3>5, <4>1, <4>2, <4>8, <5>2 DEF w
      <4>9. CASE sums' = [sums EXCEPT !.i[Start + at.cnt] = array.i[at.cnt]] /\ RealOut' = RealOut
        <5>1. /\ sums'.r = sums.r /\ sums'.i[w] = array.i[at.cnt]
              /\ \A e \in Bins : e # w => sums'.i[e] = sums.i[e]
          BY <1>1, <4>3, <4>9 DEF w
        <5>2. /\ \A e \in Bins : e < w \/ (e = w /\ RealOut) => sums'.r[e] = R(e, Full)
              /\ \A e \in Bins : e < w \/ e = w => sums'.i[e] = I(e, Full)
              /\ \A e \in Bins : e >= Start + CHUNK_SIZE =>
                   sums'.r[e] = R(e, Full - 1) /\ sums'.i[e] = I(e, Full - 1)
          BY <4>3, <4>4, <4>5, <4>6, <5>1
        <5> QED BY <2>3, <3>5, <4>1, <4>2, <4>9, <5>2 DEF w
      <4> QED BY <3>5, <4>7, <4>8, <4>9
    <3>6. CASE WriteSum(in)
      <4>1. /\ \/ state = "WRITE_1" /\ state' = "WRITE_1_WAIT"
               \/ state = "WRITE_2" /\ state' = "WRITE_2_WAIT"
            /\ m'.op = "write" /\ at' = at /\ goto_idle_after_write' = goto_idle_after_write
        BY <3>6 DEF WriteSum, Request
      <4>2. m' # NoAccess
        BY <4>1 DEF NoAccess
      <4>3. sums' = sums
        BY <2>5, <4>1, QuietSums
      <4>4. RealOut' = RealOut /\ ImagOut' = ImagOut
        BY <4>1, <4>2 DEF RealOut, ImagOut
      <4> QED BY <3>5, <4>1, <4>3, <4>4
    <3>7. CASE Wait(in)
      <4>1. /\ state \in {"WRITE_1_WAIT", "WRITE_2_WAIT"} /\ state' = state /\ at' = at
            /\ goto_idle_after_write' = goto_idle_after_write /\ Hold(in) /\ ~WriteValid(in)
        BY <2>11, <3>7 DEF Wait, fsmVars
      <4>2. ~in.valid
        <5> SUFFICES ASSUME in.valid PROVE FALSE
          OBVIOUS
        <5>1. flight.op = "write"
          BY <4>1, Answer, AccessParts DEF Waiting
        <5> QED BY <4>1, <5>1 DEF WriteValid
      <4>3. \/ m' = m /\ (m = NoAccess \/ in.wait)
            \/ m # NoAccess /\ ~in.wait /\ m' = NoAccess
        BY <4>1, <4>2, HoldWaits DEF ControlInv, Requests
      <4>4. sums' = IF m = NoAccess \/ in.wait THEN sums
                    ELSE IF state = "WRITE_1_WAIT"
                    THEN [sums EXCEPT !.r[Start + at.cnt] = array.r[at.cnt]]
                    ELSE [sums EXCEPT !.i[Start + at.cnt] = array.i[at.cnt]]
        BY <4>1, SumWritten
      <4>5. /\ m' = m => RealOut' = RealOut /\ ImagOut' = ImagOut
            /\ state = "WRITE_1_WAIT" => ~ImagOut'
            /\ state = "WRITE_2_WAIT" => RealOut' = RealOut
        BY <4>1 DEF RealOut, ImagOut
      <4> HIDE DEF RealOut, ImagOut
      <4>6. CASE m' = m /\ (m = NoAccess \/ in.wait)
        BY <3>5, <4>1, <4>4, <4>5, <4>6
      <4>7. CASE m # NoAccess /\ ~in.wait /\ m' = NoAccess
        BY <3>5, <4>1, <4>4, <4>5, <4>7
      <4> QED BY <4>1, <4>3, <4>6, <4>7
    <3>8. CASE RealWritten(in)
      <4>1. /\ state = "WRITE_1_WAIT" /\ state' = "WRITE_2" /\ at' = at /\ in.valid
            /\ goto_idle_after_write' = goto_idle_after_write
        BY <3>8 DEF RealWritten, WriteValid
      <4>2. m = NoAccess
        BY <4>1, Answer DEF Waiting
      <4>3. sums' = sums
        BY <4>1, <4>2, SumWritten
      <4>4. RealOut /\ RealOut' /\ ~ImagOut /\ ~ImagOut'
        BY <4>1, <4>2 DEF RealOut, ImagOut
      <4>5. RealOut' = RealOut /\ ImagOut' = ImagOut
        BY <4>1, <4>2 DEF RealOut, ImagOut
      <4> QED BY <3>5, <4>1, <4>3, <4>5
    <3>9. CASE BinWritten(in)
      <4> DEFINE done == at.cnt = CHUNK_SIZE - 1
                 idle == done /\ goto_idle_after_write
                 cnt == IF done THEN 0 ELSE at.cnt + 1
                 pointer == IF idle THEN 0 ELSE PointerAfter(at.chunk_pointer, done)
      <4>1. /\ state = "WRITE_2_WAIT" /\ in.valid
            /\ state' = IF idle THEN "IDLE" ELSE IF done THEN "GET_INIT" ELSE "WRITE_1"
            /\ goto_idle_after_write' = (goto_idle_after_write /\ ~done)
            /\ at' = [at EXCEPT !.cnt = cnt, !.chunk_addr = @ + 2, !.chunk_pointer = pointer]
            /\ goto_idle_after_write \in BOOLEAN
        BY <3>9 DEF BinWritten, WriteValid, ControlInv, ControlTypes
      <4>2. m = NoAccess
        BY <4>1, Answer DEF Waiting
      <4>3. sums' = sums
        BY <4>1, <4>2, SumWritten
      <4>4. WrittenTo = Start + at.cnt /\ RealOut /\ ImagOut
        BY <4>1, <4>2 DEF WrittenTo, RealOut, ImagOut
      <4>5. /\ at'.cnt = cnt /\ at'.chunk_pointer = pointer /\ UNCHANGED <<at.i, at.ir>>
        <5> HIDE DEF cnt, pointer
        <5> QED BY <1>1, <4>1 DEF AtTypes
      <4>6. /\ \A e \in Bins : e <= Start + at.cnt => sums.r[e] = R(e, Full)
                 /\ sums.i[e] = I(e, Full)
            /\ \A e \in Bins : e >= Start + CHUNK_SIZE =>
                 sums.r[e] = R(e, Full - 1) /\ sums.i[e] = I(e, Full - 1)
        <5>1. \A e \in Bins : e <= Start + at.cnt => e < Start + at.cnt \/ e = Start + at.cnt
          BY <3>1 DEF Bins
        <5> QED BY <2>2, <2>11, <4>4, <5>1
      <4>7. Age' = Age
        BY <2>1, <4>5 DEF Age
      <4>8. CASE ~done
        <5>1. pointer = at.chunk_pointer /\ cnt = at.cnt + 1 /\ state' = "WRITE_1"
              /\ goto_idle_after_write' = goto_idle_after_write
          BY <4>1, <4>8 DEF PointerAfter
        <5>2. Start' = Start /\ Full' = Full
          BY <4>5, <4>7, <5>1 DEF Start, Full
        <5>3. WrittenTo' = Start + (at.cnt + 1) /\ ~RealOut' /\ ~ImagOut'
          BY <4>5, <5>1, <5>2 DEF WrittenTo, RealOut, ImagOut
        <5>4. \A e \in Bins : e < Start + (at.cnt + 1) => e <= Start + at.cnt
          BY <3>1 DEF Bins
        <5>5. Stored'
          BY <2>3, <4>3, <4>6, <5>1, <5>2, <5>3, <5>4
        <5> QED BY <5>1, <5>5
      <4>9. CASE done
        <5>1. \A e \in Bins : IF e < Start + CHUNK_SIZE
                              THEN sums.r[e] = R(e, Full) /\ sums.i[e] = I(e, Full)
                              ELSE sums.r[e] = R(e, Full - 1) /\ sums.i[e] = I(e, Full - 1)
          <6>1. \A e \in Bins : IF e < Start + CHUNK_SIZE THEN e <= Start + at.cnt
                                ELSE e >= Start + CHUNK_SIZE
            BY <3>1, <4>9 DEF Bins
          <6> QED BY <4>6, <6>1
        <5>2. /\ at.chunk_pointer \in 1 .. CHUNKS
              /\ \/ at.chunk_pointer < CHUNKS /\ at.i = CHUNK_SIZE * at.chunk_pointer
                 \/ at.chunk_pointer = CHUNKS /\ at.i = 0 /\ Start + CHUNK_SIZE = BLOCK_SIZE
          BY <4>1, ChunkFacts DEF ControlInv, Counted
        <5>3. CASE goto_idle_after_write
          <6>1. at.i = 0 /\ Age = BLOCK_NUM - 1 /\ state' = "IDLE" /\ Full = BLOCK_NUM
            <7>1. at.i = 0 /\ Age = BLOCK_NUM - 1 /\ state' = "IDLE"
              BY <4>1, <4>9, <5>3 DEF LastBlock
            <7>2. Full = Age + 1
              BY <5>3 DEF Full
            <7> QED BY <7>1, <7>2, Sizes
          <6>2. Start + CHUNK_SIZE = BLOCK_SIZE
            BY <3>1, <5>2, <6>1
          <6>3. \A e \in Bins : e < Start + CHUNK_SIZE
            BY <6>2, Sizes DEF Bins
          <6>4. Complete'
            <7> HIDE DEF RealOf, ImagOf
            <7> QED BY <2>1, <4>3, <5>1, <6>1, <6>3 DEF Complete, RealSum, ImagSum, R, I
          <6>5. Stored'
            BY <2>3, <6>1
          <6> QED BY <6>4, <6>5
        <5>4. CASE ~goto_idle_after_write
          <6>1. state' = "GET_INIT" /\ pointer =
                    IF at.chunk_pointer = CHUNKS THEN 0 ELSE at.chunk_pointer
            BY <4>1, <4>9, <5>4 DEF PointerAfter
          <6>2. First' = CHUNK_SIZE * pointer
            BY <4>5, <6>1 DEF First
          <6>3. CASE at.chunk_pointer # CHUNKS
            <7>1. at.i # 0 /\ First' = Start + CHUNK_SIZE
              BY <3>1, <5>2, <6>1, <6>2, <6>3
            <7>2. Full = Age + 1 /\ Full - 1 = Age
              BY <2>6, <7>1 DEF Full
            <7>3. Stored'
              BY <2>3, <4>3, <4>7, <5>1, <6>1, <7>1, <7>2
            <7> QED BY <6>1, <7>3
          <6>4. CASE at.chunk_pointer = CHUNKS
            <7>1. /\ at.i = 0 /\ Start + CHUNK_SIZE = BLOCK_SIZE /\ First' = 0
              <8>1. CHUNK_SIZE * 0 = 0
                BY <3>1
              <8> QED BY <5>2, <6>1, <6>2, <6>4, <8>1
            <7>2. Full = Age
              BY <5>4, <7>1 DEF Full
            <7>3. \A e \in Bins : e < Start + CHUNK_SIZE /\ ~ (e < First')
              BY <7>1, Sizes DEF Bins
            <7>4. Stored'
              BY <2>3, <4>3, <4>7, <5>1, <6>1, <7>2, <7>3
            <7> QED BY <6>1, <7>4
          <6> QED BY <6>3, <6>4
        <5> QED BY <4>1, <5>3, <5>4
      <4> QED BY <4>8, <4>9
    <3>10. state' # "IDLE" \/ BinWritten(in)
      BY <2>11 DEF Main, Listen, Reset, SetChannel, Select, MacInit, AskA, Wait, FetchA, FetchC,
                   FetchD, Fetch, FetchB, NextBlock, WriteInit, WriteSum, RealWritten, GetInit,
                   AskSum, GetSum, ChunkDone, fsmVars
    <3>11. WriteInit(in) \/ WriteSum(in) \/ Wait(in) \/ RealWritten(in) \/ BinWritten(in)
      BY <2>11 DEF Main, Listen, Reset, SetChannel, Select, MacInit, AskA, FetchA, FetchC, FetchD,
                   Fetch, FetchB, NextBlock, GetInit, AskSum, GetSum, ChunkDone
    <3>12. WriteInit(in) \/ WriteSum(in) \/ Wait(in) \/ RealWritten(in) => Stored'
      BY <3>4, <3>5, <3>6, <3>7, <3>8
    <3> QED BY <3>9, <3>10, <3>11, <3>12
  <2>12. FetchB(in) \/ NextBlock(in) => state' # "IDLE"
    BY AfterBinCases DEF FetchB, NextBlock, ControlInv
  <2>13. \/ state \in Writing \/ GetInit(in) \/ AskSum(in) \/ GetSum(in) \/ ChunkDone(in)
              \/ AskA(in)
         \/ FetchA(in) \/ FetchC(in) \/ FetchD(in) \/ (Wait(in) /\ state \notin Writing)
              \/ FetchB(in)
         \/ NextBlock(in)
    BY <1>5 DEF Main, Listen, Reset, SetChannel, Select, MacInit, WriteInit, WriteSum, RealWritten,
                BinWritten, Walking, Running
  <2> QED BY <2>7, <2>9, <2>10, <2>11, <2>12, <2>13
<1>6. state \in Walking \/ Listen(in) \/ Reset(in) \/ SetChannel(in) \/ Select(in) \/ MacInit(in)
  BY DEF Main, AskA, Wait, FetchA, FetchC, FetchD, Fetch, FetchB, NextBlock, WriteInit, WriteSum,
         RealWritten, BinWritten, GetInit, AskSum, GetSum, ChunkDone, Walking, Running
<1> QED BY <1>3, <1>4, <1>5, <1>6

-----------------------------------------------------------------------------
(* The invariant is kept.  The board is not reset while the last chunk is  *)
(* written.                                                                *)

LEMMA LastBlockStep ==
  ASSUME ControlInv, LastBlock, NEW in, in.command \in CommandWords, Main(in)
  PROVE  LastBlock'
<1> USE DEF Writing
<1> HIDE DEF Age
<1>1. at \in AtTypes
  BY DEF ControlInv, ControlTypes, AtTypes
<1>2. CASE NextBlock(in)
  <2>1. state = "NEXT_BLOCK" /\ state' = "WRITE_INIT" /\ at'.i = 0 /\ ~goto_idle_after_write
    BY <1>1, <1>2 DEF NextBlock, AtTypes, LastBlock
  <2>2. goto_idle_after_write' => Age' = BLOCK_NUM - 1
    BY <1>2, <2>1, WalkBack DEF ControlInv
  <2> QED BY <2>1, <2>2 DEF LastBlock
<1>3. CASE WriteInit(in) \/ WriteSum(in) \/ RealWritten(in) \/ Wait(in)
  <2>1. /\ UNCHANGED <<at.i, at.ir, channel, goto_idle_after_write>>
        /\ state \in Writing => state' \in Writing
    BY <1>1, <1>3 DEF WriteInit, WriteSum, RealWritten, Wait, fsmVars, ringVars, AtTypes
  <2>2. Age' = Age
    BY <2>1 DEF Age
  <2> QED BY <2>1, <2>2 DEF LastBlock
<1>4. CASE BinWritten(in)
  <2>1. /\ goto_idle_after_write' => goto_idle_after_write /\ state' = "WRITE_1"
        /\ UNCHANGED <<at.i, at.ir, channel>>
    <3>1. /\ goto_idle_after_write' = (goto_idle_after_write /\ at.cnt # CHUNK_SIZE - 1)
          /\ goto_idle_after_write \in BOOLEAN
      BY <1>4 DEF BinWritten, ControlInv, ControlTypes
    <3> QED BY <1>1, <1>4, <3>1 DEF BinWritten, ringVars, AtTypes
  <2>2. Age' = Age
    BY <2>1 DEF Age
  <2> QED BY <2>1, <2>2 DEF LastBlock
<1>5. \/ NextBlock(in) \/ WriteInit(in) \/ WriteSum(in) \/ RealWritten(in) \/ Wait(in)
           \/ BinWritten(in)
      \/ ~goto_idle_after_write'
  <2>1. state \notin Writing => ~goto_idle_after_write
    BY DEF LastBlock
  <2> QED BY <2>1 DEF Main, Listen, Reset, SetChannel, Select, MacInit, AskA, FetchA, FetchC,
               FetchD,
                      Fetch, FetchB, GetInit, AskSum, GetSum, ChunkDone
<1> QED BY <1>2, <1>3, <1>4, <1>5 DEF LastBlock

(* A MAC that does not run has nothing to keep but the sums.               *)
LEMMA AtRest ==
  ASSUME state' \in {"IDLE", "RESET", "SET_LEFT", "SET_RIGHT", "SELECT", "INIT"},
         ~goto_idle_after_write', WriteInside', damaged' = {}
  PROVE  Located' /\ Asked' /\ Fetched' /\ Kept' /\ Accumulated' /\ Loaded' /\ Stored' /\ LastBlock'
<1> USE DEF Pipeline, Getting, Writing
<1>1. Located' /\ Fetched' /\ Kept'
  BY DEF Located, Fetched, Kept
<1>2. Accumulated' /\ Loaded' /\ Stored' /\ LastBlock'
  BY DEF Accumulated, Loaded, Stored, LastBlock
<1>3. Asked'
  BY DEF Asked, Waiting, WriteInside
<1> QED BY <1>1, <1>2, <1>3

LEMMA DataStep ==
  ASSUME ControlInv, DataTypes, WriteInside, NEW in, NEW s, Cycle(in, s),
         sums' \in [r : [Bins -> Sums], i : [Bins -> Sums]]
  PROVE  DataTypes'
<1>1. Main(in) /\ Serves(in)
  BY DEF Cycle
<1>2. state = "RESET" => at.i \in ChunkBins
  BY DEF ControlInv, Counted
<1>3. m' \in Accesses /\ flight' \in Accesses
  BY <1>1, AccessTypes DEF ControlInv
<1> HIDE DEF Accesses, Sums
<1>4. /\ operand' \in [a : Int, b : Int, c : Int, d : Int]
      /\ alu' \in [ac : Sums, bc : Sums, bd : Sums, ad : Sums,
                   new_r : Sums, new_i : Sums, acc_r : Sums, acc_i : Sums]
      /\ array' \in [r : [ChunkBins -> Sums], i : [ChunkBins -> Sums]]
  BY <1>1, <1>2, RegisterTypes DEF ControlInv
<1> QED BY <1>3, <1>4 DEF DataTypes

Work == /\ Located /\ Asked /\ Fetched /\ Kept /\ Accumulated /\ Loaded /\ Stored /\ LastBlock

(* A clock cycle while the program runs.                                   *)
LEMMA WorkStep ==
  ASSUME SumInv, NEW in, NEW s, Cycle(in, s), Stores(in), area' = area, damaged' = damaged,
         pc # "boot", pc' # "boot", Requests'
  PROVE  DataTypes' /\ Work' /\ (state \in Running /\ state' = "IDLE" => Complete')
<1>1. /\ ControlInv /\ DataTypes /\ Based /\ Zeroed /\ Located /\ Asked /\ Fetched /\ Kept
      /\ Accumulated /\ Loaded /\ Stored /\ LastBlock
  BY DEF SumInv, PipelineInv
<1>2. in.command \in CommandWords /\ Main(in) /\ Answered(in) /\ Serves(in)
  BY DEF Cycle, Inputs
<1>3. WriteInside
  BY <1>1 DEF Asked, WriteInside
<1>4. DataTypes'
  BY <1>1, <1>3, SumTypes, DataStep
<1>5. Located'
  BY <1>1, <1>2, LocatedStep
<1>6. Asked'
  BY <1>1, <1>2, AskedStep
<1>7. Fetched' /\ Kept'
  BY <1>1, <1>2, FetchedStep, KeptStep
<1>8. Accumulated' /\ Loaded'
  BY <1>1, <1>2, AccumulatedStep, LoadedStep
<1>9. Stored' /\ (state \in Running /\ state' = "IDLE" => Complete')
  BY <1>1, <1>2, StoredStep
<1>10. LastBlock'
  BY <1>1, <1>2, LastBlockStep
<1> QED BY <1>4, <1>5, <1>6, <1>7, <1>8, <1>9, <1>10 DEF Work

LEMMA QuietStores ==
  ASSUME Quiet, NEW in, Stores(in)
  PROVE  sums' = sums
BY DEF Quiet, Stores, NoAccess

(* Which registers of the ring a cycle may change.                         *)
LEMMA RingCycle ==
  ASSUME NEW in, in.command \in CommandWords, Main(in)
  PROVE  /\ in.command # "BASE" => base_addr' = base_addr
         /\ in.command = "BASE" /\ state = "IDLE" => base_addr' = area'
         /\ channel' = IF state = "SET_LEFT" THEN 1 ELSE IF state = "SET_RIGHT" THEN 2 ELSE channel
         /\ state \notin {"SELECT", "RESET"} => latest' = latest
         /\ state' = "SELECT" => state = "IDLE" /\ in.command = "SELECT"
         /\ state' = "INIT" => state = "SELECT"
         /\ state \notin Writing \cup {"NEXT_BLOCK"} =>
              goto_idle_after_write' = goto_idle_after_write
<1> USE DEF Writing
<1>1. CASE Listen(in) \/ Reset(in) \/ SetChannel(in) \/ Select(in) \/ MacInit(in)
  BY <1>1 DEF Listen, Reset, SetChannel, Select, MacInit, CommandWords, ringVars
<1>2. CASE FetchB(in)
  <2>1. state = "B" /\ UNCHANGED <<ringVars, goto_idle_after_write>>
        /\ state' \in {"A_ADDR", "NEXT_BLOCK", "WRITE_INIT"}
    BY <1>2 DEF FetchB, AfterBin
  <2> QED BY <2>1 DEF ringVars
<1>3. CASE AskA(in) \/ Wait(in) \/ FetchA(in) \/ FetchC(in) \/ FetchD(in) \/ NextBlock(in)
  BY <1>3 DEF AskA, Wait, FetchA, FetchC, FetchD, Fetch, NextBlock, ringVars, fsmVars
<1>4. CASE \/ WriteInit(in) \/ WriteSum(in) \/ RealWritten(in) \/ BinWritten(in) \/ GetInit(in)
           \/ AskSum(in) \/ GetSum(in) \/ ChunkDone(in)
  BY <1>4 DEF WriteInit, WriteSum, RealWritten, BinWritten, GetInit, AskSum, GetSum, ChunkDone,
              ringVars
<1> QED BY <1>1, <1>2, <1>3, <1>4 DEF Main

(* A cycle of a MAC that has finished its run.                             *)
LEMMA CompleteKept ==
  ASSUME Complete, NEW in, in.command \in CommandWords, Main(in), state = "IDLE", sums' = sums
  PROVE  Complete'
<1>1. channel' = channel /\ latest' = latest
  BY RingCycle
<1> QED BY <1>1 DEF Complete, RealSum, ImagSum

(* A cycle of the waiting or polling program.                              *)
LEMMA PollCycle ==
  ASSUME SumInv, ControlInv', NEW in, NEW s, Cycle(in, s), in.command = "none", Stores(in),
         damaged' = damaged, area' = area, side' = side, pc # "boot",
         pc' = pc \/ (state = "IDLE" /\ pc \in DOMAIN After /\ pc' = After[pc])
  PROVE  SumInv'
<1>1. /\ ControlInv /\ DataTypes /\ Based /\ Zeroed /\ Asked /\ LastBlock /\ Reading
      /\ in.command \in CommandWords /\ Main(in) /\ Requests'
  BY DEF SumInv, PipelineInv, Cycle, Inputs, ControlInv
<1>2. pc' # "boot" /\ (pc' # pc => pc' \in {"zero_all", "block", "start", "read"})
  BY DEF After
<1>3. DataTypes' /\ Work' /\ (state \in Running /\ state' = "IDLE" => Complete')
  BY <1>1, <1>2, WorkStep
<1>4. Based'
  BY <1>1, RingCycle DEF Based
<1>5. /\ state = "IDLE" => state' = "IDLE"
      /\ state \in {"SET_LEFT", "SET_RIGHT"} => state' = "IDLE"
      /\ state \in Running => state' \in Running \cup {"IDLE"}
      /\ state' = "SELECT" => FALSE
      /\ state' = "INIT" => state = "SELECT"
      /\ channel' = IF state = "SET_LEFT" THEN 1 ELSE IF state = "SET_RIGHT" THEN 2 ELSE channel
  BY <1>1, StateStep, RingCycle DEF ControlInv
<1>6. state \in {"IDLE", "SET_LEFT", "SET_RIGHT", "SELECT"} => sums' = sums
  <2>1. state \in {"IDLE", "SET_LEFT", "SET_RIGHT", "SELECT"} => Quiet
    BY <1>1 DEF ControlInv, Requests, Waiting
  <2> QED BY <2>1, QuietStores
<1>7. /\ pc \in Resting => state = "IDLE"
      /\ pc = "reset_wait" => state \in {"IDLE", "RESET"}
      /\ pc = "set_wait" => state \in {"IDLE", "SET_LEFT", "SET_RIGHT"}
      /\ pc = "run_wait" => state \in Running \cup {"IDLE"}
  BY <1>1 DEF ControlInv, Polling
<1>8. pc' # pc =>
        /\ state = "IDLE" /\ state' = "IDLE"
        /\ \/ pc \in {"base_wait", "reset_wait"} /\ pc' \in {"zero_all", "block"}
           \/ pc = "set_wait" /\ pc' = "start"
           \/ pc = "run_wait" /\ pc' = "read"
  BY <1>5 DEF After
<1>9. Zeroed'
  <2>1. pc' \in {"reset", "set", "set_wait", "start"} =>
          pc \in {"reset", "set", "set_wait", "start"}
              /\ state \in {"IDLE", "SET_LEFT", "SET_RIGHT"}
    BY <1>7, <1>8 DEF Resting
  <2> QED BY <1>1, <1>5, <1>6, <2>1 DEF Zeroed
<1>10. Reading'
  <2> HIDE DEF Complete
  <2>1. pc' = "read" \/ (pc' = "run_wait" /\ state' = "IDLE") => Complete'
    <3>1. CASE state = "IDLE"
      <4>1. (pc' = "read" \/ (pc' = "run_wait" /\ state' = "IDLE")) =>
              pc = "read" \/ (pc = "run_wait" /\ state = "IDLE")
        BY <1>8, <3>1
      <4> QED BY <1>1, <1>6, <3>1, <4>1, CompleteKept DEF Reading
    <3>2. CASE state # "IDLE"
      BY <1>3, <1>7, <1>8, <3>2 DEF Resting
    <3> QED BY <3>1, <3>2
  <2>2. pc' \in {"start", "run_wait", "read"}
            \/ (pc' = "set_wait" /\ state' = "IDLE") => channel' = side'
    BY <1>1, <1>5, <1>7, <1>8 DEF Reading, Resting, Running
  <2>3. /\ pc' = "set_wait" /\ state' = "SET_LEFT" => side' = 1
        /\ pc' = "set_wait" /\ state' = "SET_RIGHT" => side' = 2
    BY <1>5, <1>7, <1>8
  <2> QED BY <2>1, <2>2, <2>3 DEF Reading
<1> QED BY <1>3, <1>4, <1>9, <1>10 DEF SumInv, PipelineInv, Work

(* A cycle in which the MAC rests and the program goes on.                 *)
LEMMA RestCycle ==
  ASSUME SumInv, ControlInv', NEW in, NEW s, Cycle(in, s), in.command \in {"none", "BASE"},
         state = "IDLE", Quiet, damaged' = {}, sums' \in [r : [Bins -> Sums], i : [Bins -> Sums]],
         pc' \notin {"set_wait", "start", "run_wait", "read"},
         pc' # "boot" => \/ in.command = "BASE"
                         \/ in.command = "none" /\ area' = area /\ pc # "boot",
         pc' \in {"reset", "set"} => sums' = ZeroSums
  PROVE  SumInv'
<1>1. /\ ControlInv /\ DataTypes /\ Based /\ Asked /\ LastBlock
      /\ in.command \in CommandWords /\ Main(in) /\ Serves(in)
  BY DEF SumInv, PipelineInv, Cycle, Inputs, CommandWords
<1>2. state' = "IDLE" /\ Hold(in)
  BY <1>1, StateStep DEF ControlInv, Main, Listen, Reset, SetChannel, Select, MacInit, AskA, Wait,
       FetchA, FetchC, FetchD, Fetch, FetchB, NextBlock, WriteInit, WriteSum, RealWritten,
       BinWritten, GetInit, AskSum, GetSum, ChunkDone
<1>3. WriteInside /\ WriteInside'
  <2>1. m = NoAccess /\ m' = NoAccess
    BY <1>2 DEF Quiet, Hold
  <2> QED BY <2>1 DEF WriteInside, NoAccess
<1>4. ~goto_idle_after_write'
  BY <1>1, RingCycle DEF LastBlock, Writing
<1>5. DataTypes' /\ Work'
  BY <1>1, <1>2, <1>3, <1>4, AtRest, DataStep DEF Work
<1>6. Based'
  BY <1>1, RingCycle DEF Based
<1>7. Zeroed' /\ Reading'
  <2>1. Zeroed'
    BY <1>2 DEF Zeroed
  <2>2. Reading'
    BY <1>2 DEF Reading
  <2> QED BY <2>1, <2>2
<1> QED BY <1>5, <1>6, <1>7 DEF SumInv, PipelineInv, Work

(* A command of the program.                                               *)
LEMMA CommandCycle ==
  ASSUME SumInv, ControlInv', NEW in, Cycle(in, FALSE), Stores(in), damaged' = damaged,
         area' = area, side' = side, state = "IDLE", state' = in.command,
         \/ pc = "reset" /\ pc' = "reset_wait" /\ in.command = "RESET"
         \/ /\ pc = "set" /\ pc' = "set_wait"
            /\ in.command = IF side = 1 THEN "SET_LEFT" ELSE "SET_RIGHT"
         \/ pc = "start" /\ pc' = "run_wait" /\ in.command = "SELECT"
  PROVE  SumInv'
<1>1. /\ ControlInv /\ DataTypes /\ Based /\ Zeroed /\ Asked /\ LastBlock /\ Reading
      /\ in.command \in CommandWords /\ Main(in) /\ Requests' /\ pc # "boot" /\ pc' # "boot"
      /\ side \in Channels
  BY DEF SumInv, PipelineInv, Cycle, Inputs, ControlInv, ControlTypes
<1> DEFINE s == FALSE
<1>2. Cycle(in, s)
  OBVIOUS
<1> HIDE DEF s
<1>3. DataTypes' /\ Work'
  BY <1>1, <1>2, WorkStep
<1>4. Based'
  BY <1>1, RingCycle DEF Based, CommandWords
<1>5. sums' = sums
  BY <1>1, QuietStores DEF ControlInv, Requests, Waiting
<1>6. Zeroed'
  BY <1>1, <1>5 DEF Zeroed
<1>7. Reading'
  <2>1. channel' = channel
    BY <1>1, RingCycle
  <2> QED BY <1>1, <2>1 DEF Reading, Channels
<1> QED BY <1>3, <1>4, <1>6, <1>7 DEF SumInv, PipelineInv, Work

(* The reset of the board: it is not pressed while the last chunk is       *)
(* written.                                                                *)
LEMMA Key0Cycle ==
  ASSUME SumInv, Key0, "key0_last_chunk" \notin Restarts, ControlInv'
  PROVE  SumInv' /\ state' = "RESET" /\ damaged' = damaged
<1>1. /\ DataTypes /\ Asked /\ ~goto_idle_after_write
      /\ state' = "RESET" /\ pc' = "boot"
      /\ m' = (IF m.op = "read" THEN NoAccess ELSE m) /\ flight' = NoAccess
      /\ operand' = [operand EXCEPT !.a = 0]
      /\ UNCHANGED <<goto_idle_after_write, alu, array, sums, damaged, area>>
  BY DEF SumInv, PipelineInv, Key0, memVars
<1>2. NoAccess \in Accesses
  BY ProductSums DEF NoAccess, Accesses, Ops
<1>3. DataTypes'
  <2> HIDE DEF Accesses, Sums
  <2>1. m' \in Accesses /\ flight' \in Accesses
    BY <1>1, <1>2 DEF DataTypes
  <2> QED BY <1>1, <2>1 DEF DataTypes
<1>4. WriteInside'
  <2>1. m' = m \/ m' = NoAccess
    BY <1>1
  <2> QED BY <1>1, <2>1 DEF Asked, WriteInside, Written, NoAccess
<1>5. Work'
  BY <1>1, <1>4, AtRest DEF Work, Asked
<1>6. Based' /\ Zeroed'
  BY <1>1 DEF Based, Zeroed
<1>7. Reading'
  BY <1>1 DEF Reading
<1> QED BY <1>1, <1>3, <1>5, <1>6, <1>7 DEF SumInv, PipelineInv, Work

LEMMA SumStart == ASSUME Init PROVE SumInv
<1> USE DEF Pipeline, Getting, Writing
<1>1. ControlInv
  BY ControlStart
<1>2. NoAccess \in Accesses /\ {} \in Sums /\ Junk \in Sums
  BY ProductSums DEF NoAccess, Accesses, Ops
<1>3. DataTypes
  <2> HIDE DEF Accesses, Sums, Junk
  <2>1. operand \in [a : Int, b : Int, c : Int, d : Int]
    BY DEF Init
  <2>2. m \in Accesses /\ flight \in Accesses
    BY <1>2 DEF Init
  <2>3. alu \in [ac : Sums, bc : Sums, bd : Sums, ad : Sums,
                 new_r : Sums, new_i : Sums, acc_r : Sums, acc_i : Sums]
    BY <1>2 DEF Init
  <2>4. array \in [r : [ChunkBins -> Sums], i : [ChunkBins -> Sums]]
    BY <1>2 DEF Init
  <2>5. sums \in [r : [Bins -> Sums], i : [Bins -> Sums]]
    BY <1>2 DEF Init
  <2> QED BY <2>1, <2>2, <2>3, <2>4, <2>5 DEF DataTypes
<1>4. state = "RESET" /\ pc = "boot" /\ ~goto_idle_after_write /\ m = NoAccess /\ damaged = {}
  BY DEF Init
<1>5. Based /\ Zeroed /\ Reading
  BY <1>4 DEF Based, Zeroed, Reading
<1>6. Located /\ Fetched /\ Kept /\ Asked
  BY <1>4 DEF Located, Fetched, Kept, Asked, Waiting, NoAccess
<1>7. Accumulated /\ Loaded /\ Stored /\ LastBlock
  BY <1>4 DEF Accumulated, Loaded, Stored, LastBlock
<1> QED BY <1>1, <1>3, <1>5, <1>6, <1>7 DEF SumInv, PipelineInv

LEMMA SumStep ==
  ASSUME SumInv, [Next]_vars, "key0_last_chunk" \notin Restarts
  PROVE  SumInv'
<1>1. ControlInv /\ ControlInv' /\ Requests /\ WriteInside /\ damaged = {} /\ DataTypes
  BY ControlStep DEF SumInv, PipelineInv, ControlInv, Asked, WriteInside
<1>2. CASE Pause
  <2> DEFINE s == FALSE
  <2>1. Clock("none", s) /\ s \in BOOLEAN /\ "none" \in CommandWords
    BY <1>2 DEF Pause, CommandWords
  <2> HIDE DEF s
  <2>2. PICK in : Cycle(in, s) /\ in.command = "none" /\ Stores(in) /\ damaged' = damaged
    BY <1>1, <2>1, ClockStores
  <2>3. UNCHANGED <<area, pc, side>>
    BY <1>2 DEF Pause, programVars
  <2>4. CASE pc # "boot"
    BY <1>1, <2>2, <2>3, <2>4, PollCycle
  <2>5. CASE pc = "boot"
    <3>1. state \in {"IDLE", "RESET"} /\ in.command \in CommandWords /\ Main(in)
      BY <1>1, <2>2, <2>5 DEF ControlInv, Polling, Cycle, Inputs
    <3>2. state' \in {"IDLE", "RESET"}
      BY <1>1, <2>2, <3>1, StateStep DEF ControlInv
    <3>3. ~goto_idle_after_write'
      BY <3>1, RingCycle DEF SumInv, PipelineInv, LastBlock, Writing
    <3>4. m' = m \/ m' = NoAccess
      <4>1. Hold(in)
        BY <3>1 DEF Main, Listen, Reset, SetChannel, Select, MacInit, AskA, Wait, FetchA, FetchC,
                    FetchD, Fetch, FetchB, NextBlock, WriteInit, WriteSum, RealWritten, BinWritten,
                    GetInit, AskSum, GetSum, ChunkDone
      <4> QED BY <4>1 DEF Hold
    <3>5. WriteInside'
      BY <1>1, <2>3, <3>4 DEF WriteInside, Written, NoAccess
    <3>6. Work' /\ DataTypes'
      BY <1>1, <2>2, <3>2, <3>3, <3>5, AtRest, DataStep, SumTypes DEF Work
    <3>7. Based' /\ Zeroed' /\ Reading'
      <4>1. Based' /\ Zeroed'
        BY <2>3, <2>5, <3>2 DEF Based, Zeroed
      <4>2. Reading'
        BY <2>3, <2>5 DEF Reading
      <4> QED BY <4>1, <4>2
    <3> QED BY <1>1, <3>6, <3>7 DEF SumInv, PipelineInv, Work
  <2> QED BY <2>4, <2>5
<1>3. CASE Poll
  <2>1. PICK s \in BOOLEAN : Clock("none", s)
    BY <1>1, <1>3, PollStep
  <2>2. PICK in : Cycle(in, s) /\ in.command = "none" /\ Stores(in) /\ damaged' = damaged
    BY <1>1, <2>1, ClockStores DEF CommandWords
  <2>3. /\ area' = area /\ side' = side /\ pc # "boot"
        /\ pc' = pc \/ (state = "IDLE" /\ pc \in DOMAIN After /\ pc' = After[pc])
    BY <1>1, <1>3, PollStep DEF After
  <2> QED BY <1>1, <2>2, <2>3, PollCycle
<1>4. CASE SetBase
  <2> DEFINE s == FALSE
  <2>1. Clock("BASE", s) /\ s \in BOOLEAN /\ "BASE" \in CommandWords
    BY <1>4 DEF SetBase, CommandWords
  <2> HIDE DEF s
  <2>2. PICK in : Cycle(in, s) /\ in.command = "BASE" /\ Stores(in) /\ damaged' = damaged
    BY <1>1, <2>1, ClockStores
  <2>3. state = "IDLE" /\ Quiet /\ pc' = "base_wait"
    BY <1>4 DEF SetBase, Quiet
  <2>4. sums' = sums
    BY <2>2, <2>3, QuietStores
  <2> QED BY <1>1, <2>2, <2>3, <2>4, RestCycle DEF DataTypes
<1>5. CASE ZeroSdram \/ StoreBlocks \/ CopySums
  <2> DEFINE s == FALSE
  <2>1. /\ \E x : ClockBeside(x) /\ sums' = x /\ damaged' = {}
        /\ sums' = ZeroSums \/ sums' = sums
        /\ pc \in Resting /\ pc \notin {"set", "set_wait"}
        /\ pc' \notin {"set_wait", "start", "run_wait", "read"}
        /\ pc' \in {"reset", "set"} => sums' = ZeroSums
        /\ area' = area /\ Quiet /\ s = FALSE /\ s \in BOOLEAN /\ "none" \in CommandWords
    BY <1>5 DEF ZeroSdram, StoreBlocks, CopySums, ClockBeside, Resting, Quiet, CommandWords
  <2>2. PICK in : Cycle(in, s) /\ in.command = "none"
    <3> HIDE DEF s
    <3> QED BY <1>1, <2>1, ClockCycle
  <2>3. sums' \in [r : [Bins -> Sums], i : [Bins -> Sums]]
    <3>1. ZeroSums \in [r : [Bins -> Sums], i : [Bins -> Sums]]
      <4> HIDE DEF Sums
      <4> QED BY ProductSums DEF ZeroSums
    <3> QED BY <1>1, <2>1, <3>1 DEF DataTypes
  <2>4. state = "IDLE" /\ pc # "boot" /\ damaged' = {}
    BY <1>1, <2>1 DEF ControlInv, Polling, Resting
  <2> HIDE DEF s
  <2> QED BY <1>1, <2>1, <2>2, <2>3, <2>4, RestCycle
<1>6. CASE WriteReset \/ WriteChannel \/ WriteStart
  <2> DEFINE s == FALSE
  <2>1. PICK c \in CommandWords :
          /\ Clock(c, s)
          /\ \/ pc = "reset" /\ pc' = "reset_wait" /\ c = "RESET"
             \/ /\ pc = "set" /\ pc' = "set_wait"
                /\ c = IF side = 1 THEN "SET_LEFT" ELSE "SET_RIGHT"
             \/ pc = "start" /\ pc' = "run_wait" /\ c = "SELECT"
    BY <1>6 DEF WriteReset, WriteChannel, WriteStart, Write, CommandWords
  <2>2. s \in BOOLEAN /\ UNCHANGED <<area, side>>
    BY <1>6 DEF WriteReset, WriteChannel, WriteStart, Write
  <2>3. \A in : Cycle(in, s) => Cycle(in, FALSE)
    OBVIOUS
  <2> HIDE DEF s
  <2>4. PICK in : Cycle(in, s) /\ in.command = c /\ Stores(in) /\ damaged' = damaged
    BY <1>1, <2>1, <2>2, ClockStores
  <2>5. state = "IDLE"
    BY <1>1, <2>1 DEF ControlInv, Polling, Resting
  <2>6. state' = in.command /\ Cycle(in, FALSE)
    <3>1. in.command \in CommandWords /\ Main(in) /\ in.command \notin {"none", "BASE"}
      BY <2>1, <2>4 DEF Cycle, Inputs
    <3> QED BY <1>1, <2>3, <2>4, <2>5, <3>1, StateStep DEF ControlInv
  <2> QED BY <1>1, <2>1, <2>2, <2>4, <2>5, <2>6, CommandCycle
<1>7. CASE Key0
  BY <1>1, <1>7, Key0Cycle
<1>8. CASE UNCHANGED vars
  <2>1. /\ UNCHANGED <<state, pre, post, goto_idle_after_write, channel, latest, base_addr, at,
                       operand, alu, array, m, flight, sums, damaged, area, pc, side>>
    BY <1>8 DEF vars, fsmVars, ringVars, sumVars, memVars, programVars
  <2>2. DataTypes' /\ Based' /\ Zeroed'
    BY <2>1 DEF SumInv, PipelineInv, DataTypes, Based, Zeroed
  <2>3. Located' /\ Fetched' /\ Kept' /\ LastBlock'
    BY <2>1 DEF SumInv, PipelineInv, Located, Fetched, Kept, LastBlock, IrWord, InWord, Start, Age,
                Old, AC, AD, BC, BD
  <2>4. Accumulated' /\ Loaded'
    <3> HIDE DEF RealOf, ImagOf
    <3> QED BY <2>1 DEF SumInv, PipelineInv, Accumulated, Loaded, RealSum, ImagSum, Start, Age,
                        Old, Full
  <2>5. Stored' /\ Complete' = Complete
    <3> HIDE DEF RealOf, ImagOf
    <3> QED BY <2>1 DEF SumInv, PipelineInv, Stored, RealSum, ImagSum, Start, Age,
                        Full, Complete, WrittenTo, RealOut, ImagOut
  <2>6. Asked'
    BY <2>1 DEF SumInv, PipelineInv, Asked, Waiting, Access, Wanted, Written
  <2>7. Reading'
    BY <2>1, <2>5 DEF SumInv, Reading
  <2> QED BY <1>1, <2>2, <2>3, <2>4, <2>5, <2>6, <2>7 DEF SumInv, PipelineInv
<1> QED BY <1>2, <1>3, <1>4, <1>5, <1>6, <1>7, <1>8 DEF Next, Program

LEMMA SumInvHolds ==
  ASSUME "key0_last_chunk" \notin Restarts
  PROVE  Spec => []SumInv
<1>1. Init => SumInv
  BY SumStart
<1>2. SumInv /\ [Next]_vars => SumInv'
  BY SumStep
<1> QED BY <1>1, <1>2, PTL DEF Spec

-----------------------------------------------------------------------------
(* Finished sums                                                           *)

LEMMA BlockNames ==
  ASSUME NEW b \in Slots
  PROVE  BlockOf(Base(b)) = b
<1> DEFINE s == BLOCK_SIZE * 2
<1>1. s \in Nat /\ s > 0 /\ b \in Nat
  BY Sizes DEF Slots
<1>2. Base(b) = b * s /\ Base(1) = s
  BY Sizes, <1>1 DEF Base
<1> HIDE DEF s
<1>3. (b * s) \div s = b
  <2>1. \A x, y \in Nat : y > 0 => (x * y) \div y = x
    BY Z3T(20)
  <2> QED BY <1>1, <2>1
<1> QED BY <1>2, <1>3 DEF BlockOf

(* Sums of the first n pairs of blocks stand for these pairs.              *)
LEMMA PairsSummed ==
  ASSUME DataTypes, NEW c \in Channels, NEW b \in InMin(c) .. InMax(c), NEW n \in 0 .. BLOCK_NUM,
         \A e \in Bins : sums.r[e] = RealOf(c, b, e, n) /\ sums.i[e] = ImagOf(c, b, e, n)
  PROVE  SumPairs = {PairOf(c, b, k) : k \in 0 .. n - 1}
<1> DEFINE Positive == {y \in sums.r[0] : y[1] = 1}
           P == {[ir |-> BlockOf(x[2]), in |-> BlockOf(x[3])] : x \in Positive}
           Q == {PairOf(c, b, k) : k \in 0 .. n - 1}
           Factors(k) == <<1, Base(PairOf(c, b, k).ir), Base(PairOf(c, b, k).in)>>
<1>1. \A k \in 0 .. n - 1 : k \in 0 .. BLOCK_NUM - 1
  BY Sizes
<1>2. 0 \in Bins
  BY Sizes DEF Bins
<1>3. ASSUME NEW k \in 0 .. n - 1
      PROVE  \A y : y \in Real(PairOf(c, b, k), 0) /\ y[1] = 1 <=> y = Factors(k)
  <2> DEFINE p == PairOf(c, b, k)
             x == BlockWord(p.ir, 0, 0)
             z == BlockWord(p.in, 0, 0)
  <2>1. p.ir \in Slots /\ p.in \in Slots
    BY <1>1, PairTypes
  <2>2. Real(p, 0) = AC(x, z) \cup BD(x, z) /\ x = Base(p.ir) /\ z = Base(p.in)
    BY <2>1, BinProducts, BinWords
  <2>3. Factors(k) = <<1, x, z>>
    BY <2>2
  <2> HIDE DEF x, z, p, Factors
  <2>4. Real(p, 0) = {<<1, x, z>>, <<-1, x + 1, z + 1>>}
    BY <2>2 DEF AC, BD, Plus, Minus
  <2> QED BY <2>3, <2>4 DEF p
<1>4. Positive = {Factors(k) : k \in 0 .. n - 1}
  <2>1. Positive = {y \in UNION {Real(PairOf(c, b, k), 0) : k \in 0 .. n - 1} : y[1] = 1}
    BY <1>2 DEF RealOf
  <2> HIDE DEF Factors
  <2> QED BY <1>3, <2>1, Zenon
<1>5. ASSUME NEW k \in 0 .. n - 1
      PROVE  [ir |-> BlockOf(Factors(k)[2]), in |-> BlockOf(Factors(k)[3])] = PairOf(c, b, k)
  <2>1. PairOf(c, b, k).ir \in Slots /\ PairOf(c, b, k).in \in Slots
    BY <1>1, PairTypes
  <2>2. Factors(k)[2] = Base(PairOf(c, b, k).ir) /\ Factors(k)[3] = Base(PairOf(c, b, k).in)
    OBVIOUS
  <2> HIDE DEF Factors
  <2>3. BlockOf(Factors(k)[2]) = PairOf(c, b, k).ir /\ BlockOf(Factors(k)[3]) = PairOf(c, b, k).in
    BY <2>1, <2>2, BlockNames
  <2> QED BY <2>3 DEF PairOf
<1>6. P = Q
  <2> HIDE DEF Factors, Positive
  <2>1. ASSUME NEW x \in Positive
        PROVE  [ir |-> BlockOf(x[2]), in |-> BlockOf(x[3])] \in Q
    <3>1. PICK k \in 0 .. n - 1 : x = Factors(k)
      BY <1>4
    <3> QED BY <1>5, <3>1
  <2>2. ASSUME NEW k \in 0 .. n - 1
        PROVE  PairOf(c, b, k) \in P
    <3>1. Factors(k) \in Positive
      BY <1>4
    <3> QED BY <1>5, <3>1
  <2> QED BY <2>1, <2>2
<1>7. ASSUME NEW e \in Bins
      PROVE  /\ sums.r[e] = UNION {Real(p, e) : p \in P}
             /\ sums.i[e] = UNION {Imag(p, e) : p \in P}
  <2> HIDE DEF P
  <2>1. /\ UNION {Real(p, e) : p \in Q} = UNION {Real(PairOf(c, b, k), e) : k \in 0 .. n - 1}
        /\ UNION {Imag(p, e) : p \in Q} = UNION {Imag(PairOf(c, b, k), e) : k \in 0 .. n - 1}
    <3> HIDE DEF PairOf, Real, Imag
    <3> QED BY Zenon
  <2> QED BY <1>6, <2>1 DEF RealOf, ImagOf
<1>8. SumPairs = P
  <2> HIDE DEF Real, Imag, Bins, BlockOf
  <2> QED BY <1>7 DEF SumPairs
<1> QED BY <1>6, <1>8

(* Zeroed sums stand for no pair, the sums of a complete run for all.      *)
LEMMA NoPairs == ASSUME ControlInv, DataTypes, sums = ZeroSums PROVE SumPairs = {}
<1>1. 1 \in Channels /\ InMin(1) \in InMin(1) .. InMax(1) /\ 0 \in 0 .. BLOCK_NUM
  BY RingTypes, Sizes DEF Channels
<1>2. \A e \in Bins : sums.r[e] = RealOf(1, InMin(1), e, 0) /\ sums.i[e] = ImagOf(1, InMin(1), e, 0)
  <2>1. 0 .. 0 - 1 = {}
    OBVIOUS
  <2>2. \A e \in Bins : RealOf(1, InMin(1), e, 0) = {} /\ ImagOf(1, InMin(1), e, 0) = {}
    BY <2>1, Zenon DEF RealOf, ImagOf
  <2> HIDE DEF RealOf, ImagOf
  <2> QED BY <2>2 DEF ZeroSums
<1>3. SumPairs = {PairOf(1, InMin(1), k) : k \in 0 .. 0 - 1}
  BY <1>1, <1>2, PairsSummed
<1>4. 0 .. 0 - 1 = {}
  OBVIOUS
<1> QED BY <1>3, <1>4, Zenon

Summed == ControlInv /\ DataTypes /\ damaged = {} /\ Complete

LEMMA AllPairs == Summed => SumPairs = Commands!Sum(channel, latest[channel])
<1> SUFFICES ASSUME Summed PROVE SumPairs = Commands!Sum(channel, latest[channel])
  OBVIOUS
<1> USE DEF Summed
<1> DEFINE b == latest[channel]
<1>1. channel \in Channels /\ b \in InMin(channel) .. InMax(channel) /\ BLOCK_NUM \in 0 .. BLOCK_NUM
  BY Sizes DEF ControlInv, ControlTypes
<1>2. SumPairs = {PairOf(channel, b, k) : k \in 0 .. BLOCK_NUM - 1}
  BY <1>1, PairsSummed DEF Complete, RealSum, ImagSum
<1>3. Commands!Sum(channel, b) =
        {[in |-> Blocks[Commands!Older(channel, b, k)],
            ir |-> Blocks[Commands!FirstIr(channel) + k]]
           : k \in 0 .. BLOCK_NUM - 1}
  BY DEF Commands!Sum
<1>4. ASSUME NEW k \in 0 .. BLOCK_NUM - 1
      PROVE  /\ Blocks[Commands!Older(channel, b, k)] = PairOf(channel, b, k).in
             /\ Blocks[Commands!FirstIr(channel) + k] = PairOf(channel, b, k).ir
  BY <1>1, PairTypes DEF Blocks, Commands!FirstIr, IrMin
<1>5. ASSUME NEW k \in 0 .. BLOCK_NUM - 1
      PROVE  [in |-> Blocks[Commands!Older(channel, b, k)],
                 ir |-> Blocks[Commands!FirstIr(channel) + k]]
               = PairOf(channel, b, k)
  BY <1>4 DEF PairOf
<1> HIDE DEF b
<1> QED BY <1>2, <1>3, <1>5, Zenon DEF b

(* What the program copies after the poll is the finished sum of the       *)
(* channel that it selected, for the block that it stored last.  This      *)
(* needs that the board is not reset while the last chunk is written       *)
(* (goto_idle_after_write has no reset).                                   *)
THEOREM BodyCopiesSums ==
  ASSUME "key0_last_chunk" \notin Restarts
  PROVE  Spec => []CopiesSums
<1>1. SumInv => CopiesSums
  <2> SUFFICES ASSUME SumInv, pc = "read"
               PROVE  channel = side /\ SumPairs = Commands!Sum(side, latest[side])
    BY DEF CopiesSums
  <2>1. ControlInv /\ DataTypes /\ damaged = {} /\ Complete /\ channel = side
    BY DEF SumInv, PipelineInv, Asked, Reading
  <2> QED BY <2>1, AllPairs DEF Summed
<1> QED BY <1>1, SumInvHolds, PTL

-----------------------------------------------------------------------------
(* The MAC implements the commands: a run up to its last write maps to     *)
(* stuttering, the last write to the end of the run.                       *)

LEMMA CommandStart == ASSUME Init PROVE Commands!CommandInit
<1>1. state = "RESET" /\ latest = ResetLatest /\ channel = 1
  BY DEF Init
<1>2. Activity = "RESET" /\ state \notin Running
  BY <1>1 DEF Activity, Running
<1>3. ResetLatest = Commands!AfterReset
  BY DEF ResetLatest, Channels, InMax, Commands!AfterReset, Commands!LastIn
<1> QED BY <1>1, <1>2, <1>3 DEF Commands!CommandInit

(* The newest block that the commands see.                                 *)
Newest == IF state \in Running \ {"SELECT"}
          THEN [latest EXCEPT ![channel] = Before(channel, @)] ELSE latest

LEMMA SelectStutters ==
  ASSUME ControlInv, NEW in, Select(in)
  PROVE  Newest' = Newest
<1>1. /\ state = "SELECT" /\ state' = "INIT" /\ channel' = channel /\ channel \in Channels
      /\ latest' = [latest EXCEPT ![channel] = NextIn(channel, @)]
      /\ latest \in [Channels -> Slots] /\ latest[channel] \in InMin(channel) .. InMax(channel)
  BY DEF Select, ControlInv, ControlTypes
<1>2. /\ Newest = latest
      /\ Newest' = [latest' EXCEPT ![channel] = Before(channel, @)]
  BY <1>1 DEF Newest, Running
<1>3. Before(channel, NextIn(channel, latest[channel])) = latest[channel]
  BY <1>1, NextNewest
<1> HIDE DEF Newest, Channels, Slots, InMin, InMax, Before, NextIn
<1> QED BY <1>1, <1>2, <1>3

(* The end of a run.                                                       *)
LEMMA RunEnds ==
  ASSUME ControlInv, ControlInv', DataTypes', damaged = {}, damaged' = {},
         state \in Running \ {"SELECT"}, state' = "IDLE",
         latest' = latest, channel' = channel, Complete'
  PROVE  Commands!RunDone
<1>1. Activity = "RUN" /\ Activity' = "IDLE"
  BY DEF Activity, Running
<1>2. /\ channel \in Channels /\ latest \in [Channels -> Slots]
      /\ latest[channel] \in InMin(channel) .. InMax(channel)
  BY DEF ControlInv, ControlTypes
<1>3. Newest = [latest EXCEPT ![channel] = Before(channel, @)] /\ Newest' = latest
  BY DEF Newest, Running
<1>4. [Newest EXCEPT ![channel] = NextIn(channel, @)] = latest
  <2>1. NextIn(channel, Before(channel, latest[channel])) = latest[channel]
    BY <1>2, NextNewest
  <2> HIDE DEF Newest, Channels, Slots, InMin, InMax, Before, NextIn
  <2> QED BY <1>2, <1>3, <2>1
<1>5. SumPairs' = Commands!Sum(channel, latest[channel])
  <2>1. (Summed => SumPairs = Commands!Sum(channel, latest[channel]))'
    BY AllPairs, PTL
  <2>2. Commands!Sum(channel, latest[channel])' = Commands!Sum(channel, latest[channel])
    BY DEF Commands!Sum, Commands!Older, Commands!FirstIr, Commands!FirstIn, Blocks
  <2> QED BY <2>1, <2>2 DEF Summed
<1>6. Commands!RunDone <=>
        /\ Activity = "RUN" /\ Activity' = "IDLE"
        /\ Newest' = [Newest EXCEPT ![channel] = NextIn(channel, @)]
        /\ (IF Activity' \in {"RUN", "RESET"} THEN {} ELSE SumPairs')
             = (IF Activity \in {"RUN", "RESET"} THEN {} ELSE SumPairs)
               \cup Commands!Sum(channel, Newest'[channel])
        /\ channel' = channel /\ damaged' = damaged
  BY DEF Commands!RunDone, Commands!Following, Commands!LastIn, Commands!FirstIn, NextIn, InMax,
         InMin, Newest, Blocks
<1> QED BY <1>1, <1>3, <1>4, <1>5, <1>6

(* Every step is a command, its end or a stutter.                          *)
LEMMA CommandStutters ==
  ASSUME UNCHANGED <<Activity, channel, Newest>>, damaged = {}, damaged' = {},
         Activity = "IDLE" \/ Activity \in {"RUN", "RESET"} \/ SumPairs' = SumPairs
  PROVE  [Commands!CommandNext]_(Commands!commandVars)
<1>1. CASE Activity = "IDLE"
  <2>1. Commands!Store
    BY <1>1 DEF Commands!Store, Newest
  <2> QED BY <2>1 DEF Commands!CommandNext
<1>2. CASE Activity # "IDLE"
  BY <1>2 DEF Commands!commandVars, Newest, Blocks
<1> QED BY <1>1, <1>2

LEMMA CommandGiven ==
  ASSUME SumInv, state = "IDLE", state' \in {"RESET", "SET_LEFT", "SET_RIGHT", "SELECT"},
         UNCHANGED <<channel, latest, sums>>, damaged' = {},
         state' \in {"RESET", "SELECT"} => sums = ZeroSums
  PROVE  Commands!Command
<1>1. ControlInv /\ DataTypes /\ damaged = {}
  BY DEF SumInv, PipelineInv, Asked
<1>2. Activity = "IDLE" /\ Activity' \in {"RESET", "SET_LEFT", "SET_RIGHT", "RUN"}
  BY DEF Activity, Running
<1>3. Newest' = Newest
  BY DEF Newest, Running
<1>4. SumPairs' = SumPairs
  BY DEF SumPairs
<1>5. Activity' \in {"RUN", "RESET"} => SumPairs = {}
  <2>1. Activity' \in {"RUN", "RESET"} => state' \in {"RESET", "SELECT"}
    BY DEF Activity, Running
  <2> QED BY <1>1, <2>1, NoPairs
<1> QED BY <1>1, <1>2, <1>3, <1>4, <1>5 DEF Commands!Command, Newest, Blocks

(* A clock cycle without a command.                                        *)
LEMMA QuietCycle ==
  ASSUME SumInv, SumInv', NEW in, NEW s, Cycle(in, s), in.command \in {"none", "BASE"},
         state \in {"SET_LEFT", "SET_RIGHT"} => sums' = sums,
         state \in Running /\ state' = "IDLE" => Complete'
  PROVE  [Commands!CommandNext]_(Commands!commandVars)
<1>1. /\ ControlInv /\ ControlInv' /\ DataTypes /\ DataTypes' /\ damaged = {} /\ damaged' = {}
      /\ in.command \in CommandWords /\ Main(in) /\ state \in States
  BY DEF SumInv, PipelineInv, Asked, Cycle, Inputs, ControlInv, ControlTypes
<1>2. /\ state \notin {"SELECT", "RESET"} => latest' = latest
      /\ channel' = IF state = "SET_LEFT" THEN 1 ELSE IF state = "SET_RIGHT" THEN 2 ELSE channel
      /\ state' # "SELECT"
  BY <1>1, RingCycle
<1>3. CASE state = "IDLE"
  <2>1. state' = "IDLE"
    BY <1>1, <1>3, StateStep DEF ControlInv
  <2>2. UNCHANGED <<Activity, channel, Newest>> /\ Activity = "IDLE"
    BY <1>2, <1>3, <2>1 DEF Activity, Newest, Running
  <2> QED BY <1>1, <2>2, CommandStutters
<1>4. CASE state \in {"SET_LEFT", "SET_RIGHT"}
  <2>1. state' = "IDLE" /\ latest' = latest /\ channel' = IF state = "SET_LEFT" THEN 1 ELSE 2
    BY <1>1, <1>2, <1>4, StateStep DEF ControlInv
  <2>2. Activity = state /\ Activity' = "IDLE" /\ Newest' = Newest
    BY <1>4, <2>1 DEF Activity, Newest, Running
  <2>3. SumPairs' = SumPairs
    BY <1>4 DEF SumPairs
  <2>4. Commands!SetDone
    BY <1>1, <1>4, <2>1, <2>2, <2>3 DEF Commands!SetDone, Newest, Blocks
  <2> QED BY <2>4 DEF Commands!CommandNext
<1>5. CASE state = "RESET"
  <2>1. Reset(in) /\ channel' = channel
    BY <1>1, <1>2, <1>5 DEF Main, Listen, SetChannel, Select, MacInit, AskA, Wait, FetchA, FetchC,
         FetchD, Fetch, FetchB, NextBlock, WriteInit, WriteSum, RealWritten, BinWritten, GetInit,
         AskSum, GetSum, ChunkDone
  <2>2. CASE state' = "IDLE"
    <3>1. latest' = ResetLatest
      BY <1>5, <2>1, <2>2 DEF Reset
    <3>2. Activity = "RESET" /\ Activity' = "IDLE" /\ Newest' = ResetLatest
      BY <1>5, <2>2, <3>1 DEF Activity, Newest, Running
    <3>3. ResetLatest = Commands!AfterReset
      BY DEF ResetLatest, Channels, InMax, Commands!AfterReset, Commands!LastIn
    <3>4. Commands!ResetDone
      BY <1>1, <2>1, <3>2, <3>3 DEF Commands!ResetDone, Newest, Blocks
    <3> QED BY <3>4 DEF Commands!CommandNext
  <2>3. CASE state' # "IDLE"
    <3>1. state' = "RESET" /\ latest' = latest
      BY <1>5, <2>1, <2>3 DEF Reset
    <3>2. UNCHANGED <<Activity, channel, Newest>> /\ Activity = "RESET"
      BY <1>5, <2>1, <3>1 DEF Activity, Newest, Running
    <3> QED BY <1>1, <3>2, CommandStutters
  <2> QED BY <2>2, <2>3
<1>6. CASE state = "SELECT"
  <2>1. Select(in) /\ channel' = channel
    BY <1>1, <1>2, <1>6 DEF Main, Listen, Reset, SetChannel, MacInit, AskA, Wait, FetchA, FetchC,
         FetchD, Fetch, FetchB, NextBlock, WriteInit, WriteSum, RealWritten, BinWritten, GetInit,
         AskSum, GetSum, ChunkDone
  <2>2. Newest' = Newest /\ state' = "INIT"
    BY <1>1, <2>1, SelectStutters DEF Select
  <2>3. UNCHANGED <<Activity, channel, Newest>> /\ Activity = "RUN"
    BY <1>6, <2>1, <2>2 DEF Activity, Running
  <2> QED BY <1>1, <2>3, CommandStutters
<1>7. CASE state \in Running \ {"SELECT"}
  <2>1. latest' = latest /\ channel' = channel /\ state' \in Running \cup {"IDLE"}
    <3>1. state' \in Running \cup {"IDLE"}
      BY <1>1, <1>7, StateStep DEF ControlInv
    <3> QED BY <1>2, <1>7, <3>1 DEF Running
  <2>2. CASE state' = "IDLE"
    <3>1. Commands!RunDone
      BY <1>1, <1>7, <2>1, <2>2, RunEnds
    <3> QED BY <3>1 DEF Commands!CommandNext
  <2>3. CASE state' \in Running
    <3>1. UNCHANGED <<Activity, channel, Newest>> /\ Activity = "RUN"
      BY <1>2, <1>7, <2>1, <2>3 DEF Activity, Newest
    <3> QED BY <1>1, <3>1, CommandStutters
  <2> QED BY <2>1, <2>2, <2>3
<1> QED BY <1>1, <1>3, <1>4, <1>5, <1>6, <1>7 DEF States

LEMMA MacStep ==
  ASSUME SumInv, SumInv', [Next]_vars, "key0_last_chunk" \notin Restarts
  PROVE  [Commands!CommandNext]_(Commands!commandVars)
<1>1. /\ ControlInv /\ Requests /\ WriteInside /\ DataTypes /\ Zeroed
      /\ damaged = {} /\ damaged' = {}
  BY DEF SumInv, PipelineInv, ControlInv, Asked, WriteInside
<1>2. ASSUME NEW in, NEW s, Cycle(in, s), in.command = "none", Stores(in), area' = area,
             pc' = "boot" => pc = "boot"
      PROVE  [Commands!CommandNext]_(Commands!commandVars)
  <2>1. state \in {"SET_LEFT", "SET_RIGHT"} => sums' = sums
    BY <1>1, <1>2, QuietStores DEF ControlInv, Polling, Requests, Waiting
  <2>2. state \in Running /\ state' = "IDLE" => Complete'
    <3>1. pc = "boot" => state \notin Running
      BY <1>1 DEF ControlInv, Polling, Running
    <3>2. Requests'
      BY DEF SumInv, ControlInv
    <3> HIDE DEF Complete
    <3> QED BY <1>1, <1>2, <3>1, <3>2, WorkStep
  <2> QED BY <1>2, <2>1, <2>2, QuietCycle
<1>3. CASE Pause
  <2> DEFINE s == FALSE
  <2>1. Clock("none", s) /\ s \in BOOLEAN /\ "none" \in CommandWords
    BY <1>3 DEF Pause, CommandWords
  <2> HIDE DEF s
  <2>2. PICK in : Cycle(in, s) /\ in.command = "none" /\ Stores(in)
    BY <1>1, <2>1, ClockStores
  <2> QED BY <1>2, <1>3, <2>2 DEF Pause, programVars
<1>4. CASE Poll
  <2>1. PICK s \in BOOLEAN : Clock("none", s)
    BY <1>1, <1>4, PollStep
  <2>2. PICK in : Cycle(in, s) /\ in.command = "none" /\ Stores(in)
    BY <1>1, <2>1, ClockStores DEF CommandWords
  <2>3. area' = area /\ pc # "boot" /\ pc' # "boot"
    BY <1>1, <1>4, PollStep DEF After
  <2> QED BY <1>2, <2>2, <2>3
<1>5. CASE SetBase
  <2> DEFINE s == FALSE
  <2>1. Clock("BASE", s) /\ s \in BOOLEAN /\ "BASE" \in CommandWords /\ state = "IDLE"
    BY <1>5 DEF SetBase, CommandWords
  <2> HIDE DEF s
  <2>2. PICK in : Cycle(in, s) /\ in.command = "BASE"
    BY <1>1, <2>1, ClockStores
  <2> QED BY <2>1, <2>2, QuietCycle DEF Running
<1>6. CASE ZeroSdram \/ StoreBlocks \/ CopySums
  <2> DEFINE s == FALSE
  <2>1. (\E x : ClockBeside(x)) /\ pc \in Resting /\ s = FALSE /\ s \in BOOLEAN
        /\ "none" \in CommandWords
    BY <1>6 DEF ZeroSdram, StoreBlocks, CopySums, Resting, CommandWords
  <2> HIDE DEF s
  <2>2. PICK in : Cycle(in, s) /\ in.command = "none"
    BY <1>1, <2>1, ClockCycle
  <2>3. state = "IDLE"
    BY <1>1, <2>1 DEF ControlInv, Polling
  <2> QED BY <2>2, <2>3, QuietCycle DEF Running
<1>7. CASE WriteReset \/ WriteChannel \/ WriteStart
  <2> DEFINE s == FALSE
  <2>1. PICK c \in CommandWords :
          /\ Clock(c, s)
          /\ \/ pc = "reset" /\ c = "RESET"
             \/ pc = "set" /\ c \in {"SET_LEFT", "SET_RIGHT"}
             \/ pc = "start" /\ c = "SELECT"
    BY <1>7 DEF WriteReset, WriteChannel, WriteStart, Write, CommandWords
  <2>2. s \in BOOLEAN
    OBVIOUS
  <2> HIDE DEF s
  <2>3. PICK in : Cycle(in, s) /\ in.command = c /\ Stores(in)
    BY <1>1, <2>1, <2>2, ClockStores
  <2>4. state = "IDLE" /\ Main(in) /\ in.command \in CommandWords
    BY <1>1, <2>1, <2>3 DEF ControlInv, Polling, Resting, Cycle
  <2>5. state' = c
    BY <1>1, <2>1, <2>3, <2>4, StateStep DEF ControlInv
  <2>6. UNCHANGED <<channel, latest, sums>>
    <3>1. Quiet
      BY <1>1, <2>1, <2>4 DEF Requests, Waiting
    <3> QED BY <2>3, <2>4, <3>1, QuietStores, RingCycle
  <2>7. state' \in {"RESET", "SELECT"} => sums = ZeroSums
    BY <1>1, <2>1, <2>5 DEF Zeroed
  <2>8. Commands!Command
    BY <1>1, <2>1, <2>4, <2>5, <2>6, <2>7, CommandGiven
  <2> QED BY <2>8 DEF Commands!CommandNext
<1>8. CASE Key0
  <2>1. state' = "RESET" /\ channel' = channel
    BY <1>8 DEF Key0, ringVars
  <2>2. Commands!BoardReset
    BY <1>1, <2>1 DEF Commands!BoardReset, Activity, Running, Blocks
  <2> QED BY <2>2 DEF Commands!CommandNext
<1>9. CASE UNCHANGED vars
  <2>1. UNCHANGED <<state, channel, latest, sums, damaged>>
    BY <1>9 DEF vars, fsmVars, ringVars, memVars
  <2> QED BY <2>1 DEF Commands!commandVars, Activity, SumPairs, Blocks
<1> QED BY <1>3, <1>4, <1>5, <1>6, <1>7, <1>8, <1>9 DEF Next, Program

(* The chunked pipeline does what the program relies on: when the MAC is   *)
(* idle after a run, the block of sums holds for every bin each product of *)
(* the pairs of blocks with its sign, once, and nothing else; no other     *)
(* word of the SDRAM was written.                                          *)
THEOREM BodyImplementsCommands ==
  ASSUME "key0_last_chunk" \notin Restarts
  PROVE  Spec => ImplementsBodyCommands
<1>1. Init => Commands!CommandInit
  BY CommandStart
<1>2. SumInv /\ SumInv' /\ [Next]_vars => [Commands!CommandNext]_(Commands!commandVars)
  BY MacStep
<1> QED BY <1>1, <1>2, SumInvHolds, PTL
        DEF Spec, ImplementsBodyCommands, Commands!CommandSpec
=============================================================================
