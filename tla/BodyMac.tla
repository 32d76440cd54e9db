------------------------------ MODULE BodyMac ------------------------------
(***************************************************************************)
(* The body MAC (mac_sdram_control_interface.vhd), clock cycle by clock    *)
(* cycle, with the SDRAM behind the interconnect and the part of test()    *)
(* that drives it.                                                         *)
(*                                                                         *)
(* A bin of a block is two words, real and imaginary.  The MAC fetches     *)
(* a + bi from the impulse response and c + di from the input, in the      *)
(* order a c d b, and sums the bin before meanwhile.  The sums of a block  *)
(* lie behind the blocks in the SDRAM; they are worked on in chunks that   *)
(* are read into on-chip arrays and written back.                          *)
(*                                                                         *)
(* Data.  Addresses count words, not bytes.  An SDRAM word is named by its *)
(* address relative to the area that the program allocated, a product by   *)
(* its sign and the names of its factors, a sum by the set of its          *)
(* products.                                                               *)
(***************************************************************************)
EXTENDS Integers

CONSTANTS
  BLOCK_SIZE,      \* bins in a block (8192)
  CHUNK_SIZE,      \* bins in a chunk (64)
  BLOCK_NUM,       \* blocks per channel (23)
  Areas,           \* where calloc() may put the area in the SDRAM
  Restarts         \* "key0", "key0_last_chunk": when KEY(0) may be pressed

ASSUME BodyMacAssumption ==
  /\ CHUNK_SIZE \in Nat \ {0, 1}
  /\ BLOCK_SIZE \in Nat /\ BLOCK_SIZE > CHUNK_SIZE
  /\ BLOCK_SIZE % CHUNK_SIZE = 0
  /\ BLOCK_NUM \in Nat \ {0, 1}
  /\ Areas \subseteq Nat /\ Areas # {}

VARIABLES
  state,           \* fsm_t
  pre, post,       \* pre_pipeline, post_pipeline
  goto_idle_after_write,
  channel, latest, \* channel; latest_in_block_1 and latest_in_block_2
  latest_in_block, base_addr,
  at,              \* counters, block pointers and addresses
  operand,         \* a, b, c, d
  alu,             \* products, new_r, new_i, acc_r_temp, acc_i_temp
  array,           \* acc_r_array, acc_i_array
  m,               \* the master: m_read or m_write, m_address, m_writedata
  read_state, output_value, reply,       \* answering the poll
  flight,          \* the access the SDRAM is working on
  sums, damaged,   \* the block of sums; the words that were written outside
  area,            \* sdramm
  pc, side, access \* the program

fsmVars == <<state, pre, post, goto_idle_after_write>>
ringVars == <<channel, latest, latest_in_block, base_addr>>
sumVars == <<operand, alu, array>>
replyVars == <<read_state, output_value, reply>>
memVars == <<sums, damaged, area>>
programVars == <<pc, side, access>>
vars == <<fsmVars, ringVars, at, sumVars, m, replyVars, flight, memVars,
          programVars>>

-----------------------------------------------------------------------------
(* Data and memory map *)

Channels == {1, 2}         \* left, right
IrMin(c) == (c - 1) * BLOCK_NUM
IrMax(c) == c * BLOCK_NUM - 1
InMin(c) == (c + 1) * BLOCK_NUM
InMax(c) == (c + 2) * BLOCK_NUM - 1
Slots == 0 .. 4 * BLOCK_NUM - 1
Bins == 0 .. BLOCK_SIZE - 1
ChunkBins == 0 .. CHUNK_SIZE - 1
CHUNKS == BLOCK_SIZE \div CHUNK_SIZE

Base(block) == block * BLOCK_SIZE * 2
CHUNK_OFFSET == Base(4 * BLOCK_NUM)
ChunkBase(p) == CHUNK_OFFSET + p * CHUNK_SIZE * 2

Plus(x, y) == {<<1, x, y>>}
Minus(x, y) == {<<-1, x, y>>}
Twice == {<<2, 0, 0>>}
Junk == {<<0, 0, 0>>}
Add(acc, new) == IF acc \cap new = {} THEN acc \cup new ELSE Twice

ZeroSums == [r |-> [e \in Bins |-> {}], i |-> [e \in Bins |-> {}]]
ResetLatest == [c \in Channels |-> InMax(c) - 1]
NoAccess == [op |-> "none", addr |-> 0, data |-> {}]

Init ==
  /\ state = "RESET" /\ pre = TRUE /\ post = FALSE
  /\ goto_idle_after_write = FALSE
  /\ channel = 1 /\ latest = ResetLatest /\ latest_in_block = InMax(1) - 1
  /\ base_addr = 0
  /\ at = [i |-> 0, chunk |-> 0, chunk_prev |-> 0, ir |-> 0, in |-> 0,
           ir_addr |-> 0, in_addr |-> 0,
           chunk_pointer |-> 0, chunk_addr |-> 0, cnt |-> 0, r |-> TRUE]
  /\ operand = [a |-> 0, b |-> 0, c |-> 0, d |-> 0]
  /\ alu = [ac |-> {}, bc |-> {}, bd |-> {}, ad |-> {},
            new_r |-> {}, new_i |-> {}, acc_r |-> {}, acc_i |-> {}]
  /\ array = [r |-> [e \in ChunkBins |-> {}], i |-> [e \in ChunkBins |-> {}]]
  /\ m = NoAccess /\ flight = NoAccess
  /\ read_state = "IDLE" /\ output_value = "busy" /\ reply = "none"
  /\ sums = [r |-> [e \in Bins |-> Junk], i |-> [e \in Bins |-> Junk]]
  /\ damaged = {} /\ area \in Areas
  /\ pc = "boot" /\ side = 1 /\ access = 0

-----------------------------------------------------------------------------
(* The inputs of a clock cycle are a record: the command that the program  *)
(* writes, the SDRAM's wait request, and whether it answers the access in  *)
(* flight.                                                                 *)

Request(op, addr, data) == m' = [op |-> op, addr |-> addr, data |-> data]
Hold(in) == m' = IF m.op # "none" /\ ~in.wait THEN NoAccess ELSE m

ReadValid(in) == in.valid /\ flight.op = "read"
WriteTaken(in) == m.op = "none"                              \* mutant
WriteValid(in) == in.valid /\ flight.op = "write"

(* m_readdata as an operand and as a sum.                                  *)
Word == flight.addr - area
Sum ==
  LET k == Word - CHUNK_OFFSET
  IN IF k \notin 0 .. 2 * BLOCK_SIZE - 1 THEN Junk
     ELSE IF k % 2 = 0 THEN sums.r[k \div 2] ELSE sums.i[k \div 2]

-----------------------------------------------------------------------------
(* IDLE, RESET, SET_LEFT_CHANNEL, SET_RIGHT_CHANNEL *)

Listen(in) ==
  /\ state = "IDLE"
  /\ state' = IF in.command \in {"RESET", "SET_LEFT", "SET_RIGHT", "SELECT"}
              THEN in.command ELSE "IDLE"
  /\ base_addr' = IF in.command = "BASE" THEN area' ELSE base_addr
  /\ at' = IF in.command = "none" THEN at ELSE [at EXCEPT !.i = 0]
  /\ Hold(in)
  /\ UNCHANGED <<pre, post, goto_idle_after_write, channel, latest,
                 latest_in_block, sumVars>>

Reset(in) ==
  /\ state = "RESET"
  /\ array' = [r |-> [array.r EXCEPT ![at.i] = {}],
               i |-> [array.i EXCEPT ![at.i] = {}]]
  /\ IF at.i = CHUNK_SIZE - 1
       THEN state' = "IDLE" /\ at' = [at EXCEPT !.i = 0] /\ latest' = ResetLatest
       ELSE at' = [at EXCEPT !.i = @ + 1] /\ UNCHANGED <<state, latest>>
  /\ Hold(in)
  /\ UNCHANGED <<pre, post, goto_idle_after_write, channel, latest_in_block,
                 base_addr, operand, alu>>

SetChannel(in) ==
  /\ state \in {"SET_LEFT", "SET_RIGHT"} /\ state' = "IDLE"
  /\ channel' = IF state = "SET_LEFT" THEN 1 ELSE 2
  /\ Hold(in)
  /\ UNCHANGED <<pre, post, goto_idle_after_write, latest, latest_in_block,
                 base_addr, at, sumVars>>

-----------------------------------------------------------------------------
(* MAC_SELECT_LATEST_IN_BLOCK, MAC_INIT *)

NextIn(c, b) == IF b = InMax(c) THEN InMin(c) ELSE b + 1

Select(in) ==
  /\ state = "SELECT" /\ state' = "INIT"
  /\ latest' = [latest EXCEPT ![channel] = NextIn(channel, @)]
  /\ latest_in_block' = latest'[channel]
  /\ Hold(in)
  /\ UNCHANGED <<pre, post, goto_idle_after_write, channel, base_addr, at,
                 sumVars>>

MacInitKeepsPipeline(in) ==                                  \* mutant
  /\ state = "INIT" /\ state' = "GET_INIT"
  /\ at' = [at EXCEPT !.i = 0, !.chunk = 0, !.chunk_prev = 0,
              !.in = latest_in_block, !.ir = IrMin(channel),
              !.chunk_pointer = 0,
              !.ir_addr = base_addr + Base(IrMin(channel)),
              !.in_addr = base_addr + Base(latest_in_block)]
  /\ Hold(in)
  /\ UNCHANGED <<pre, post, goto_idle_after_write, ringVars, sumVars>>

MacInit(in) ==
  /\ state = "INIT" /\ state' = "GET_INIT"
  /\ pre' = TRUE /\ post' = FALSE
  /\ at' = [at EXCEPT !.i = 0, !.chunk = 0, !.chunk_prev = 0,
              !.in = latest_in_block, !.ir = IrMin(channel),
              !.chunk_pointer = 0,
              !.ir_addr = base_addr + Base(IrMin(channel)),
              !.in_addr = base_addr + Base(latest_in_block)]
  /\ Hold(in)
  /\ UNCHANGED <<goto_idle_after_write, ringVars, sumVars>>

-----------------------------------------------------------------------------
(* The four words of a bin.  Before the first bin of a chunk there is      *)
(* nothing to sum (pre); after its last bin nothing to fetch (post).       *)

AskAOnlyFirst(in) ==                                         \* mutant
  /\ state = "A_ADDR" /\ state' = "A"
  /\ IF pre THEN Request("read", at.ir_addr, {}) ELSE Hold(in)
  /\ UNCHANGED <<pre, post, goto_idle_after_write, ringVars, at, sumVars>>

AskA(in) ==
  /\ state = "A_ADDR" /\ state' = "A"
  /\ IF post THEN Hold(in) ELSE Request("read", at.ir_addr, {})
  /\ UNCHANGED <<pre, post, goto_idle_after_write, ringVars, at, sumVars>>

Wait(in) ==
  /\ \/ state \in {"A", "C", "D", "B"} /\ ~post /\ ~ReadValid(in)
     \/ state = "GET_DATA" /\ ~ReadValid(in)
     \/ state \in {"WRITE_1_WAIT", "WRITE_2_WAIT"} /\ ~WriteValid(in)
  /\ Hold(in)
  /\ UNCHANGED <<fsmVars, ringVars, at, sumVars>>

(* The word x arrives, the next one is asked for.                          *)
Fetch(in, from, x, to, addr) ==
  /\ state = from /\ state' = to
  /\ \/ /\ post /\ Hold(in) /\ UNCHANGED operand
     \/ /\ ~post /\ ReadValid(in)
        /\ Request("read", addr, {})
        /\ operand' = [operand EXCEPT ![x] = Word]
  /\ UNCHANGED <<pre, post, goto_idle_after_write, ringVars, at, array>>

FetchA(in) ==
  /\ Fetch(in, "A", "a", "C", at.in_addr)
  /\ alu' = IF pre THEN alu
            ELSE [alu EXCEPT !.bc = Plus(operand.b, operand.c),
                             !.bd = Minus(operand.b, operand.d),
                             !.acc_i = array.i[at.chunk_prev]]

FetchC(in) ==
  /\ Fetch(in, "C", "c", "D", at.in_addr + 1)
  /\ alu' = IF pre THEN alu
            ELSE [alu EXCEPT !.new_r = Add(alu.ac, alu.bd),
                             !.new_i = Add(alu.ad, alu.bc),
                             !.acc_r = array.r[at.chunk_prev]]

FetchD(in) ==
  /\ Fetch(in, "D", "d", "B", at.ir_addr + 1)
  /\ alu' = [alu EXCEPT
       !.ac = IF post THEN @ ELSE Plus(operand.a, operand.c),
       !.acc_r = IF pre THEN @ ELSE Add(@, alu.new_r),
       !.acc_i = IF pre THEN @ ELSE Add(@, alu.new_i)]

(* The last word; then the next bin, the end of the chunk or of the block. *)
LastOfChunk == at.i = BLOCK_SIZE - 1 \/ at.i = CHUNK_SIZE * at.chunk_pointer - 1

NextBinOf(a) == [a EXCEPT !.i = @ + 1, !.chunk_prev = a.chunk, !.chunk = @ + 1]
NextAddressOf(a) == [a EXCEPT !.ir_addr = @ + 2, !.in_addr = @ + 2]

ChunkEndKeepsAddress ==                                      \* mutant
  IF LastOfChunk
    THEN state' = "A_ADDR" /\ post' = TRUE /\ pre' = FALSE /\ at' = NextBinOf(at)
  ELSE IF at.i = BLOCK_SIZE
    THEN state' = "NEXT_BLOCK" /\ pre' = FALSE /\ UNCHANGED <<post, at>>
  ELSE IF at.i = CHUNK_SIZE * at.chunk_pointer
    THEN state' = "WRITE_INIT" /\ pre' = TRUE /\ post' = FALSE /\ UNCHANGED at
  ELSE /\ state' = "A_ADDR" /\ pre' = FALSE /\ UNCHANGED post
       /\ at' = NextAddressOf(NextBinOf(at))

AfterBin ==
  IF LastOfChunk
    THEN state' = "A_ADDR" /\ post' = TRUE /\ pre' = FALSE /\ at' = NextBinOf(at)
  ELSE IF at.i = BLOCK_SIZE
    THEN state' = "NEXT_BLOCK" /\ pre' = FALSE /\ UNCHANGED <<post, at>>
  ELSE IF at.i = CHUNK_SIZE * at.chunk_pointer
    THEN /\ state' = "WRITE_INIT" /\ pre' = TRUE /\ post' = FALSE
         /\ at' = NextAddressOf(at)
  ELSE /\ state' = "A_ADDR" /\ pre' = FALSE /\ UNCHANGED post
       /\ at' = NextAddressOf(NextBinOf(at))

FetchB(in) ==
  /\ state = "B" /\ (post \/ ReadValid(in))
  /\ IF post THEN UNCHANGED <<operand, alu>>
     ELSE /\ operand' = [operand EXCEPT !.b = Word]
          /\ alu' = [alu EXCEPT !.ad = Plus(operand.a, operand.d)]
  /\ array' = IF pre THEN array
              ELSE [r |-> [array.r EXCEPT ![at.chunk_prev] = alu.acc_r],
                    i |-> [array.i EXCEPT ![at.chunk_prev] = alu.acc_i]]
  /\ AfterBin
  /\ Hold(in)
  /\ UNCHANGED <<goto_idle_after_write, ringVars>>

-----------------------------------------------------------------------------
(* MAC_NEXT_BLOCK: the input ring is walked backwards.  The last chunk of  *)
(* the block before is still to be written.                                *)

NextBlock(in) ==
  LET last == at.ir = IrMax(channel)
      ir == IF last THEN at.ir ELSE at.ir + 1
      back == IF at.in = InMin(channel) THEN InMax(channel) ELSE at.in - 1
  IN /\ state = "NEXT_BLOCK" /\ state' = "WRITE_INIT"
     /\ pre' = TRUE /\ post' = FALSE
     /\ goto_idle_after_write' = (last \/ goto_idle_after_write)
     /\ at' = [at EXCEPT !.ir = ir, !.in = back, !.i = 0, !.chunk = 0,
                 !.chunk_prev = 0, !.ir_addr = base_addr + Base(ir),
                 !.in_addr = base_addr + Base(back)]
     /\ Hold(in)
     /\ UNCHANGED <<ringVars, sumVars>>

-----------------------------------------------------------------------------
(* CHUNK_WRITE_*: the arrays go back to the SDRAM *)

WriteInit(in) ==
  /\ state = "WRITE_INIT" /\ state' = "WRITE_1"
  /\ at' = [at EXCEPT !.cnt = 0, !.r = TRUE,
              !.chunk_addr = base_addr + ChunkBase(at.chunk_pointer - 1)]
  /\ Hold(in)
  /\ UNCHANGED <<pre, post, goto_idle_after_write, ringVars, sumVars>>

WriteSum(in) ==
  /\ \/ /\ state = "WRITE_1" /\ state' = "WRITE_1_WAIT"
        /\ Request("write", at.chunk_addr, array.r[at.cnt])
     \/ /\ state = "WRITE_2" /\ state' = "WRITE_2_WAIT"
        /\ Request("write", at.chunk_addr + 1, array.i[at.cnt])
  /\ UNCHANGED <<pre, post, goto_idle_after_write, ringVars, at, sumVars>>

RealWritten(in) ==
  /\ state = "WRITE_1_WAIT" /\ WriteValid(in) /\ state' = "WRITE_2"
  /\ Hold(in)
  /\ UNCHANGED <<pre, post, goto_idle_after_write, ringVars, at, sumVars>>

PointerNoWrap(p, done) == p                                  \* mutant
PointerAfter(p, done) == IF done /\ p = CHUNKS THEN 0 ELSE p

BinWritten(in) ==
  /\ state = "WRITE_2_WAIT" /\ WriteValid(in)
  /\ LET done == at.cnt = CHUNK_SIZE - 1
         idle == done /\ goto_idle_after_write
     IN /\ state' = IF idle THEN "IDLE" ELSE IF done THEN "GET_INIT" ELSE "WRITE_1"
        /\ goto_idle_after_write' = (goto_idle_after_write /\ ~done)
        /\ at' = [at EXCEPT !.cnt = IF done THEN 0 ELSE @ + 1,
                    !.chunk_addr = @ + 2,
                    !.chunk_pointer = IF idle THEN 0 ELSE PointerAfter(@, done)]
  /\ Hold(in)
  /\ UNCHANGED <<pre, post, ringVars, sumVars>>

-----------------------------------------------------------------------------
(* CHUNK_GET_*: the next chunk comes from the SDRAM *)

GetInit(in) ==
  /\ state = "GET_INIT" /\ state' = "GET_SET_ADDR"
  /\ at' = [at EXCEPT !.cnt = 0, !.r = TRUE, !.chunk_pointer = @ + 1,
              !.chunk_addr = base_addr + ChunkBase(at.chunk_pointer)]
  /\ Hold(in)
  /\ UNCHANGED <<pre, post, goto_idle_after_write, ringVars, sumVars>>

AskSum(in) ==
  /\ state = "GET_SET_ADDR" /\ state' = "GET_DATA"
  /\ Request("read", IF at.r THEN at.chunk_addr ELSE at.chunk_addr + 1, {})
  /\ UNCHANGED <<pre, post, goto_idle_after_write, ringVars, at, sumVars>>

GetSum(in) ==
  /\ state = "GET_DATA" /\ ReadValid(in)
  /\ LET done == at.cnt = CHUNK_SIZE - 1
     IN IF at.r
        THEN /\ array' = [array EXCEPT !.r[at.cnt] = Sum]
             /\ at' = [at EXCEPT !.r = FALSE]
             /\ state' = "GET_SET_ADDR"
        ELSE /\ array' = [array EXCEPT !.i[at.cnt] = Sum]
             /\ at' = [at EXCEPT !.r = TRUE, !.chunk_addr = @ + 2,
                         !.cnt = IF done THEN 0 ELSE @ + 1]
             /\ state' = IF done THEN "CHUNK_DONE" ELSE "GET_SET_ADDR"
  /\ Hold(in)
  /\ UNCHANGED <<pre, post, goto_idle_after_write, ringVars, operand, alu>>

ChunkDone(in) ==
  /\ state = "CHUNK_DONE" /\ state' = "A_ADDR"
  /\ at' = [at EXCEPT !.chunk = 0, !.chunk_prev = 0]
  /\ Hold(in)
  /\ UNCHANGED <<pre, post, goto_idle_after_write, ringVars, sumVars>>

-----------------------------------------------------------------------------
(* The second state machine answers the poll (address 129).                *)

StateWord == IF state = "IDLE" THEN "idle" ELSE "busy"

Reply(s_read) ==
  /\ \/ read_state = "IDLE" /\ read_state' = (IF s_read THEN "GET_DATA" ELSE "IDLE")
     \/ read_state = "GET_DATA" /\ read_state' = "OUTPUT_DATA"
     \/ read_state = "OUTPUT_DATA" /\ read_state' = "IDLE"
  /\ output_value' = IF read_state = "GET_DATA" THEN StateWord ELSE output_value
  /\ reply' = IF read_state = "OUTPUT_DATA" THEN output_value ELSE "none"

(* The SDRAM takes an access when it has answered the one before.          *)
Waits(valid) == IF m.op = "none" THEN {FALSE}
                ELSE IF flight.op = "none" \/ valid THEN BOOLEAN ELSE {TRUE}
Valids == IF flight.op = "none" THEN {FALSE} ELSE BOOLEAN

Written == m.addr - area - CHUNK_OFFSET

Sdram(in) ==
  LET taken == m.op # "none" /\ ~in.wait
  IN /\ flight' = IF taken THEN m ELSE IF in.valid THEN NoAccess ELSE flight
     /\ IF taken /\ m.op = "write"
        THEN IF Written \in 0 .. 2 * BLOCK_SIZE - 1
             THEN /\ UNCHANGED damaged
                  /\ sums' = IF Written % 2 = 0
                             THEN [sums EXCEPT !.r[Written \div 2] = m.data]
                             ELSE [sums EXCEPT !.i[Written \div 2] = m.data]
             ELSE damaged' = damaged \cup {m.addr - area} /\ UNCHANGED sums
        ELSE UNCHANGED <<sums, damaged>>

Main(in) ==
  \/ Listen(in) \/ Reset(in) \/ SetChannel(in) \/ Select(in) \/ MacInit(in)
  \/ AskA(in) \/ Wait(in) \/ FetchA(in) \/ FetchC(in) \/ FetchD(in)
  \/ FetchB(in) \/ NextBlock(in) \/ WriteInit(in) \/ WriteSum(in)
  \/ RealWritten(in) \/ BinWritten(in) \/ GetInit(in) \/ AskSum(in)
  \/ GetSum(in) \/ ChunkDone(in)

(* One clock cycle, with what the program does on the slave port in it.    *)
Clock(command, s_read) ==
  \E valid \in Valids : \E wait \in Waits(valid) :
    LET in == [command |-> command, wait |-> wait, valid |-> valid]
    IN Main(in) /\ Reply(s_read) /\ Sdram(in)

(* The processor itself accesses the SDRAM.                                *)
ClockBeside(content) ==
  /\ flight = NoAccess /\ m = NoAccess
  /\ Main([command |-> "none", wait |-> FALSE, valid |-> FALSE])
  /\ Reply(FALSE)
  /\ sums' = content /\ damaged' = {} /\ UNCHANGED flight

-----------------------------------------------------------------------------
(* The program: test() *)

Pause == access = 0 /\ Clock("none", FALSE) /\ UNCHANGED <<area, programVars>>

(* calloc() and MAC_SDRAM_SET_BASE_ADDR, long after any reset.             *)
SetBase ==
  /\ pc = "boot" /\ pc' = "base_wait"
  /\ state = "IDLE" /\ m = NoAccess /\ flight = NoAccess
  /\ area' \in Areas
  /\ Clock("BASE", FALSE)
  /\ UNCHANGED <<side, access>>

(* sdram_reset_all and sdram_reset_acc.                                    *)
ZeroSdram ==
  /\ \/ pc = "zero_all" /\ pc' = "reset"
     \/ pc = "zero_acc" /\ pc' = "set"
  /\ ClockBeside(ZeroSums)
  /\ UNCHANGED <<area, side, access>>

Write(from, command, to) ==
  /\ pc = from /\ pc' = to
  /\ Clock(command, FALSE)
  /\ UNCHANGED <<area, side, access>>

WriteReset == Write("reset", "RESET", "reset_wait")
WriteChannel == Write("set", IF side = 1 THEN "SET_LEFT" ELSE "SET_RIGHT", "set_wait")
WriteStart == Write("start", "SELECT", "run_wait")

(* WAIT_UNTIL_IDLE: a read is held for two cycles, then its answer comes.  *)
After == [base_wait |-> "zero_all", reset_wait |-> "block", set_wait |-> "start",
          run_wait |-> "read"]

Poll ==
  /\ pc \in DOMAIN After
  /\ \/ access < 2 /\ access' = access + 1 /\ Clock("none", TRUE) /\ UNCHANGED pc
     \/ access = 2 /\ reply # "none" /\ access' = 0 /\ Clock("none", FALSE)
        /\ pc' = IF reply = "idle" THEN After[pc] ELSE pc
     \/ access = 2 /\ reply = "none" /\ Clock("none", FALSE) /\ UNCHANGED <<pc, access>>
  /\ UNCHANGED <<area, side>>

(* The spectra of an input block are stored; or test() is left and entered *)
(* again.                                                                  *)
StoreBlocks ==
  /\ pc = "block" /\ pc' \in {"zero_acc", "boot"}
  /\ side' = 1
  /\ ClockBeside(sums)
  /\ UNCHANGED <<area, access>>

(* The sums are copied; then follows the right channel.                    *)
CopySums ==
  /\ pc = "read" /\ pc' = IF side = 1 THEN "zero_acc" ELSE "block"
  /\ side' = IF side = 1 THEN 2 ELSE side
  /\ ClockBeside(sums)
  /\ UNCHANGED <<area, access>>

Program == SetBase \/ ZeroSdram \/ WriteReset \/ WriteChannel \/ WriteStart
           \/ Poll \/ StoreBlocks \/ CopySums

(* KEY(0) resets processor, interconnect and MAC; of the MAC's registers   *)
(* those that res_n mentions, and nothing else.                            *)
Key0 ==
  /\ (IF goto_idle_after_write THEN "key0_last_chunk" ELSE "key0") \in Restarts
  /\ state' = "RESET"
  /\ at' = [at EXCEPT !.i = 0, !.chunk_pointer = 0]
  /\ operand' = [operand EXCEPT !.a = 0]
  /\ m' = IF m.op = "read" THEN NoAccess ELSE m
  /\ flight' = NoAccess
  /\ output_value' = "busy"
  /\ pc' = "boot" /\ side' = 1 /\ access' = 0
  /\ UNCHANGED <<pre, post, goto_idle_after_write, ringVars, alu, array,
                 read_state, reply, memVars>>

Next == Program \/ Pause \/ Key0

Spec == Init /\ [][Next]_vars

(* The clock runs, the program goes on after any pause, and the SDRAM      *)
(* serves every access in the end.                                         *)
FairSpec ==
  /\ Spec
  /\ WF_vars(Program \/ Pause)
  /\ WF_vars(Program)
  /\ WF_vars((Program \/ Pause) /\ flight' # flight)

-----------------------------------------------------------------------------
(* Properties *)

BlockWord(block, bin, part) == Base(block) + 2 * bin + part

BlockOf(word) == word \div Base(1)

(* The products that a pair of blocks adds to the sums of a bin.           *)
Real(p, e) == Plus(BlockWord(p.ir, e, 0), BlockWord(p.in, e, 0))
              \cup Minus(BlockWord(p.ir, e, 1), BlockWord(p.in, e, 1))
Imag(p, e) == Plus(BlockWord(p.ir, e, 0), BlockWord(p.in, e, 1))
              \cup Plus(BlockWord(p.ir, e, 1), BlockWord(p.in, e, 0))

Running == {"SELECT", "INIT", "A_ADDR", "A", "C", "D", "B", "NEXT_BLOCK",
            "WRITE_INIT", "WRITE_1", "WRITE_1_WAIT", "WRITE_2", "WRITE_2_WAIT",
            "GET_INIT", "GET_SET_ADDR", "GET_DATA", "CHUNK_DONE"}

(* Every register keeps its type: block pointers stay in range, and the    *)
(* arrays are addressed inside a chunk although chunk_prev, chunk and the  *)
(* chunk pointer run one ahead.                                            *)
TypeOK ==
  /\ state \in Running \cup {"IDLE", "RESET", "SET_LEFT", "SET_RIGHT"}
  /\ pre \in BOOLEAN /\ post \in BOOLEAN /\ goto_idle_after_write \in BOOLEAN
  /\ channel \in Channels /\ latest_in_block \in Slots
  /\ \A c \in Channels : latest[c] \in InMin(c) .. InMax(c)
  /\ at.i \in 0 .. BLOCK_SIZE /\ at.ir \in Slots /\ at.in \in Slots
  /\ at.chunk \in 0 .. CHUNK_SIZE /\ at.chunk_prev \in ChunkBins
  /\ at.chunk_pointer \in 0 .. CHUNKS /\ at.cnt \in ChunkBins
  /\ state \in {"A", "C", "D", "B"} => ~(pre /\ post)
  /\ m.op \in {"none", "read", "write"} /\ flight.op \in {"none", "read", "write"}
  /\ read_state \in {"IDLE", "GET_DATA", "OUTPUT_DATA"}
  /\ reply \in {"none", "idle", "busy"}
  /\ pc \in {"boot", "zero_all", "reset", "block", "zero_acc", "set", "start",
             "read"} \cup DOMAIN After

(* One access at a time: the MAC never asks while an access is waiting or  *)
(* on its way (it would lose one of them), and an idle MAC leaves the      *)
(* SDRAM alone.                                                            *)
OneAccess ==
  /\ m # NoAccess => flight = NoAccess
  /\ state = "IDLE" /\ pc # "boot" => m = NoAccess /\ flight = NoAccess

(* What the block of sums stands for: the pairs of blocks whose products   *)
(* it holds, if it holds all products of these pairs and no other.         *)
SumPairs ==
  LET P == { [ir |-> BlockOf(x[2]), in |-> BlockOf(x[3])] :
               x \in { y \in sums.r[0] : y[1] = 1 } }
  IN IF \A e \in Bins : /\ sums.r[e] = UNION { Real(p, e) : p \in P }
                        /\ sums.i[e] = UNION { Imag(p, e) : p \in P }
     THEN P ELSE {[ir |-> -1, in |-> -1]}

Activity == IF state \in Running THEN "RUN" ELSE state

(* During a run the registers are already one block ahead.                 *)
Before(c, b) == IF b = InMin(c) THEN InMax(c) ELSE b - 1

Blocks == [b \in Slots |-> b]

Commands == INSTANCE BodyCommands
  WITH NUM <- BLOCK_NUM, state <- Activity,
       latest <- IF state \in Running \ {"SELECT"}
                 THEN [latest EXCEPT ![channel] = Before(channel, @)] ELSE latest,
       mem <- IF damaged = {} THEN Blocks
              ELSE [b \in Slots |-> IF (Base(b) .. Base(b + 1) - 1) \cap damaged = {}
                                    THEN b ELSE -1],
       acc <- IF Activity \in {"RUN", "RESET"} THEN {} ELSE SumPairs

(* The chunked pipeline does what the program relies on: when the MAC is   *)
(* idle after a run, the block of sums holds for every bin each product of *)
(* the NUM pairs of blocks with its sign, once, and nothing else; no other *)
(* word of the SDRAM was written.                                          *)
ImplementsBodyCommands == Commands!CommandSpec

(* What the program copies after the poll is the finished sum of the       *)
(* channel that it selected, for the block that it stored last.            *)
CopiesSums ==
  pc = "read" => /\ channel = side
                 /\ SumPairs = Commands!Sum(side, latest[side])

(* A started MAC lets the poll end: no access is waited for in vain, and   *)
(* the chunk and block counters meet; or the board is reset.               *)
PollEnds == pc = "run_wait" ~> pc \in {"read", "boot"}
=============================================================================
