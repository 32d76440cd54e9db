----------------------------- MODULE HeaderMac -----------------------------
(***************************************************************************)
(* The header MAC (mac_sram.vhd), clock cycle by clock cycle, with the     *)
(* SRAM behind its multiplexer and the part of test() that drives it.      *)
(*                                                                         *)
(* A bin of a block is four 16 bit words: real high, real low, imaginary   *)
(* high, imaginary low.  The MAC fetches a + bi from the impulse response  *)
(* and c + di from the input, one word at a time in the order a c d b, and *)
(* meanwhile multiplies and sums the bin before.                           *)
(*                                                                         *)
(* Data.  The SRAM word at an address is named by that address; a value is *)
(* the pair of its words, a product the pair of its factors, and a sum the *)
(* set of its signed products.                                             *)
(***************************************************************************)
EXTENDS Integers, FiniteSets

CONSTANTS
  BLOCK_SIZE,      \* bins in a block (512)
  BLOCK_NUM,       \* blocks per channel (14)
  MaxLatency       \* bound: cycles the SRAM may take for a read

ASSUME HeaderMacAssumption ==
  /\ BLOCK_SIZE \in Nat \ {0}
  /\ BLOCK_NUM \in Nat \ {0, 1}
  /\ MaxLatency \in Nat \ {0}

VARIABLES
  state,           \* state_mode without its suffix, see flow
  flow,            \* PRE: first bin, no bin before it; MID; POST: only sums
  pending,         \* the registers reset and start
  channel, latest, \* channel; latest_in_block_1 and latest_in_block_2
  latest_in_block,
  at,              \* i, i_prev, ir_pointer, in_pointer, ir_addr, in_addr
  operand,         \* a, b, c, d
  alu,             \* products, new_r, new_i, acc_r_temp, acc_i_temp
  ram, rd,         \* the two sum RAMs and their output registers
  bus,             \* m_read, m_address and sel
  read_state, output_addr, output_value, readdata,     \* answering reads
  flight,          \* the read the SRAM is working on
  pc, side, access, index      \* the program

fsmVars == <<state, flow, pending>>
ringVars == <<channel, latest, latest_in_block>>
sumVars == <<operand, alu, ram>>
replyVars == <<read_state, output_addr, output_value, readdata>>
programVars == <<pc, side, access, index>>
vars == <<fsmVars, ringVars, at, sumVars, rd, bus, replyVars, flight,
          programVars>>

-----------------------------------------------------------------------------
(* Data and memory map *)

Channels == {1, 2}         \* left, right
IrMin(c) == (c - 1) * BLOCK_NUM
IrMax(c) == c * BLOCK_NUM - 1
InMin(c) == (c + 1) * BLOCK_NUM
InMax(c) == (c + 2) * BLOCK_NUM - 1
Slots == 0 .. 4 * BLOCK_NUM - 1
Bins == 0 .. BLOCK_SIZE - 1

Base(block) == block * BLOCK_SIZE * 4
NoWord == -1
Addresses == {NoWord} \cup 0 .. Base(4 * BLOCK_NUM) - 1
NoValue == <<NoWord, NoWord>>

Plus(x, y) == <<1, x, y>>
Minus(x, y) == <<-1, x, y>>
Twice == <<2, NoValue, NoValue>>
Add(acc, new) == IF acc \cap new = {} THEN acc \cup new ELSE {Twice}

ResetLatest == [c \in Channels |-> InMax(c) - 1]
NoFlight == [addr |-> NoWord, age |-> 0]
ADDRESS_STATE == 2 * BLOCK_SIZE

Init ==
  /\ state = "IDLE" /\ flow = "PRE" /\ pending = "none"
  /\ channel = 1 /\ latest = ResetLatest /\ latest_in_block = InMax(1) - 1
  /\ at = [i |-> 0, i_prev |-> 0, ir |-> 0, in |-> 0, ir_addr |-> 0, in_addr |-> 0]
  /\ operand = [a |-> NoValue, b |-> NoValue, c |-> NoValue, d |-> NoValue]
  /\ alu = [ac |-> {}, bc |-> {}, bd |-> {}, ad |-> {},
            new_r |-> {}, new_i |-> {}, acc_r |-> {}, acc_i |-> {}]
  /\ ram = [r |-> [e \in Bins |-> {}], i |-> [e \in Bins |-> {}]]
  /\ rd = [r |-> {}, i |-> {}]
  /\ bus = [read |-> FALSE, addr |-> 0, sel |-> FALSE]
  /\ read_state = "IDLE" /\ output_addr = 0 /\ output_value = {}
  /\ readdata = {}
  /\ flight = NoFlight
  /\ pc = "reset" /\ side = 1 /\ access = 0 /\ index = 0

(* The register sel gives the bus to the program in the cycle after the    *)
(* MAC was idle.                                                           *)
DriveKeepingSel(read, addr) ==                               \* mutant
  bus' = [read |-> read, addr |-> addr, sel |-> state = "IDLE" \/ bus.sel]
Drive(read, addr) == bus' = [read |-> read, addr |-> addr, sel |-> state = "IDLE"]
Hold == Drive(bus.read, bus.addr)

-----------------------------------------------------------------------------
(* Commands: STATE_IDLE, STATE_START, STATE_RESET *)

NextInNoWrap(c, b) == b + 1                                  \* mutant
NextIn(c, b) == IF b = InMax(c) THEN InMin(c) ELSE b + 1

(* A write is looked at only if no command is pending.                     *)
Listens == state = "IDLE" /\ pending = "none"

Listen(command) ==
  /\ Listens
  /\ pending' = IF command \in {"reset", "start"} THEN command ELSE "none"
  /\ channel' = IF command = "left" THEN 1
                ELSE IF command = "right" THEN 2 ELSE channel
  /\ latest' = IF command = "reset" THEN ResetLatest
               ELSE IF command = "start"
               THEN [latest EXCEPT ![channel] = NextIn(channel, @)] ELSE latest
  /\ latest_in_block' = IF command = "start" THEN latest'[channel]
                        ELSE latest_in_block
  /\ Drive(FALSE, bus.addr)
  /\ UNCHANGED <<state, flow, at, sumVars>>

Begin ==
  /\ state = "IDLE" /\ pending # "none"
  /\ state' = IF pending = "reset" THEN "RESET" ELSE "START"
  /\ pending' = "none"
  /\ at' = [at EXCEPT !.i = 0]
  /\ Drive(FALSE, bus.addr)
  /\ UNCHANGED <<flow, ringVars, sumVars>>

Clear ==
  /\ state \in {"START", "RESET"}
  /\ ram' = [r |-> [ram.r EXCEPT ![at.i] = {}], i |-> [ram.i EXCEPT ![at.i] = {}]]
  /\ IF at.i = BLOCK_SIZE - 1
       THEN state' = (IF state = "START" THEN "RUN" ELSE "IDLE") /\ UNCHANGED at
       ELSE at' = [at EXCEPT !.i = @ + 1] /\ UNCHANGED state
  /\ Hold
  /\ UNCHANGED <<flow, pending, ringVars, operand, alu>>

(* STATE_RUN to STATE_RUN3: select the blocks, ask for the first word.     *)
Run ==
  /\ state = "RUN" /\ state' = "RUN2"
  /\ at' = [at EXCEPT !.i = 0, !.i_prev = 0, !.in = latest_in_block,
                      !.ir = IrMin(channel)]
  /\ Hold
  /\ UNCHANGED <<flow, pending, ringVars, sumVars>>

Run2 ==
  /\ state = "RUN2" /\ state' = "RUN3"
  /\ at' = [at EXCEPT !.ir_addr = Base(at.ir), !.in_addr = Base(at.in)]
  /\ Hold
  /\ UNCHANGED <<flow, pending, ringVars, sumVars>>

FirstWordNotRead ==                                          \* mutant
  /\ state \in {"RUN3", "EX_A_L"} /\ state' = "A_H" /\ flow' = "PRE"
  /\ Drive(state = "RUN3", at.ir_addr)
  /\ UNCHANGED <<pending, ringVars, at, sumVars>>

(* Also STATE_EX_A_L, which begins the blocks after the first.             *)
FirstWord ==
  /\ state \in {"RUN3", "EX_A_L"} /\ state' = "A_H" /\ flow' = "PRE"
  /\ Drive(TRUE, at.ir_addr)
  /\ UNCHANGED <<pending, ringVars, at, sumVars>>

-----------------------------------------------------------------------------
(* One word of a bin after the other.  Except in the POST flow a state is  *)
(* left when its word arrives; the request for the next word is then sent. *)

Words == {"A_H", "A_L", "C_H", "C_L", "D_H", "D_L", "B_H"}

Wait(valid) ==
  /\ ~valid
  /\ \/ state \in Words /\ flow # "POST"
     \/ state = "B_L" /\ at.i # BLOCK_SIZE
  /\ Drive(FALSE, bus.addr)
  /\ UNCHANGED <<fsmVars, ringVars, at, sumVars>>

Fetch(valid, from, x, half, to, addr) ==
  /\ state = from /\ state' = to
  /\ \/ /\ flow = "POST" /\ Hold /\ UNCHANGED operand
     \/ /\ flow # "POST" /\ valid /\ Drive(TRUE, addr)
        /\ operand' = [operand EXCEPT ![x][half] = flight.addr]
  /\ UNCHANGED <<flow, pending, ringVars, at>>

AHigh(valid) ==
  /\ Fetch(valid, "A_H", "a", 1, "A_L", at.ir_addr + 1)
  /\ alu' = IF flow = "PRE" THEN alu
            ELSE [alu EXCEPT !.bc = {Plus(operand.b, operand.c)}, !.acc_i = rd.i]
  /\ UNCHANGED ram

ALow(valid) ==
  /\ Fetch(valid, "A_L", "a", 2, "C_H", at.in_addr)
  /\ alu' = IF flow = "PRE" THEN alu
            ELSE [alu EXCEPT !.new_i = Add(alu.ad, alu.bc), !.acc_r = rd.r]
  /\ UNCHANGED ram

CHigh(valid) ==
  /\ Fetch(valid, "C_H", "c", 1, "C_L", at.in_addr + 1)
  /\ alu' = IF flow = "PRE" THEN alu
            ELSE [alu EXCEPT !.bd = {Minus(operand.b, operand.d)},
                             !.acc_i = Add(@, alu.new_i)]
  /\ UNCHANGED ram

CLow(valid) ==
  /\ Fetch(valid, "C_L", "c", 2, "D_H", at.in_addr + 2)
  /\ IF flow = "PRE" THEN UNCHANGED <<alu, ram>>
     ELSE /\ alu' = [alu EXCEPT !.new_r = Add(alu.ac, alu.bd)]
          /\ ram' = [ram EXCEPT !.i[at.i_prev] = alu.acc_i]

DHigh(valid) ==
  /\ Fetch(valid, "D_H", "d", 1, "D_L", at.in_addr + 3)
  /\ alu' = [alu EXCEPT
       !.ac = IF flow = "POST" THEN @ ELSE {Plus(operand.a, operand.c)},
       !.acc_r = IF flow = "PRE" THEN @ ELSE Add(@, alu.new_r)]
  /\ UNCHANGED ram

DLowWrongBin(valid) ==                                       \* mutant
  /\ Fetch(valid, "D_L", "d", 2, IF flow = "POST" THEN "B_L" ELSE "B_H",
           at.ir_addr + 2)
  /\ ram' = IF flow = "PRE" THEN ram
            ELSE [ram EXCEPT !.r[at.i] = alu.acc_r]
  /\ UNCHANGED alu

DLow(valid) ==
  /\ Fetch(valid, "D_L", "d", 2, IF flow = "POST" THEN "B_L" ELSE "B_H",
           at.ir_addr + 2)
  /\ ram' = IF flow = "PRE" THEN ram
            ELSE [ram EXCEPT !.r[at.i_prev] = alu.acc_r]
  /\ UNCHANGED alu

BHigh(valid) ==
  /\ flow # "POST"
  /\ Fetch(valid, "B_H", "b", 1, "B_L", at.ir_addr + 3)
  /\ alu' = [alu EXCEPT !.ad = {Plus(operand.a, operand.d)}]
  /\ UNCHANGED ram

(* The last word of a bin.  After the last bin of a block the POST flow    *)
(* finishes its sums and comes back here with nothing to read.             *)
BLow(valid) ==
  /\ state = "B_L" /\ valid
  /\ operand' = [operand EXCEPT !.b[2] = flight.addr]
  /\ IF at.i = BLOCK_SIZE - 1
       THEN /\ state' = "A_H" /\ flow' = "POST"
            /\ at' = [at EXCEPT !.i_prev = at.i, !.i = at.i + 1]
       ELSE /\ state' = "B_L_CONTINUE" /\ UNCHANGED flow
            /\ at' = [at EXCEPT !.ir_addr = @ + 4, !.in_addr = @ + 4]
  /\ Drive(FALSE, bus.addr)
  /\ UNCHANGED <<pending, ringVars, alu, ram>>

BlockEnd(valid) ==
  /\ state = "B_L" /\ ~valid /\ at.i = BLOCK_SIZE
  /\ state' = "NEXT_BLOCK"
  /\ Drive(FALSE, bus.addr)
  /\ UNCHANGED <<flow, pending, ringVars, at, sumVars>>

Continue ==
  /\ state = "B_L_CONTINUE" /\ state' = "A_H" /\ flow' = "MID"
  /\ at' = [at EXCEPT !.i_prev = at.i, !.i = at.i + 1]
  /\ Drive(TRUE, at.ir_addr)
  /\ UNCHANGED <<pending, ringVars, sumVars>>

-----------------------------------------------------------------------------
(* STATE_NEXT_BLOCK: the input ring is walked backwards.                   *)

InBack(b) == IF b = InMin(channel) THEN InMax(channel) ELSE b - 1

NextBlock ==
  /\ state = "NEXT_BLOCK"
  /\ IF at.ir = IrMax(channel)
       THEN state' = "IDLE" /\ at' = [at EXCEPT !.in = InBack(@)]
       ELSE /\ state' = "NEXT_BLOCK2"
            /\ at' = [at EXCEPT !.ir = @ + 1, !.in = InBack(@)]
  /\ Hold
  /\ UNCHANGED <<flow, pending, ringVars, sumVars>>

NextBlock2 ==
  /\ state = "NEXT_BLOCK2" /\ state' = "EX_A_L"
  /\ at' = [at EXCEPT !.ir_addr = Base(at.ir), !.in_addr = Base(at.in),
                      !.i_prev = at.i, !.i = 0]
  /\ Hold
  /\ UNCHANGED <<flow, pending, ringVars, sumVars>>

-----------------------------------------------------------------------------
(* Reads of the program (read_state) and the RAM output registers, which   *)
(* keep their value unless a read port is used.                            *)

ReadsR(addr) == read_state = "ARRAY" /\ addr < BLOCK_SIZE
ReadsI(addr) == read_state = "ARRAY" /\ addr \in BLOCK_SIZE .. ADDRESS_STATE - 1

RamOutput(valid) ==
  rd' = [r |-> IF ReadsR(output_addr) THEN ram.r[output_addr]
               ELSE IF state = "A_H" /\ (flow = "POST" \/ (flow = "MID" /\ valid))
               THEN ram.r[at.i_prev] ELSE rd.r,
         i |-> IF ReadsI(output_addr) THEN ram.i[output_addr - BLOCK_SIZE]
               ELSE IF \/ state = "B_L_CONTINUE"
                       \/ state = "B_L" /\ valid /\ at.i = BLOCK_SIZE - 1
               THEN ram.i[at.i] ELSE rd.i]

StateWordEarly ==                                            \* mutant
  IF state \in {"IDLE", "START"} THEN "idle" ELSE "busy"
StateWord == IF state = "IDLE" THEN "idle" ELSE "busy"

Reply(command, s_read, s_address) ==
  /\ \/ read_state = "IDLE" /\ read_state' = (IF s_read THEN "ADDRESS" ELSE "IDLE")
     \/ read_state = "ADDRESS" /\ read_state' = "ARRAY"
     \/ read_state = "ARRAY" /\ read_state' =
          (IF output_addr = ADDRESS_STATE THEN "DUMMY"
           ELSE IF ReadsI(output_addr) THEN "ARRAY_I" ELSE "ARRAY_R")
     \/ read_state \in {"DUMMY", "ARRAY_I", "ARRAY_R"} /\ read_state' = "OUTPUT"
     \/ read_state = "OUTPUT" /\ read_state' = "IDLE"
  /\ output_addr' = IF read_state = "ADDRESS" THEN s_address
                    ELSE IF Listens /\ command = "reset" THEN 0 ELSE output_addr
  /\ output_value' =
       IF read_state = "ARRAY" /\ output_addr = ADDRESS_STATE THEN {StateWord}
       ELSE IF read_state = "ARRAY_I" THEN rd.i
       ELSE IF read_state = "ARRAY_R" THEN rd.r
       ELSE IF Listens /\ command = "reset" THEN {} ELSE output_value
  /\ readdata' = IF read_state = "OUTPUT" THEN output_value ELSE readdata

-----------------------------------------------------------------------------
(* The SRAM gets the request of the MAC, and the MAC its answer, only      *)
(* while the multiplexer selects the MAC.                                  *)

Answers == IF flight = NoFlight \/ bus.sel THEN {FALSE}
           ELSE IF flight.age = MaxLatency THEN {TRUE} ELSE BOOLEAN

Sram(valid) ==
  flight' = IF bus.read /\ ~bus.sel THEN [addr |-> bus.addr, age |-> 1]
            ELSE IF valid \/ flight = NoFlight THEN NoFlight
            ELSE [flight EXCEPT !.age = IF @ < MaxLatency THEN @ + 1 ELSE @]

Main(command, valid) ==
  \/ Listen(command) \/ Begin \/ Clear \/ Run \/ Run2 \/ FirstWord
  \/ Wait(valid) \/ AHigh(valid) \/ ALow(valid) \/ CHigh(valid) \/ CLow(valid)
  \/ DHigh(valid) \/ DLow(valid) \/ BHigh(valid) \/ BLow(valid)
  \/ BlockEnd(valid) \/ Continue \/ NextBlock \/ NextBlock2

(* One clock cycle, with what the program does on the bus in it.           *)
Clock(command, s_read, s_address) ==
  \E valid \in Answers :
    /\ Main(command, valid)
    /\ RamOutput(valid)
    /\ Reply(command, s_read, s_address)
    /\ Sram(valid)

-----------------------------------------------------------------------------
(* The program: test().  A write takes one cycle; a read keeps its address *)
(* for two and takes the data four cycles later (header_mac_hw.tcl).       *)

Pause == access = 0 /\ Clock("none", FALSE, 0) /\ UNCHANGED programVars

Write(command, from, to) ==
  /\ pc = from /\ pc' = to
  /\ Clock(command, FALSE, 0)
  /\ UNCHANGED <<side, access, index>>

WriteReset == Write("reset", "reset", "settle")
WriteChannel == Write(IF side = 1 THEN "left" ELSE "right", "set", "start")
WriteStart == Write("start", "start", "poll")

(* The reset is not polled for: a block of samples passes before the first *)
(* access to the SRAM, far longer than the reset takes.                    *)
Settle ==
  /\ state = "IDLE" /\ pending = "none"
  /\ Write("none", "settle", "store")

(* The program stores the spectra of the input blocks, or is left and      *)
(* entered again.                                                          *)
StoreBlocks ==
  /\ pc = "store" /\ pc' \in {"set", "reset"}
  /\ side' = 1
  /\ Clock("none", FALSE, 0)
  /\ UNCHANGED <<access, index>>

ReadAddress == IF pc = "poll" THEN ADDRESS_STATE ELSE index

ReadCycle ==
  /\ pc \in {"poll", "read"}
  /\ access < 5 /\ access' = access + 1
  /\ Clock("none", access < 2, ReadAddress)
  /\ UNCHANGED <<pc, side, index>>

PollDone ==
  /\ pc = "poll" /\ access = 5 /\ access' = 0
  /\ IF readdata = {"idle"} THEN pc' = "read" /\ index' = 0
                            ELSE UNCHANGED <<pc, index>>
  /\ Clock("none", FALSE, 0)
  /\ UNCHANGED side

(* Real and imaginary parts in turn; then the right channel follows.       *)
WordDone ==
  /\ pc = "read" /\ access = 5 /\ access' = 0
  /\ IF index = 2 * BLOCK_SIZE - 1
       THEN /\ UNCHANGED index
            /\ IF side = 1 THEN side' = 2 /\ pc' = "set"
                           ELSE UNCHANGED side /\ pc' = "store"
       ELSE /\ index' = IF index < BLOCK_SIZE THEN index + BLOCK_SIZE
                        ELSE index - BLOCK_SIZE + 1
            /\ UNCHANGED <<pc, side>>
  /\ Clock("none", FALSE, 0)

Program == WriteReset \/ Settle \/ StoreBlocks \/ WriteChannel \/ WriteStart
           \/ ReadCycle \/ PollDone \/ WordDone

Next == Program \/ Pause

Spec == Init /\ [][Next]_vars

(* The clock runs, and the program goes on after any pause.                *)
FairSpec == Spec /\ WF_vars(Program)

-----------------------------------------------------------------------------
(* Properties *)

Value(block, bin, part) ==
  <<Base(block) + 4 * bin + part, Base(block) + 4 * bin + part + 1>>

(* The products that a pair of blocks adds to the sums of a bin.           *)
Real(p, e) == { Plus(Value(p.ir, e, 0), Value(p.in, e, 0)),
                Minus(Value(p.ir, e, 2), Value(p.in, e, 2)) }
Imag(p, e) == { Plus(Value(p.ir, e, 0), Value(p.in, e, 2)),
                Plus(Value(p.ir, e, 2), Value(p.in, e, 0)) }

BlockPairs == [ir : 0 .. 2 * BLOCK_NUM - 1, in : 2 * BLOCK_NUM .. 4 * BLOCK_NUM - 1]
Terms == {1, -1, 2} \X (Addresses \X Addresses) \X (Addresses \X Addresses)

(* Every register keeps its type: block pointers and RAM addresses stay in *)
(* range, in particular i_prev is a bin whenever it addresses a RAM.       *)
TypeOK ==
  /\ state \in Words \cup {"IDLE", "START", "RESET", "RUN", "RUN2", "RUN3",
       "B_L", "B_L_CONTINUE", "NEXT_BLOCK", "NEXT_BLOCK2", "EX_A_L"}
  /\ flow \in {"PRE", "MID", "POST"} /\ pending \in {"none", "reset", "start"}
  /\ channel \in Channels
  /\ \A c \in Channels : latest[c] \in InMin(c) .. InMax(c)
  /\ latest_in_block \in Slots
  /\ at.i \in 0 .. BLOCK_SIZE /\ at.i_prev \in 0 .. BLOCK_SIZE
  /\ at.ir \in Slots /\ at.in \in Slots
  /\ state \in Words /\ flow # "PRE" => at.i_prev \in Bins
  /\ \A x \in DOMAIN operand : operand[x] \in Addresses \X Addresses
  /\ \A x \in DOMAIN alu : alu[x] \subseteq Terms
  /\ \A e \in Bins : ram.r[e] \subseteq Terms /\ ram.i[e] \subseteq Terms
  /\ bus \in [read : BOOLEAN, addr : Addresses, sel : BOOLEAN]
  /\ read_state \in {"IDLE", "ADDRESS", "ARRAY", "DUMMY", "ARRAY_I", "ARRAY_R",
       "OUTPUT"}
  /\ pc \in {"reset", "settle", "store", "set", "start", "poll", "read"}
  /\ side \in Channels /\ access \in 0 .. 5 /\ index \in 0 .. 2 * BLOCK_SIZE - 1

(* The SRAM has one master at a time although the select is registered: a  *)
(* request of the MAC reaches the SRAM, none is sent while another is on   *)
(* its way, and the program has the bus when it stores blocks.             *)
BusOwner ==
  /\ bus.read => ~bus.sel /\ flight = NoFlight
  /\ flight # NoFlight => ~bus.sel
  /\ pc = "store" => bus.sel

(* What the sum RAMs stand for: the pairs of blocks whose products they    *)
(* hold, if they hold all products of these pairs and no other.            *)
RamPairs ==
  LET P == { p \in BlockPairs :
               \A e \in Bins : Real(p, e) \subseteq ram.r[e] }
  IN IF \A e \in Bins : /\ ram.r[e] = UNION { Real(p, e) : p \in P }
                        /\ ram.i[e] = UNION { Imag(p, e) : p \in P }
     THEN P ELSE {"damaged"}

Activity ==
  IF state = "RESET" \/ pending = "reset" THEN "RESET"
  ELSE IF state = "IDLE" /\ pending = "none" THEN "IDLE" ELSE "RUN"

Commands == INSTANCE MacCommands
  WITH NUM <- BLOCK_NUM, state <- Activity,
       mem <- [b \in Slots |-> b],
       sums <- IF Activity = "IDLE" THEN RamPairs ELSE {}

(* The pipeline does what the program relies on: when the MAC is idle      *)
(* after a start, its RAMs hold for every bin each product of the NUM      *)
(* pairs of blocks with its sign, once, and of no other pair.              *)
ImplementsCommands == Commands!CommandSpec

(* Poll and read are true: a word that the program takes as result is that *)
(* bin of the finished sum of the channel it started, although the start   *)
(* is only noted while the state is still idle, and RAM ports and reply    *)
(* registers are shared with the pipeline.                                 *)
ReadsSums ==
  pc = "read" /\ access = 5 =>
    LET sum == Commands!Sum(side, latest[side])
    IN readdata = UNION { IF index < BLOCK_SIZE THEN Real(p, index)
                          ELSE Imag(p, index - BLOCK_SIZE) : p \in sum }

(* A started MAC lets the poll end: no word is waited for in vain.         *)
PollEnds == pc = "poll" ~> pc = "read"
=============================================================================
