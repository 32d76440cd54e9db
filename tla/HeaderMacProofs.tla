-------------------------- MODULE HeaderMacProofs --------------------------
(***************************************************************************)
(* The header MAC for blocks of any size, any number of blocks and any     *)
(* latency of the SRAM: types and the hand-over of the SRAM bus, then the  *)
(* sums, and that the pipeline implements MacCommands.                     *)
(***************************************************************************)
EXTENDS HeaderMac, TLAPS

Words8 == Words \cup {"B_L"}
Addr(block, bin) == Base(block) + 4 * bin
Pairs == Addresses \X Addresses
Sums == SUBSET Terms

States == Words8 \cup {"IDLE", "START", "RESET", "RUN", "RUN2", "RUN3",
                       "B_L_CONTINUE", "NEXT_BLOCK", "NEXT_BLOCK2", "EX_A_L"}

(* The bin whose address is in ir_addr and in_addr while words are fetched *)
Bin == IF flow = "POST" THEN at.i - 1 ELSE at.i

(* The block pair that is worked on.                                       *)
Age == at.ir - IrMin(channel)

-----------------------------------------------------------------------------
(* The invariant                                                           *)

ControlTypes ==
  /\ state \in States /\ flow \in {"PRE", "MID", "POST"}
  /\ pending \in {"none", "reset", "start"} /\ channel \in Channels
  /\ latest \in [Channels -> Slots] /\ latest_in_block \in Slots
  /\ \A c \in Channels : latest[c] \in InMin(c) .. InMax(c)
  /\ at \in [i : 0 .. BLOCK_SIZE, i_prev : 0 .. BLOCK_SIZE, ir : Slots, in : Slots,
             ir_addr : Addresses, in_addr : Addresses]
  /\ bus \in [read : BOOLEAN, addr : Addresses, sel : BOOLEAN]
  /\ flight \in [addr : Addresses, age : 0 .. MaxLatency]
  /\ read_state \in {"IDLE", "ADDRESS", "ARRAY", "DUMMY", "ARRAY_I", "ARRAY_R", "OUTPUT"}
  /\ output_addr \in 0 .. ADDRESS_STATE
  /\ pc \in {"reset", "settle", "store", "set", "start", "poll", "read"}
  /\ side \in Channels /\ access \in 0 .. 5 /\ index \in 0 .. 2 * BLOCK_SIZE - 1

DataTypes ==
  /\ operand \in [a : Pairs, b : Pairs, c : Pairs, d : Pairs]
  /\ alu \in [ac : Sums, bc : Sums, bd : Sums, ad : Sums,
              new_r : Sums, new_i : Sums, acc_r : Sums, acc_i : Sums]
  /\ ram \in [r : [Bins -> Sums], i : [Bins -> Sums]]
  /\ rd \in [r : Sums, i : Sums]

(* Which blocks are selected: the input block is as many blocks older than *)
(* the newest one as the impulse response block is behind the first.       *)
Selected ==
  /\ pending # "none" => state = "IDLE"
  /\ pending = "start" \/ state \in {"START", "RUN"} => latest_in_block = latest[channel]
  /\ state \in States \ {"IDLE", "START", "RESET", "RUN"} =>
       /\ Age \in 0 .. BLOCK_NUM - 1
       /\ at.in = Commands!Older(channel, latest[channel], Age)

(* Which bin is addressed.                                                 *)
Addressed ==
  /\ state \in {"START", "RESET"} => at.i \in Bins
  /\ state \in {"RUN2", "RUN3", "EX_A_L"} => at.i = 0
  /\ state \in {"RUN3", "EX_A_L"} => at.ir_addr = Base(at.ir) /\ at.in_addr = Base(at.in)
  /\ state \in Words8 =>
       /\ Bin \in Bins /\ at.ir_addr = Addr(at.ir, Bin) /\ at.in_addr = Addr(at.in, Bin)
       /\ flow = "PRE" => at.i = 0
       /\ flow # "PRE" => at.i_prev = at.i - 1
       /\ flow = "POST" => at.i = BLOCK_SIZE
  /\ state = "B_L_CONTINUE" =>
       /\ at.i \in 0 .. BLOCK_SIZE - 2 /\ flow # "POST"
       /\ at.ir_addr = Addr(at.ir, at.i + 1) /\ at.in_addr = Addr(at.in, at.i + 1)
  /\ state = "NEXT_BLOCK" => at.i = BLOCK_SIZE

(* The bus: no request is open but where a word is waited for.             *)
Quiet == ~bus.read /\ flight = NoFlight

Requests ==
  /\ state \notin Words8 \/ flow = "POST" => Quiet
  /\ bus.read => ~bus.sel /\ flight = NoFlight
  /\ flight # NoFlight => ~bus.sel

(* The program: the reply is on its way while it reads, and it goes on     *)
(* after a poll only if the MAC was idle.                                  *)
Replying ==
  /\ access \in {0, 5} => read_state = "IDLE"
  /\ access = 1 => read_state = "ADDRESS"
  /\ access = 2 => read_state = "ARRAY"
  /\ access = 3 => read_state \in {"DUMMY", "ARRAY_I", "ARRAY_R"}
  /\ access = 4 => read_state = "OUTPUT"

MacIdle == state = "IDLE" /\ pending = "none"

Polling ==
  /\ Replying
  /\ access # 0 => pc \in {"poll", "read"}
  /\ pc \in {"reset", "store", "set", "start", "read"} => MacIdle
  /\ pc = "store" => bus.sel
  /\ pc = "poll" /\ access # 0 => pending = "none"
  /\ pc = "poll" /\ access >= 2 => output_addr = ADDRESS_STATE
  /\ pc = "poll" /\ access = 3 => read_state = "DUMMY"
  /\ pc = "poll" /\ access \in {3, 4} /\ output_value = {"idle"} => MacIdle
  /\ pc = "poll" /\ access = 5 /\ readdata = {"idle"} => MacIdle

ControlInv == ControlTypes /\ Selected /\ Addressed /\ Requests /\ Polling

-----------------------------------------------------------------------------
(* Addresses                                                               *)

LEMMA Bases ==
  ASSUME NEW block \in Slots
  PROVE  /\ Base(block) \in Nat /\ Base(4 * BLOCK_NUM) \in Nat
         /\ Base(block) + 4 * BLOCK_SIZE <= Base(4 * BLOCK_NUM)
<1> DEFINE n == 4 * BLOCK_NUM
           s == BLOCK_SIZE * 4
<1>1. n \in Nat /\ s \in Nat /\ block \in Nat /\ block + 1 <= n
  BY HeaderMacAssumption DEF Slots
<1>2. Base(block) = block * s /\ Base(n) = n * s
  BY HeaderMacAssumption, <1>1 DEF Base
<1>3. block * s \in Nat /\ n * s \in Nat /\ (block + 1) * s <= n * s
  <2> HIDE DEF n, s
  <2>1. block * s \in Nat /\ n * s \in Nat
    BY <1>1
  <2>2. (block + 1) * s <= n * s
    BY <1>1
  <2> QED BY <2>1, <2>2
<1>4. (block + 1) * s = block * s + s
  <2> HIDE DEF n, s
  <2> QED BY <1>1
<1> QED
  <2> HIDE DEF n
  <2>1. s = 4 * BLOCK_SIZE
    BY HeaderMacAssumption
  <2>2. block * s + 4 * BLOCK_SIZE <= n * s
    BY <1>3, <1>4, <2>1
  <2> HIDE DEF s
  <2> QED BY <1>2, <1>3, <2>2 DEF n

LEMMA AddrType ==
  ASSUME NEW block \in Slots, NEW bin \in Bins
  PROVE  /\ Addr(block, bin) \in Nat /\ Base(block) \in Addresses
         /\ \A part \in 0 .. 3 : Addr(block, bin) + part \in Addresses
<1> DEFINE b == Base(block)
           t == Base(4 * BLOCK_NUM)
<1>1. b \in Nat /\ t \in Nat /\ b + 4 * BLOCK_SIZE <= t
  BY Bases
<1>2. bin \in Nat /\ bin + 1 <= BLOCK_SIZE /\ BLOCK_SIZE \in Nat
  BY HeaderMacAssumption DEF Bins
<1> HIDE DEF b, t
<1>3. /\ b + 4 * bin \in Nat /\ b \in 0 .. t - 1
      /\ \A part \in 0 .. 3 : b + 4 * bin + part \in 0 .. t - 1
  BY <1>1, <1>2
<1> QED BY <1>3 DEF Addr, Addresses, b, t

LEMMA NextAddr ==
  ASSUME NEW block \in Slots, NEW bin \in Nat
  PROVE  /\ Addr(block, bin) + 4 = Addr(block, bin + 1)
         /\ Addr(block, 0) = Base(block)
<1>1. Base(block) \in Nat
  BY Bases
<1> DEFINE b == Base(block)
<1> HIDE DEF b
<1>2. b \in Nat => b + 4 * bin + 4 = b + 4 * (bin + 1) /\ b + 4 * 0 = b
  OBVIOUS
<1> QED BY <1>1, <1>2 DEF Addr, b

-----------------------------------------------------------------------------
(* Rings                                                                   *)

LEMMA RingTypes ==
  ASSUME NEW c \in Channels
  PROVE  /\ InMin(c) .. InMax(c) \subseteq Slots /\ IrMin(c) .. IrMax(c) \subseteq Slots
         /\ InMax(c) - 1 \in InMin(c) .. InMax(c)
         /\ InMin(c) \in Int /\ InMax(c) = InMin(c) + BLOCK_NUM - 1
         /\ IrMin(c) \in Int /\ IrMax(c) = IrMin(c) + BLOCK_NUM - 1
  BY HeaderMacAssumption DEF Channels, InMin, InMax, IrMin, IrMax, Slots

LEMMA OlderBlocks ==
  ASSUME NEW c \in Channels, NEW b \in InMin(c) .. InMax(c), NEW k \in 0 .. BLOCK_NUM - 1
  PROVE  /\ Commands!Older(c, b, k) \in InMin(c) .. InMax(c)
         /\ Commands!Older(c, b, 0) = b
         /\ k < BLOCK_NUM - 1 =>
              Commands!Older(c, b, k + 1) =
                IF Commands!Older(c, b, k) = InMin(c) THEN InMax(c)
                ELSE Commands!Older(c, b, k) - 1
<1>1. Commands!Older(c, b, k) = IF b - k < InMin(c) THEN b - k + BLOCK_NUM ELSE b - k
  BY DEF Commands!Older, Commands!FirstIn, InMin
<1>2. Commands!Older(c, b, 0) = IF b - 0 < InMin(c) THEN b - 0 + BLOCK_NUM ELSE b - 0
  BY DEF Commands!Older, Commands!FirstIn, InMin
<1>3. Commands!Older(c, b, k + 1) =
        IF b - (k + 1) < InMin(c) THEN b - (k + 1) + BLOCK_NUM ELSE b - (k + 1)
  BY DEF Commands!Older, Commands!FirstIn, InMin
<1>4. /\ InMin(c) \in Int /\ InMax(c) = InMin(c) + BLOCK_NUM - 1 /\ BLOCK_NUM \in Nat
  BY RingTypes, HeaderMacAssumption
<1> HIDE DEF InMin, InMax
<1> QED BY <1>1, <1>2, <1>3, <1>4

-----------------------------------------------------------------------------
(* The steps of the MAC                                                    *)

CommandWords == {"none", "reset", "left", "right", "start"}

LEMMA Valid ==
  ASSUME Requests, NEW v \in Answers
  PROVE  /\ v \in BOOLEAN
         /\ v => flight # NoFlight /\ ~bus.read
         /\ v /\ state \in Words8 => flow # "POST"
<1>1. v \in BOOLEAN
  BY DEF Answers
<1>2. v => flight # NoFlight
  BY DEF Answers
<1> QED BY <1>1, <1>2 DEF Requests, Quiet

LEMMA NextNewest ==
  ASSUME NEW d \in Channels, NEW b \in InMin(d) .. InMax(d)
  PROVE  NextIn(d, b) \in InMin(d) .. InMax(d)
<1>1. InMin(d) \in Int /\ InMax(d) = InMin(d) + BLOCK_NUM - 1 /\ BLOCK_NUM \in Nat
  BY RingTypes, HeaderMacAssumption
<1> HIDE DEF InMin, InMax
<1> QED BY <1>1 DEF NextIn

(* A command changes rings and channel.                                    *)
LEMMA ListenRings ==
  ASSUME ControlTypes, NEW c \in CommandWords, Listen(c)
  PROVE  /\ pending' \in {"none", "reset", "start"} /\ channel' \in Channels
         /\ latest' \in [Channels -> Slots] /\ latest_in_block' \in Slots
         /\ \A d \in Channels : latest'[d] \in InMin(d) .. InMax(d)
         /\ pending' = "start" => latest_in_block' = latest'[channel']
<1>1. pending' \in {"none", "reset", "start"} /\ channel' \in Channels
  BY DEF ControlTypes, Listen, CommandWords, Channels
<1>2. \A d \in Channels : latest'[d] \in InMin(d) .. InMax(d)
  <2>1. CASE c = "reset"
    <3>1. latest' = ResetLatest
      BY <2>1 DEF Listen
    <3> QED BY <3>1, RingTypes DEF ResetLatest
  <2>2. CASE c = "start"
    <3>1. latest' = [latest EXCEPT ![channel] = NextIn(channel, latest[channel])]
      BY <2>2 DEF Listen
    <3>2. NextIn(channel, latest[channel]) \in InMin(channel) .. InMax(channel)
      BY NextNewest DEF ControlTypes
    <3> HIDE DEF InMin, InMax, NextIn
    <3> QED BY <3>1, <3>2 DEF ControlTypes
  <2>3. CASE c \notin {"reset", "start"}
    BY <2>3 DEF Listen, ControlTypes
  <2> QED BY <2>1, <2>2, <2>3
<1>3. latest' \in [Channels -> Slots]
  <2>1. /\ DOMAIN latest' = Channels
        /\ latest' = [d \in Channels |-> latest'[d]]
    <3>1. CASE c = "reset"
      BY <3>1 DEF Listen, ResetLatest
    <3>2. CASE c # "reset"
      BY <3>2 DEF Listen, ControlTypes
    <3> QED BY <3>1, <3>2
  <2>2. \A d \in Channels : latest'[d] \in Slots
    BY <1>2, RingTypes
  <2> QED BY <2>1, <2>2
<1>4. latest_in_block' \in Slots /\ (pending' = "start" => latest_in_block' = latest'[channel'])
  <2>1. CASE c = "start"
    <3>1. latest_in_block' = latest'[channel] /\ channel' = channel
      BY <2>1 DEF Listen
    <3> QED BY <3>1, <1>3 DEF ControlTypes
  <2>2. CASE c # "start"
    BY <2>2 DEF Listen, ControlTypes
  <2> QED BY <2>1, <2>2
<1> QED BY <1>1, <1>2, <1>3, <1>4

(* The bus registers after a step.                                         *)
LEMMA DriveTypes ==
  ASSUME NEW r \in BOOLEAN, NEW a \in Addresses, Drive(r, a)
  PROVE  /\ bus' \in [read : BOOLEAN, addr : Addresses, sel : BOOLEAN]
         /\ bus'.read = r /\ bus'.addr = a
         /\ state # "IDLE" => ~bus'.sel
         /\ state = "IDLE" => bus'.sel
  BY DEF Drive

(* What a word of the pipeline does to control and addresses.              *)
LEMMA WordStep ==
  ASSUME ControlTypes, Addressed, NEW v \in BOOLEAN,
         AHigh(v) \/ ALow(v) \/ CHigh(v) \/ CLow(v) \/ DHigh(v) \/ DLow(v) \/ BHigh(v)
  PROVE  /\ UNCHANGED <<flow, pending, ringVars, at>>
         /\ state \in Words /\ state' \in Words8
         /\ bus' \in [read : BOOLEAN, addr : Addresses, sel : BOOLEAN] /\ ~bus'.sel
         /\ flow = "POST" => bus'.read = bus.read
         /\ flow # "POST" => v
<1>1. /\ UNCHANGED <<flow, pending, ringVars, at>> /\ state \in Words /\ state' \in Words8
      /\ flow # "POST" => v
  BY DEF AHigh, ALow, CHigh, CLow, DHigh, DLow, BHigh, Fetch, Words, Words8
<1>2. /\ \A part \in 0 .. 3 : /\ at.ir_addr + part \in Addresses
                              /\ at.in_addr + part \in Addresses
  BY <1>1, AddrType DEF Addressed, ControlTypes, Words8
<1>3. /\ at.ir_addr + 1 \in Addresses /\ at.ir_addr + 2 \in Addresses
      /\ at.ir_addr + 3 \in Addresses /\ at.in_addr + 1 \in Addresses
      /\ at.in_addr + 2 \in Addresses /\ at.in_addr + 3 \in Addresses
      /\ at.in_addr \in Addresses
  BY <1>2 DEF ControlTypes
<1>4. (flow = "POST" /\ Hold) \/ (flow # "POST" /\ \E a \in Addresses : Drive(TRUE, a))
  BY <1>3 DEF AHigh, ALow, CHigh, CLow, DHigh, DLow, BHigh, Fetch
<1>5. state # "IDLE"
  BY <1>1 DEF Words
<1>6. bus.read \in BOOLEAN /\ bus.addr \in Addresses
  BY DEF ControlTypes
<1> QED BY <1>1, <1>4, <1>5, <1>6, DriveTypes DEF Hold

LEMMA MainTypes ==
  ASSUME ControlInv, NEW c \in CommandWords, NEW v \in Answers, Main(c, v)
  PROVE  /\ state' \in States /\ flow' \in {"PRE", "MID", "POST"}
         /\ pending' \in {"none", "reset", "start"} /\ channel' \in Channels
         /\ latest' \in [Channels -> Slots] /\ latest_in_block' \in Slots
         /\ \A d \in Channels : latest'[d] \in InMin(d) .. InMax(d)
         /\ at' \in [i : 0 .. BLOCK_SIZE, i_prev : 0 .. BLOCK_SIZE, ir : Slots, in : Slots,
                     ir_addr : Addresses, in_addr : Addresses]
         /\ bus' \in [read : BOOLEAN, addr : Addresses, sel : BOOLEAN]
<1> DEFINE AtType == [i : 0 .. BLOCK_SIZE, i_prev : 0 .. BLOCK_SIZE, ir : Slots, in : Slots,
                     ir_addr : Addresses, in_addr : Addresses]
<1>1. /\ bus.read \in BOOLEAN /\ bus.addr \in Addresses /\ at \in AtType /\ channel \in Channels
      /\ v \in BOOLEAN /\ (v /\ state \in Words8 => flow # "POST") /\ BLOCK_SIZE \in Nat \ {0}
  BY Valid, HeaderMacAssumption DEF ControlInv, ControlTypes
<1>2. bus' \in [read : BOOLEAN, addr : Addresses, sel : BOOLEAN]
  <2>1. (\E r \in BOOLEAN, a \in Addresses : Drive(r, a))
          \/ AHigh(v) \/ ALow(v) \/ CHigh(v) \/ CLow(v) \/ DHigh(v) \/ DLow(v) \/ BHigh(v)
    BY <1>1 DEF Main, Listen, Begin, Clear, Run, Run2, FirstWord, Wait, BLow, BlockEnd,
                Continue, NextBlock, NextBlock2, Hold
  <2> QED BY <2>1, <1>1, DriveTypes, WordStep DEF ControlInv
<1>3. CASE Listen(c)
  BY <1>3, <1>1, <1>2, ListenRings DEF ControlInv, ControlTypes, Listen
<1>4. CASE AHigh(v) \/ ALow(v) \/ CHigh(v) \/ CLow(v) \/ DHigh(v) \/ DLow(v) \/ BHigh(v)
  BY <1>4, <1>1, <1>2, WordStep DEF ControlInv, ControlTypes, ringVars, States
<1>5. ASSUME UNCHANGED ringVars, pending' \in {pending, "none"}, at' \in AtType,
             state' \in States, flow' \in {"PRE", "MID", "POST", flow}
      PROVE  /\ flow' \in {"PRE", "MID", "POST"}
             /\ pending' \in {"none", "reset", "start"} /\ channel' \in Channels
             /\ latest' \in [Channels -> Slots] /\ latest_in_block' \in Slots
             /\ \A d \in Channels : latest'[d] \in InMin(d) .. InMax(d)
  BY <1>5 DEF ControlInv, ControlTypes, ringVars
<1>6. CASE Begin
  BY <1>1, <1>2, <1>5, <1>6 DEF Begin, States
<1>7. CASE Clear
  <2>1. at' \in AtType
    BY <1>1, <1>7 DEF Clear, ControlInv, Addressed, Bins
  <2> QED BY <1>2, <1>5, <1>7, <2>1 DEF Clear, States, ControlInv, ControlTypes
<1>8. CASE Run
  <2>1. IrMin(channel) \in Slots /\ latest_in_block \in Slots
    BY <1>1, HeaderMacAssumption DEF ControlInv, ControlTypes, IrMin, Slots, Channels
  <2>2. at' \in AtType
    <3>1. 0 \in 0 .. BLOCK_SIZE
      BY <1>1
    <3> HIDE DEF IrMin
    <3> QED BY <1>1, <1>8, <2>1, <3>1 DEF Run
  <2> QED BY <1>2, <1>5, <1>8, <2>2 DEF Run, States, ControlInv, ControlTypes
<1>9. CASE Run2
  <2>1. Base(at.ir) \in Addresses /\ Base(at.in) \in Addresses
    BY <1>1, AddrType, HeaderMacAssumption DEF Bins
  <2> QED BY <1>1, <1>2, <1>5, <1>9, <2>1 DEF Run2, States
<1>10. CASE FirstWord
  BY <1>1, <1>2, <1>5, <1>10 DEF FirstWord, States, Words8, Words
<1>11. CASE Wait(v)
  BY <1>1, <1>2, <1>5, <1>11 DEF Wait, fsmVars, ControlInv, ControlTypes
<1>12. CASE BLow(v)
  <2>1. v /\ state = "B_L" /\ flow # "POST"
    BY <1>1, <1>12 DEF BLow, Words8
  <2>2. /\ at.i \in Bins /\ at.ir_addr = Addr(at.ir, at.i) /\ at.in_addr = Addr(at.in, at.i)
    BY <2>1 DEF ControlInv, Addressed, Words8, Bin
  <2>3. CASE at.i = BLOCK_SIZE - 1
    <3>1. at.i + 1 \in 0 .. BLOCK_SIZE
      BY <1>1, <2>3
    <3>2. at' \in AtType
      BY <1>1, <1>12, <2>3, <3>1 DEF BLow
    <3> QED BY <1>2, <1>5, <1>12, <2>3, <3>2 DEF BLow, States, Words8, Words
  <2>4. CASE at.i # BLOCK_SIZE - 1
    <3>1. at.i + 1 \in Bins /\ at.i \in Nat
      BY <1>1, <2>2, <2>4 DEF Bins
    <3>2. at.ir_addr + 4 \in Addresses /\ at.in_addr + 4 \in Addresses
      <4>1. /\ at.ir_addr + 4 = Addr(at.ir, at.i + 1) /\ Addr(at.ir, at.i + 1) \in Nat
            /\ at.in_addr + 4 = Addr(at.in, at.i + 1) /\ Addr(at.in, at.i + 1) \in Nat
            /\ Addr(at.ir, at.i + 1) + 0 \in Addresses /\ Addr(at.in, at.i + 1) + 0 \in Addresses
        BY <1>1, <2>2, <3>1, NextAddr, AddrType
      <4> QED BY <4>1
    <3> QED BY <1>1, <1>2, <1>5, <1>12, <2>4, <3>2 DEF BLow, States
  <2> QED BY <2>3, <2>4
<1>13. CASE BlockEnd(v)
  BY <1>1, <1>2, <1>5, <1>13 DEF BlockEnd, States
<1>14. CASE Continue
  <2>1. at.i + 1 \in 0 .. BLOCK_SIZE
    BY <1>1, <1>14 DEF Continue, ControlInv, Addressed
  <2> QED BY <1>1, <1>2, <1>5, <1>14, <2>1 DEF Continue, States, Words8, Words
<1>15. CASE NextBlock
  <2>1. /\ InBack(at.in) \in Slots
        /\ at.ir # IrMax(channel) => at.ir + 1 \in Slots
    <3>1. /\ Age \in 0 .. BLOCK_NUM - 1 /\ latest[channel] \in InMin(channel) .. InMax(channel)
          /\ at.in = Commands!Older(channel, latest[channel], Age)
      BY <1>15 DEF NextBlock, ControlInv, ControlTypes, Selected, States
    <3>2. at.in \in InMin(channel) .. InMax(channel) /\ at.ir \in IrMin(channel) .. IrMax(channel)
      BY <1>1, <3>1, OlderBlocks, HeaderMacAssumption
         DEF Age, IrMin, IrMax, Channels, Slots
    <3> QED BY <1>1, <3>2, HeaderMacAssumption
            DEF InBack, InMin, InMax, IrMax, IrMin, Channels, Slots
  <2> QED BY <1>1, <1>2, <1>5, <1>15, <2>1 DEF NextBlock, States
<1>16. CASE NextBlock2
  <2>1. Base(at.ir) \in Addresses /\ Base(at.in) \in Addresses
    BY <1>1, AddrType, HeaderMacAssumption DEF Bins
  <2>2. at' \in AtType
    <3>1. 0 \in 0 .. BLOCK_SIZE /\ at.i \in 0 .. BLOCK_SIZE
      BY <1>1
    <3> QED BY <1>1, <1>16, <2>1, <3>1 DEF NextBlock2
  <2> QED BY <1>2, <1>5, <1>16, <2>2 DEF NextBlock2, States, ControlInv, ControlTypes
<1> QED BY <1>3, <1>4, <1>6, <1>7, <1>8, <1>9, <1>10, <1>11, <1>12, <1>13, <1>14, <1>15, <1>16
        DEF Main

Walking == States \ {"IDLE", "START", "RESET", "RUN"}

(* The input ring is walked backwards in step with the impulse response.   *)
LEMMA WalkBack ==
  ASSUME ControlTypes, Selected, state = "NEXT_BLOCK", at.ir # IrMax(channel)
  PROVE  /\ Age + 1 \in 0 .. BLOCK_NUM - 1
         /\ InBack(at.in) = Commands!Older(channel, latest[channel], Age + 1)
<1>1. /\ Age \in 0 .. BLOCK_NUM - 1 /\ channel \in Channels
      /\ latest[channel] \in InMin(channel) .. InMax(channel)
      /\ at.in = Commands!Older(channel, latest[channel], Age)
  BY DEF ControlTypes, Selected, States
<1>2. Age # BLOCK_NUM - 1
  BY <1>1, RingTypes, HeaderMacAssumption DEF Age, ControlTypes, Slots
<1>3. Age < BLOCK_NUM - 1
  BY <1>1, <1>2, HeaderMacAssumption
<1> QED BY <1>1, <1>3, OlderBlocks, HeaderMacAssumption DEF InBack

LEMMA MainSelected ==
  ASSUME ControlInv, NEW c \in CommandWords, NEW v \in Answers, Main(c, v)
  PROVE  Selected'
<1>1. /\ v \in BOOLEAN /\ channel \in Channels
      /\ latest[channel] \in InMin(channel) .. InMax(channel)
  BY Valid DEF ControlInv, ControlTypes
<1>2. CASE Listen(c)
  BY <1>2, ListenRings DEF Listen, Listens, ControlInv, Selected
<1>3. CASE Begin
  BY <1>3 DEF Begin, ringVars, Selected, ControlInv, ControlTypes
<1>4. CASE Clear
  BY <1>4 DEF Clear, ringVars, Selected, ControlInv
<1>5. CASE Run
  <2>1. /\ at'.ir = IrMin(channel) /\ at'.in = latest[channel] /\ UNCHANGED <<channel, latest>>
    <3>1. at' = [at EXCEPT !.i = 0, !.i_prev = 0, !.in = latest_in_block, !.ir = IrMin(channel)]
      BY <1>5 DEF Run
    <3> HIDE DEF IrMin
    <3> QED BY <1>5, <3>1 DEF Run, ringVars, ControlInv, ControlTypes, Selected
  <2>2. Age' = 0
    BY <1>1, <2>1, RingTypes DEF Age
  <2>3. at'.in = Commands!Older(channel', latest'[channel'], Age')
    BY <1>1, <2>1, <2>2, OlderBlocks, HeaderMacAssumption
  <2> QED BY <1>5, <2>2, <2>3, HeaderMacAssumption DEF Run, Selected, ControlInv
<1>6. CASE NextBlock /\ at.ir # IrMax(channel)
  <2>1. /\ at'.ir = at.ir + 1 /\ at'.in = InBack(at.in) /\ UNCHANGED <<channel, latest>>
    BY <1>6 DEF NextBlock, ringVars, ControlInv, ControlTypes
  <2>2. Age' = Age + 1
    <3>1. Age' = (at.ir + 1) - IrMin(channel) /\ Age = at.ir - IrMin(channel)
      BY <2>1 DEF Age
    <3>2. at.ir \in Int /\ IrMin(channel) \in Int
      BY <1>1, RingTypes DEF ControlInv, ControlTypes, Slots
    <3> HIDE DEF IrMin
    <3> QED BY <3>1, <3>2
  <2>3. /\ Age + 1 \in 0 .. BLOCK_NUM - 1
        /\ InBack(at.in) = Commands!Older(channel, latest[channel], Age + 1)
    BY <1>6, WalkBack DEF NextBlock, ControlInv
  <2> QED BY <1>6, <2>1, <2>2, <2>3 DEF NextBlock, Selected, ControlInv
<1>7. ASSUME state \in Walking, state' \in Walking \cup {"IDLE"}, at'.ir = at.ir,
             at'.in = at.in \/ state' = "IDLE", UNCHANGED <<pending, ringVars>>
      PROVE  Selected'
  <2>1. Age' = Age
    BY <1>7 DEF Age, ringVars
  <2> QED BY <1>7, <2>1 DEF Selected, ControlInv, ringVars, Walking
<1>8. CASE NextBlock /\ at.ir = IrMax(channel)
  <2>1. at'.ir = at.ir /\ state' = "IDLE"
    BY <1>8 DEF NextBlock, ControlInv, ControlTypes
  <2> QED BY <1>7, <1>8, <2>1 DEF NextBlock, Walking, States
<1>9. CASE AHigh(v) \/ ALow(v) \/ CHigh(v) \/ CLow(v) \/ DHigh(v) \/ DLow(v) \/ BHigh(v)
  <2>1. UNCHANGED <<pending, ringVars, at>> /\ state \in Walking /\ state' \in Walking
    BY <1>9, <1>1, WordStep DEF ControlInv, Walking, States, Words8, Words
  <2> QED BY <1>7, <2>1
<1>10. CASE Run2 \/ FirstWord \/ Wait(v) \/ BLow(v) \/ BlockEnd(v) \/ Continue \/ NextBlock2
  <2>1. UNCHANGED <<pending, ringVars>> /\ state \in Walking /\ state' \in Walking
    BY <1>10 DEF Run2, FirstWord, Wait, BLow, BlockEnd, Continue, NextBlock2, Walking,
                 States, Words8, Words, fsmVars
  <2>2. at'.ir = at.ir /\ at'.in = at.in
    BY <1>10 DEF Run2, FirstWord, Wait, BLow, BlockEnd, Continue, NextBlock2,
                 ControlInv, ControlTypes
  <2> QED BY <1>7, <2>1, <2>2
<1> QED BY <1>2, <1>3, <1>4, <1>5, <1>6, <1>8, <1>9, <1>10 DEF Main

LEMMA MainAddressed ==
  ASSUME ControlInv, NEW c \in CommandWords, NEW v \in Answers, Main(c, v)
  PROVE  Addressed'
<1>1. /\ v \in BOOLEAN /\ (v /\ state \in Words8 => flow # "POST") /\ BLOCK_SIZE \in Nat \ {0}
      /\ at \in [i : 0 .. BLOCK_SIZE, i_prev : 0 .. BLOCK_SIZE, ir : Slots, in : Slots,
                 ir_addr : Addresses, in_addr : Addresses]
  BY Valid, HeaderMacAssumption DEF ControlInv, ControlTypes
<1>2. CASE Listen(c)
  BY <1>2 DEF Listen, Listens, Addressed, Words8, Words
<1>3. CASE Begin
  BY <1>1, <1>3 DEF Begin, Addressed, Words8, Words, Bins
<1>4. CASE Clear
  BY <1>1, <1>4 DEF Clear, ControlInv, Addressed, Words8, Words, Bins
<1>5. CASE Run \/ Run2
  BY <1>1, <1>5 DEF Run, Run2, ControlInv, Addressed, Words8, Words, Bins
<1>6. CASE FirstWord
  <2>1. /\ at.i = 0 /\ at.ir_addr = Base(at.ir) /\ at.in_addr = Base(at.in) /\ at' = at
        /\ flow' = "PRE" /\ state' = "A_H"
    BY <1>6 DEF FirstWord, ControlInv, Addressed
  <2>2. Addr(at.ir, 0) = Base(at.ir) /\ Addr(at.in, 0) = Base(at.in)
    BY <1>1, NextAddr
  <2> QED BY <1>1, <2>1, <2>2 DEF Addressed, Bin, Bins, Words8, Words
<1>7. CASE \/ Wait(v) \/ AHigh(v) \/ ALow(v) \/ CHigh(v) \/ CLow(v) \/ DHigh(v) \/ DLow(v)
           \/ BHigh(v)
  <2>1. state \in Words8 /\ state' \in Words8 /\ UNCHANGED <<flow, at>>
    BY <1>1, <1>7, WordStep DEF Wait, fsmVars, ControlInv, Words8
  <2>2. Bin' = Bin
    BY <2>1 DEF Bin
  <2>3. state' \notin {"START", "RESET", "RUN2", "RUN3", "EX_A_L", "B_L_CONTINUE", "NEXT_BLOCK"}
    BY <2>1 DEF Words8, Words
  <2> QED BY <2>1, <2>2, <2>3 DEF ControlInv, Addressed
<1>8. CASE BLow(v)
  <2>1. v /\ state = "B_L" /\ flow # "POST" /\ Bin = at.i /\ at.i \in Bins
    BY <1>1, <1>8 DEF BLow, Words8, Bin, ControlInv, Addressed
  <2>2. at.ir_addr = Addr(at.ir, at.i) /\ at.in_addr = Addr(at.in, at.i)
    BY <2>1 DEF ControlInv, Addressed, Words8
  <2>3. CASE at.i = BLOCK_SIZE - 1
    <3>1. /\ at'.i = at.i + 1 /\ at'.i_prev = at.i /\ at'.ir = at.ir /\ at'.in = at.in
          /\ at'.ir_addr = at.ir_addr /\ at'.in_addr = at.in_addr
          /\ state' = "A_H" /\ flow' = "POST"
      BY <1>1, <1>8, <2>3 DEF BLow
    <3>2. Bin' = at.i /\ at'.i = BLOCK_SIZE
      BY <1>1, <2>3, <3>1 DEF Bin
    <3> QED BY <1>1, <2>1, <2>2, <3>1, <3>2 DEF Addressed, Words8, Words
  <2>4. CASE at.i # BLOCK_SIZE - 1
    <3>1. /\ at'.i = at.i /\ at'.ir = at.ir /\ at'.in = at.in
          /\ at'.ir_addr = at.ir_addr + 4 /\ at'.in_addr = at.in_addr + 4
          /\ state' = "B_L_CONTINUE" /\ flow' = flow
      BY <1>1, <1>8, <2>4 DEF BLow
    <3>2. at.i \in 0 .. BLOCK_SIZE - 2
      BY <1>1, <2>1, <2>4 DEF Bins
    <3>3. /\ at.ir_addr + 4 = Addr(at.ir, at.i + 1)
          /\ at.in_addr + 4 = Addr(at.in, at.i + 1)
      BY <1>1, <2>2, NextAddr
    <3> QED BY <2>1, <3>1, <3>2, <3>3 DEF Addressed, Words8, Words
  <2> QED BY <2>3, <2>4
<1>9. CASE BlockEnd(v)
  BY <1>9 DEF BlockEnd, Addressed, Words8, Words
<1>10. CASE Continue
  <2>1. /\ at.i \in 0 .. BLOCK_SIZE - 2
        /\ at.ir_addr = Addr(at.ir, at.i + 1) /\ at.in_addr = Addr(at.in, at.i + 1)
    BY <1>10 DEF Continue, ControlInv, Addressed
  <2>2. /\ at'.i = at.i + 1 /\ at'.i_prev = at.i /\ at'.ir = at.ir /\ at'.in = at.in
        /\ at'.ir_addr = at.ir_addr /\ at'.in_addr = at.in_addr
        /\ state' = "A_H" /\ flow' = "MID"
    BY <1>1, <1>10 DEF Continue
  <2>3. Bin' = at.i + 1 /\ at.i + 1 \in Bins /\ at'.i_prev = at'.i - 1
    BY <1>1, <2>1, <2>2 DEF Bin, Bins
  <2> QED BY <2>1, <2>2, <2>3 DEF Addressed, Words8, Words
<1>11. CASE NextBlock \/ NextBlock2
  BY <1>1, <1>11 DEF NextBlock, NextBlock2, Addressed, Words8, Words
<1> QED BY <1>2, <1>3, <1>4, <1>5, <1>6, <1>7, <1>8, <1>9, <1>10, <1>11 DEF Main

-----------------------------------------------------------------------------
(* The bus                                                                 *)

LEMMA SramTypes ==
  ASSUME ControlTypes, NEW v \in BOOLEAN, Sram(v)
  PROVE  /\ flight' \in [addr : Addresses, age : 0 .. MaxLatency]
         /\ flight' # NoFlight => (bus.read /\ ~bus.sel) \/ (~v /\ flight # NoFlight)
<1>1. NoFlight \in [addr : Addresses, age : 0 .. MaxLatency] /\ 1 \in 0 .. MaxLatency
      /\ MaxLatency \in Nat
  BY HeaderMacAssumption DEF NoFlight, Addresses
<1>2. /\ flight \in [addr : Addresses, age : 0 .. MaxLatency] /\ bus.addr \in Addresses
  BY DEF ControlTypes
<1>3. (IF flight.age < MaxLatency THEN flight.age + 1 ELSE flight.age) \in 0 .. MaxLatency
  BY <1>1, <1>2
<1>4. \/ bus.read /\ ~bus.sel /\ flight' = [addr |-> bus.addr, age |-> 1]
      \/ flight' = NoFlight
      \/ /\ ~v /\ flight # NoFlight
         /\ flight' = [flight EXCEPT !.age = IF flight.age < MaxLatency
                                             THEN flight.age + 1 ELSE flight.age]
  BY DEF Sram
<1> QED BY <1>1, <1>2, <1>3, <1>4

LEMMA SramRequests ==
  ASSUME ControlInv, NEW c \in CommandWords, NEW v \in Answers, Main(c, v), Sram(v)
  PROVE  Requests'
<1>1. /\ v \in BOOLEAN /\ (v => flight # NoFlight /\ ~bus.read)
      /\ (v /\ state \in Words8 => flow # "POST")
  BY Valid DEF ControlInv
<1>2. flight' # NoFlight => (bus.read /\ ~bus.sel) \/ (~v /\ flight # NoFlight)
  BY <1>1, SramTypes DEF ControlInv
<1>3. bus.read \in BOOLEAN /\ bus.addr \in Addresses /\ bus.sel \in BOOLEAN
  BY DEF ControlInv, ControlTypes
<1>4. \A r \in BOOLEAN, a \in Addresses :
        Drive(r, a) => /\ bus'.read = r /\ (state # "IDLE" => ~bus'.sel)
  BY DriveTypes
(* A step without a request before it, and one with or without after it.   *)
<1>5. ASSUME Quiet, state # "IDLE" \/ ~bus'.read,
             bus'.read => state' \in Words8 /\ flow' # "POST",
             state # "IDLE" => ~bus'.sel
      PROVE  Requests'
  BY <1>1, <1>2, <1>5 DEF Quiet, Requests
<1>6. CASE Listen(c) \/ Begin
  <2>1. ~bus'.read /\ Quiet
    BY <1>3, <1>4, <1>6 DEF Listen, Listens, Begin, ControlInv, Requests, Words8, Words
  <2>2. state = "IDLE"
    BY <1>6 DEF Listen, Listens, Begin
  <2> QED BY <1>5, <2>1, <2>2
<1>7. CASE Clear \/ Run \/ Run2 \/ NextBlock \/ NextBlock2
  <2>1. Quiet /\ Hold /\ state # "IDLE"
    BY <1>7 DEF Clear, Run, Run2, NextBlock, NextBlock2, ControlInv, Requests, Words8, Words
  <2>2. bus'.read = bus.read /\ ~bus'.sel
    BY <1>3, <1>4, <2>1 DEF Hold
  <2> QED BY <1>5, <2>1, <2>2 DEF Quiet
<1>8. CASE FirstWord \/ Continue
  <2>1. Quiet /\ state # "IDLE" /\ state' \in Words8 /\ flow' # "POST"
    BY <1>8 DEF FirstWord, Continue, ControlInv, Requests, Words8, Words
  <2>2. ~bus'.sel
    BY <1>4, <1>8, <2>1 DEF FirstWord, Continue, ControlInv, ControlTypes
  <2> QED BY <1>5, <2>1, <2>2
<1>9. CASE Wait(v)
  <2>1. /\ state \in Words8 /\ state' = state /\ flow' = flow /\ state # "IDLE"
        /\ flow # "POST"
    BY <1>9 DEF Wait, fsmVars, Words8, Words, ControlInv, Addressed
  <2>2. ~bus'.read /\ ~bus'.sel
    BY <1>3, <1>4, <1>9, <2>1 DEF Wait
  <2> QED BY <2>1, <2>2 DEF Requests
<1>10. CASE AHigh(v) \/ ALow(v) \/ CHigh(v) \/ CLow(v) \/ DHigh(v) \/ DLow(v) \/ BHigh(v)
  <2>1. /\ flow' = flow /\ state \in Words /\ state' \in Words8 /\ ~bus'.sel
        /\ (flow = "POST" => bus'.read = bus.read) /\ (flow # "POST" => v)
    BY <1>1, <1>10, WordStep DEF ControlInv
  <2>2. CASE flow = "POST"
    <3>1. Quiet /\ ~bus'.read /\ state # "IDLE"
      BY <2>1, <2>2 DEF ControlInv, Requests, Quiet, Words
    <3> QED BY <1>5, <2>1, <3>1
  <2>3. CASE flow # "POST"
    BY <1>1, <1>2, <2>1, <2>3 DEF Requests
  <2> QED BY <2>2, <2>3
<1>11. CASE BLow(v)
  <2>1. v /\ state = "B_L"
    BY <1>11 DEF BLow
  <2>2. ~bus'.read /\ flight' = NoFlight
    BY <1>1, <1>2, <1>3, <1>4, <1>11, <2>1 DEF BLow
  <2> QED BY <2>2 DEF Requests, Quiet
<1>12. CASE BlockEnd(v)
  <2>1. /\ state = "B_L" /\ flow = "POST" /\ state # "IDLE"
    <3>1. /\ state = "B_L" /\ Bin \in Bins /\ at.i = BLOCK_SIZE
      BY <1>12 DEF BlockEnd, ControlInv, Addressed, Words8
    <3> QED BY <3>1, HeaderMacAssumption DEF Bin, Bins
  <2>2. Quiet /\ ~bus'.read
    BY <1>3, <1>4, <1>12, <2>1 DEF BlockEnd, ControlInv, Requests
  <2>3. ~bus'.sel
    BY <1>3, <1>4, <1>12, <2>1 DEF BlockEnd
  <2> QED BY <1>5, <2>2, <2>3
<1> QED BY <1>6, <1>7, <1>8, <1>9, <1>10, <1>11, <1>12 DEF Main

-----------------------------------------------------------------------------
(* The program                                                             *)

LEMMA IdleStep ==
  ASSUME ControlInv, NEW c \in CommandWords, NEW v \in Answers, Main(c, v), MacIdle
  PROVE  /\ Listen(c)
         /\ c \notin {"reset", "start"} => MacIdle' /\ bus'.sel
<1>1. Listen(c)
  BY DEF MacIdle, Main, Begin, Clear, Run, Run2, FirstWord, Wait, AHigh, ALow, CHigh, CLow,
         DHigh, DLow, BHigh, Fetch, BLow, BlockEnd, Continue, NextBlock, NextBlock2, Words
<1>2. bus'.sel
  BY <1>1, DriveTypes DEF Listen, MacIdle, ControlInv, ControlTypes
<1> QED BY <1>1, <1>2 DEF Listen, MacIdle

LEMMA NothingPending ==
  ASSUME ControlInv, NEW c \in CommandWords, NEW v \in Answers, Main(c, v),
         c \notin {"reset", "start"}
  PROVE  pending' = "none"
<1>1. CASE state = "IDLE"
  <2>1. Listen(c) \/ Begin
    BY <1>1 DEF Main, Clear, Run, Run2, FirstWord, Wait, AHigh, ALow, CHigh, CLow,
         DHigh, DLow, BHigh, Fetch, BLow, BlockEnd, Continue, NextBlock, NextBlock2, Words
  <2> QED BY <2>1 DEF Listen, Begin
<1>2. CASE state # "IDLE"
  <2>1. pending = "none"
    BY <1>2 DEF ControlInv, Selected
  <2> QED BY <1>2, <2>1
      DEF Main, Listen, Listens, Begin, Clear, Run, Run2, FirstWord, Wait, AHigh, ALow, CHigh,
          CLow, DHigh, DLow, BHigh, Fetch, BLow, BlockEnd, Continue, NextBlock, NextBlock2, fsmVars
<1> QED BY <1>1, <1>2

LEMMA ReplySteps ==
  ASSUME ControlTypes, NEW c \in CommandWords, NEW r \in BOOLEAN,
         NEW a \in 0 .. ADDRESS_STATE, Reply(c, r, a)
  PROVE  /\ read_state' \in {"IDLE", "ADDRESS", "ARRAY", "DUMMY", "ARRAY_I", "ARRAY_R", "OUTPUT"}
         /\ output_addr' \in 0 .. ADDRESS_STATE
         /\ read_state = "IDLE" => read_state' = IF r THEN "ADDRESS" ELSE "IDLE"
         /\ read_state = "ADDRESS" => read_state' = "ARRAY" /\ output_addr' = a
         /\ read_state = "ARRAY" => read_state' \in {"DUMMY", "ARRAY_I", "ARRAY_R"}
         /\ read_state = "ARRAY" /\ output_addr = ADDRESS_STATE =>
              read_state' = "DUMMY" /\ output_value' = {StateWord}
         /\ read_state \in {"DUMMY", "ARRAY_I", "ARRAY_R"} => read_state' = "OUTPUT"
         /\ read_state = "OUTPUT" => read_state' = "IDLE" /\ readdata' = output_value
         /\ c = "none" /\ read_state # "ADDRESS" => output_addr' = output_addr
         /\ c = "none" /\ read_state = "DUMMY" => output_value' = output_value
<1>1. 0 \in 0 .. ADDRESS_STATE /\ output_addr \in 0 .. ADDRESS_STATE
  BY HeaderMacAssumption DEF ADDRESS_STATE, ControlTypes
<1> QED BY <1>1 DEF Reply, ControlTypes

(* A cycle in which nothing is written: the program reads or pauses.       *)
LEMMA QuietCycle ==
  ASSUME ControlInv, NEW v \in Answers, NEW r \in BOOLEAN, NEW a \in 0 .. ADDRESS_STATE,
         Main("none", v), Reply("none", r, a), pc' = pc, pc \in {"poll", "read"},
         access' \in 0 .. 5,
         \/ access = 0 /\ ~r /\ access' = 0
         \/ /\ access < 5 /\ access' = access + 1 /\ (r <=> access < 2)
            /\ (pc = "poll" => a = ADDRESS_STATE)
         \/ access = 5 /\ ~r /\ access' = 0
  PROVE  Polling'
<1>1. "none" \in CommandWords /\ access \in 0 .. 5
  BY DEF CommandWords, ControlInv, ControlTypes
<1>2. pending' = "none" /\ (MacIdle => MacIdle')
  BY <1>1, IdleStep, NothingPending
<1>3. Replying'
  <2>1. Replying
    BY DEF ControlInv, Polling
  <2>2. /\ read_state = "IDLE" => read_state' = IF r THEN "ADDRESS" ELSE "IDLE"
        /\ read_state = "ADDRESS" => read_state' = "ARRAY"
        /\ read_state = "ARRAY" => read_state' \in {"DUMMY", "ARRAY_I", "ARRAY_R"}
        /\ read_state \in {"DUMMY", "ARRAY_I", "ARRAY_R"} => read_state' = "OUTPUT"
        /\ read_state = "OUTPUT" => read_state' = "IDLE"
    BY <1>1, ReplySteps DEF ControlInv
  <2> QED BY <1>1, <2>1, <2>2 DEF Replying
<1>4. ASSUME pc = "poll", access' >= 2
      PROVE  output_addr' = ADDRESS_STATE
  <2>1. CASE access = 1
    <3>1. read_state = "ADDRESS"
      BY <2>1 DEF ControlInv, Polling, Replying
    <3>2. a = ADDRESS_STATE
      BY <1>4, <2>1
    <3>3. output_addr' = a
      BY <1>1, <3>1, ReplySteps DEF ControlInv
    <3> QED BY <3>2, <3>3
  <2>2. CASE access >= 2
    <3>1. read_state # "ADDRESS" /\ output_addr = ADDRESS_STATE
      BY <1>1, <1>4, <2>2 DEF ControlInv, Polling, Replying
    <3> QED BY <1>1, <3>1, ReplySteps DEF ControlInv
  <2> QED BY <1>1, <1>4, <2>1, <2>2
<1>5. ASSUME pc = "poll", access' = 3
      PROVE  /\ read_state' = "DUMMY"
             /\ output_value' = {"idle"} => MacIdle'
  <2>1. access = 2 /\ read_state = "ARRAY" /\ output_addr = ADDRESS_STATE /\ pending = "none"
    BY <1>1, <1>5 DEF ControlInv, Polling, Replying
  <2>2. read_state' = "DUMMY" /\ output_value' = {StateWord}
    BY <1>1, <2>1, ReplySteps DEF ControlInv
  <2>3. StateWord = "idle" => MacIdle
    BY <2>1 DEF StateWord, MacIdle
  <2> QED BY <1>2, <2>2, <2>3
<1>6. ASSUME pc = "poll", access' = 4, output_value' = {"idle"}
      PROVE  MacIdle'
  <2>1. access = 3 /\ read_state = "DUMMY"
    BY <1>1, <1>6 DEF ControlInv, Polling
  <2>2. output_value' = output_value
    BY <1>1, <2>1, ReplySteps DEF ControlInv
  <2> QED BY <1>2, <1>6, <2>1, <2>2 DEF ControlInv, Polling
<1>7. ASSUME pc = "poll", access' = 5, readdata' = {"idle"}
      PROVE  MacIdle'
  <2>1. access = 4 /\ read_state = "OUTPUT"
    BY <1>1, <1>7 DEF ControlInv, Polling, Replying
  <2>2. readdata' = output_value
    BY <1>1, <2>1, ReplySteps DEF ControlInv
  <2> QED BY <1>2, <1>7, <2>1, <2>2 DEF ControlInv, Polling
<1>8. pc = "read" => MacIdle'
  BY <1>2 DEF ControlInv, Polling
<1> QED BY <1>2, <1>3, <1>4, <1>5, <1>6, <1>7, <1>8 DEF Polling

(* A cycle in which the program is not reading.                            *)
LEMMA BusyCycle ==
  ASSUME ControlInv, NEW c \in CommandWords, NEW v \in Answers,
         Main(c, v), Reply(c, FALSE, 0), access = 0, access' = 0,
         c \in {"reset", "start"} => pc' \in {"settle", "poll"},
         pc' \in {"reset", "store", "set", "start", "read"} => MacIdle
  PROVE  Polling'
<1>1. Replying'
  <2>1. read_state = "IDLE" /\ FALSE \in BOOLEAN /\ 0 \in 0 .. ADDRESS_STATE
    BY HeaderMacAssumption DEF ControlInv, Polling, Replying, ADDRESS_STATE
  <2>2. read_state' = "IDLE"
    BY <2>1, ReplySteps DEF ControlInv
  <2> QED BY <2>2 DEF Replying
<1>2. pc' \in {"reset", "store", "set", "start", "read"} => MacIdle' /\ bus'.sel
  BY IdleStep
<1> QED BY <1>1, <1>2 DEF Polling

LEMMA ClockRings ==
  ASSUME ControlInv, NEW c \in CommandWords, NEW r \in BOOLEAN,
         NEW a \in 0 .. ADDRESS_STATE, NEW v \in Answers, Main(c, v), Reply(c, r, a), Sram(v),
         pc' \in {"reset", "settle", "store", "set", "start", "poll", "read"},
         side' \in Channels, access' \in 0 .. 5, index' \in 0 .. 2 * BLOCK_SIZE - 1,
         Polling'
  PROVE  ControlInv'
<1>1. v \in BOOLEAN
  BY Valid DEF ControlInv
<1>2. /\ read_state' \in {"IDLE", "ADDRESS", "ARRAY", "DUMMY", "ARRAY_I", "ARRAY_R", "OUTPUT"}
      /\ output_addr' \in 0 .. ADDRESS_STATE
  BY ReplySteps DEF ControlInv
<1>3. flight' \in [addr : Addresses, age : 0 .. MaxLatency]
  BY <1>1, SramTypes DEF ControlInv
<1>4. ControlTypes'
  BY <1>2, <1>3, MainTypes DEF ControlTypes
<1>5. Selected' /\ Addressed' /\ Requests'
  BY MainSelected, MainAddressed, SramRequests
<1> QED BY <1>4, <1>5 DEF ControlInv

LEMMA ProgramTypes ==
  ASSUME ControlInv, Next
  PROVE  /\ pc' \in {"reset", "settle", "store", "set", "start", "poll", "read"}
         /\ side' \in Channels /\ access' \in 0 .. 5 /\ index' \in 0 .. 2 * BLOCK_SIZE - 1
<1>1. /\ pc \in {"reset", "settle", "store", "set", "start", "poll", "read"}
      /\ side \in Channels /\ access \in 0 .. 5 /\ index \in 0 .. 2 * BLOCK_SIZE - 1
      /\ BLOCK_SIZE \in Nat \ {0} /\ Channels = {1, 2}
  BY HeaderMacAssumption DEF ControlInv, ControlTypes, Channels
<1>2. CASE WriteReset \/ Settle \/ StoreBlocks \/ WriteChannel \/ WriteStart \/ Pause
  BY <1>1, <1>2 DEF WriteReset, Settle, StoreBlocks, WriteChannel, WriteStart, Write, Pause,
                    programVars
<1>3. CASE ReadCycle \/ PollDone
  <2>1. 0 \in 0 .. 2 * BLOCK_SIZE - 1
    BY <1>1
  <2>2. CASE ReadCycle
    BY <1>1, <2>2 DEF ReadCycle
  <2>3. CASE PollDone
    BY <1>1, <2>1, <2>3 DEF PollDone
  <2> QED BY <1>3, <2>2, <2>3
<1>4. CASE WordDone
  <2>1. index' \in 0 .. 2 * BLOCK_SIZE - 1
    <3>1. CASE index = 2 * BLOCK_SIZE - 1
      BY <1>1, <1>4, <3>1 DEF WordDone
    <3>2. CASE index # 2 * BLOCK_SIZE - 1
      <4>1. index' = IF index < BLOCK_SIZE THEN index + BLOCK_SIZE ELSE index - BLOCK_SIZE + 1
        BY <1>4, <3>2 DEF WordDone
      <4> QED BY <1>1, <3>2, <4>1
    <3> QED BY <3>1, <3>2
  <2> QED BY <1>1, <1>4, <2>1 DEF WordDone
<1> QED BY <1>2, <1>3, <1>4 DEF Next, Program

(* Every step is a clock cycle.                                            *)
LEMMA StepPolling ==
  ASSUME ControlInv, Next
  PROVE  \E c \in CommandWords, r \in BOOLEAN, a \in 0 .. ADDRESS_STATE, v \in Answers :
           Main(c, v) /\ RamOutput(v) /\ Reply(c, r, a) /\ Sram(v) /\ Polling'
<1>1. /\ "none" \in CommandWords /\ 0 \in 0 .. ADDRESS_STATE /\ ADDRESS_STATE \in 0 .. ADDRESS_STATE
      /\ index \in 0 .. ADDRESS_STATE /\ access \in 0 .. 5 /\ access' \in 0 .. 5
      /\ BLOCK_SIZE \in Nat \ {0}
  BY HeaderMacAssumption, ProgramTypes DEF CommandWords, ADDRESS_STATE, ControlInv, ControlTypes
<1>2. ASSUME pc \notin {"poll", "read"} \/ access = 0
      PROVE  access = 0
  BY <1>2 DEF ControlInv, Polling
<1>3. ASSUME NEW c \in CommandWords, Clock(c, FALSE, 0), access = 0, access' = 0,
             c \in {"reset", "start"} => pc' \in {"settle", "poll"},
             pc' \in {"reset", "store", "set", "start", "read"} => MacIdle
      PROVE  \E v \in Answers :
               Main(c, v) /\ RamOutput(v) /\ Reply(c, FALSE, 0) /\ Sram(v) /\ Polling'
  BY <1>3, BusyCycle DEF Clock
<1>4. ASSUME NEW r \in BOOLEAN, NEW a \in 0 .. ADDRESS_STATE, Clock("none", r, a),
             pc' = pc, pc \in {"poll", "read"},
             \/ access = 0 /\ ~r /\ access' = 0
             \/ /\ access < 5 /\ access' = access + 1 /\ (r <=> access < 2)
                /\ (pc = "poll" => a = ADDRESS_STATE)
             \/ access = 5 /\ ~r /\ access' = 0
      PROVE  \E v \in Answers :
               Main("none", v) /\ RamOutput(v) /\ Reply("none", r, a) /\ Sram(v) /\ Polling'
  <2>1. PICK v \in Answers : Main("none", v) /\ RamOutput(v) /\ Reply("none", r, a) /\ Sram(v)
    BY <1>4 DEF Clock
  <2>2. Polling'
    BY <1>1, <1>4, <2>1, QuietCycle
  <2> QED BY <2>1, <2>2
<1>5. CASE WriteReset
  BY <1>1, <1>2, <1>3, <1>5 DEF WriteReset, Write, CommandWords
<1>6. CASE WriteStart
  BY <1>1, <1>2, <1>3, <1>6 DEF WriteStart, Write, CommandWords
<1>7. CASE WriteChannel
  <2>1. MacIdle
    BY <1>7 DEF WriteChannel, Write, ControlInv, Polling
  <2> QED BY <1>1, <1>2, <1>3, <1>7, <2>1 DEF WriteChannel, Write, CommandWords
<1>8. CASE Settle
  BY <1>1, <1>2, <1>3, <1>8 DEF Settle, Write, MacIdle
<1>9. CASE StoreBlocks
  <2>1. MacIdle
    BY <1>9 DEF StoreBlocks, ControlInv, Polling
  <2> QED BY <1>1, <1>2, <1>3, <1>9, <2>1 DEF StoreBlocks
<1>10. CASE Pause
  <2>1. pc' = pc /\ access = 0 /\ access' = 0 /\ Clock("none", FALSE, 0)
    BY <1>10 DEF Pause, programVars
  <2>2. pc' \in {"reset", "store", "set", "start", "read"} => MacIdle
    BY <2>1 DEF ControlInv, Polling
  <2> QED BY <1>1, <1>3, <2>1, <2>2
<1>11. CASE ReadCycle
  <2> DEFINE r == access < 2
             a == ReadAddress
  <2>1. /\ pc' = pc /\ pc \in {"poll", "read"} /\ access < 5 /\ access' = access + 1
        /\ r \in BOOLEAN /\ a \in 0 .. ADDRESS_STATE /\ (pc = "poll" => a = ADDRESS_STATE)
        /\ Clock("none", r, a)
    BY <1>1, <1>11 DEF ReadCycle, ReadAddress
  <2>2. \E v \in Answers :
          Main("none", v) /\ RamOutput(v) /\ Reply("none", r, a) /\ Sram(v) /\ Polling'
    <3>1. r <=> access < 2
      OBVIOUS
    <3> HIDE DEF r, a
    <3> QED BY <1>1, <1>4, <2>1, <3>1
  <2> HIDE DEF r, a
  <2> QED BY <1>1, <2>1, <2>2
<1>12. CASE PollDone
  <2>1. CASE readdata = {"idle"}
    <3>1. MacIdle
      BY <1>12, <2>1 DEF PollDone, ControlInv, Polling
    <3>2. PICK v \in Answers :
            Main("none", v) /\ RamOutput(v) /\ Reply("none", FALSE, 0) /\ Sram(v)
      BY <1>12 DEF PollDone, Clock
    <3>3. MacIdle' /\ bus'.sel
      BY <1>1, <3>1, <3>2, IdleStep
    <3>4. read_state = "IDLE" /\ read_state' = "IDLE" /\ access' = 0 /\ pc' = "read"
      <4>1. read_state = "IDLE"
        BY <1>12 DEF PollDone, ControlInv, Polling, Replying
      <4>2. read_state' = "IDLE"
        BY <1>1, <3>2, <4>1, ReplySteps DEF ControlInv
      <4> QED BY <1>12, <2>1, <4>1, <4>2 DEF PollDone
    <3>5. Polling'
      BY <3>3, <3>4 DEF Polling, Replying
    <3> QED BY <1>1, <3>2, <3>5
  <2>2. CASE readdata # {"idle"}
    BY <1>1, <1>4, <1>12, <2>2 DEF PollDone
  <2> QED BY <2>1, <2>2
<1>13. CASE WordDone
  <2>1. MacIdle
    BY <1>13 DEF WordDone, ControlInv, Polling
  <2>2. PICK v \in Answers :
          Main("none", v) /\ RamOutput(v) /\ Reply("none", FALSE, 0) /\ Sram(v)
    BY <1>13 DEF WordDone, Clock
  <2>3. MacIdle' /\ bus'.sel
    BY <1>1, <2>1, <2>2, IdleStep
  <2>4. read_state' = "IDLE" /\ access' = 0 /\ pc' \in {"read", "set", "store"}
    <3>1. read_state = "IDLE"
      BY <1>13 DEF WordDone, ControlInv, Polling, Replying
    <3>2. read_state' = "IDLE"
      BY <1>1, <2>2, <3>1, ReplySteps DEF ControlInv
    <3> QED BY <1>13, <3>2 DEF WordDone
  <2>5. Polling'
    BY <2>3, <2>4 DEF Polling, Replying
  <2> QED BY <1>1, <2>2, <2>5
<1> QED BY <1>5, <1>6, <1>7, <1>8, <1>9, <1>10, <1>11, <1>12, <1>13 DEF Next, Program

LEMMA ControlStep == ControlInv /\ [Next]_vars => ControlInv'
<1> SUFFICES ASSUME ControlInv, [Next]_vars PROVE ControlInv'
  OBVIOUS
<1>1. CASE Next
  <2>1. PICK c \in CommandWords, r \in BOOLEAN, a \in 0 .. ADDRESS_STATE, v \in Answers :
          Main(c, v) /\ RamOutput(v) /\ Reply(c, r, a) /\ Sram(v) /\ Polling'
    BY <1>1, StepPolling
  <2> QED BY <1>1, <2>1, ProgramTypes, ClockRings
<1>2. CASE UNCHANGED vars
  BY <1>2 DEF vars, fsmVars, ringVars, sumVars, replyVars, programVars, ControlInv,
    ControlTypes, Selected, Age, Addressed, Bin, Requests, Quiet, Polling, Replying, MacIdle
<1> QED BY <1>1, <1>2

LEMMA ControlInit == Init => ControlInv
<1> SUFFICES ASSUME Init PROVE ControlInv
  OBVIOUS
<1>1. /\ BLOCK_SIZE \in Nat \ {0} /\ BLOCK_NUM \in Nat \ {0, 1} /\ MaxLatency \in Nat \ {0}
      /\ 0 \in Slots /\ 0 \in Addresses /\ NoWord \in Addresses
  <2>1. 0 \in Slots
    BY HeaderMacAssumption DEF Slots
  <2>2. Base(0) \in Addresses /\ Base(0) = 0
    BY <2>1, AddrType, HeaderMacAssumption DEF Bins, Base
  <2> QED BY <2>1, <2>2, HeaderMacAssumption DEF Addresses
<1>2. /\ \A d \in Channels : InMax(d) - 1 \in InMin(d) .. InMax(d) /\ InMax(d) - 1 \in Slots
  BY RingTypes
<1>3. /\ latest \in [Channels -> Slots] /\ latest_in_block \in Slots
      /\ \A d \in Channels : latest[d] \in InMin(d) .. InMax(d)
  BY <1>2 DEF Init, ResetLatest, Channels
<1>4. /\ at \in [i : 0 .. BLOCK_SIZE, i_prev : 0 .. BLOCK_SIZE, ir : Slots, in : Slots,
                 ir_addr : Addresses, in_addr : Addresses]
      /\ bus \in [read : BOOLEAN, addr : Addresses, sel : BOOLEAN]
      /\ flight \in [addr : Addresses, age : 0 .. MaxLatency]
  BY <1>1 DEF Init, NoFlight
<1>5. ControlTypes
  BY <1>1, <1>3, <1>4 DEF Init, ControlTypes, States, Channels, ADDRESS_STATE
<1>6. Selected /\ Addressed /\ Polling
  BY DEF Init, Selected, Addressed, Words8, Words, Polling, Replying, MacIdle
<1>7. Requests
  BY DEF Init, Requests, Quiet
<1> QED BY <1>5, <1>6, <1>7 DEF ControlInv

LEMMA ControlInvHolds == Spec => []ControlInv
  BY ControlInit, ControlStep, PTL DEF Spec

-----------------------------------------------------------------------------
(* The data path                                                           *)

OperandType == [a : Pairs, b : Pairs, c : Pairs, d : Pairs]
AluType == [ac : Sums, bc : Sums, bd : Sums, ad : Sums,
            new_r : Sums, new_i : Sums, acc_r : Sums, acc_i : Sums]
RamType == [r : [Bins -> Sums], i : [Bins -> Sums]]

LEMMA TermTypes ==
  ASSUME NEW x \in Pairs, NEW y \in Pairs, NEW s \in Sums, NEW t \in Sums
  PROVE  {Plus(x, y)} \in Sums /\ {Minus(x, y)} \in Sums /\ Add(s, t) \in Sums
<1>1. Plus(x, y) \in Terms /\ Minus(x, y) \in Terms
  BY DEF Plus, Minus, Terms, Pairs
<1>2. Twice \in Terms
  BY DEF Twice, Terms, NoValue, Addresses
<1> QED BY <1>1, <1>2 DEF Sums, Add

LEMMA FetchTypes ==
  ASSUME operand \in OperandType, NEW x \in {"a", "b", "c", "d"}, NEW half \in {1, 2},
         NEW w \in Addresses
  PROVE  [operand EXCEPT ![x][half] = w] \in OperandType
<1>1. operand[x] \in Pairs
  BY DEF OperandType
<1>2. [operand[x] EXCEPT ![half] = w] \in Pairs
  BY <1>1 DEF Pairs
<1>3. [operand EXCEPT ![x] = [operand[x] EXCEPT ![half] = w]] \in OperandType
  BY <1>2 DEF OperandType
<1> QED BY <1>3

LEMMA BinTypes ==
  ASSUME ControlInv
  PROVE  /\ state \in Words8 /\ flow # "PRE" => at.i_prev \in Bins
         /\ state \in Words8 /\ flow # "POST" => at.i \in Bins
         /\ state \in {"START", "RESET", "B_L_CONTINUE"} => at.i \in Bins
         /\ ReadsR(output_addr) => output_addr \in Bins
         /\ ReadsI(output_addr) => output_addr - BLOCK_SIZE \in Bins
<1>1. BLOCK_SIZE \in Nat \ {0} /\ at.i \in 0 .. BLOCK_SIZE /\ at.i_prev \in 0 .. BLOCK_SIZE
      /\ output_addr \in 0 .. ADDRESS_STATE
  BY HeaderMacAssumption DEF ControlInv, ControlTypes
<1> QED BY <1>1 DEF ControlInv, Addressed, Bin, Bins, ReadsR, ReadsI, ADDRESS_STATE

LEMMA MainData ==
  ASSUME ControlInv, DataTypes, NEW c \in CommandWords, NEW v \in Answers, Main(c, v)
  PROVE  operand' \in OperandType /\ alu' \in AluType /\ ram' \in RamType
<1>1. /\ operand \in OperandType /\ alu \in AluType /\ ram \in RamType
      /\ rd.r \in Sums /\ rd.i \in Sums /\ flight.addr \in Addresses /\ v \in BOOLEAN
  BY Valid DEF DataTypes, OperandType, AluType, RamType, ControlInv, ControlTypes
<1>2. /\ operand.a \in Pairs /\ operand.b \in Pairs /\ operand.c \in Pairs /\ operand.d \in Pairs
  BY <1>1 DEF OperandType
<1>3. /\ alu.ac \in Sums /\ alu.bc \in Sums /\ alu.bd \in Sums /\ alu.ad \in Sums
      /\ alu.new_r \in Sums /\ alu.new_i \in Sums /\ alu.acc_r \in Sums /\ alu.acc_i \in Sums
  BY <1>1 DEF AluType
<1>4. /\ {Plus(operand.b, operand.c)} \in Sums /\ {Minus(operand.b, operand.d)} \in Sums
      /\ {Plus(operand.a, operand.c)} \in Sums /\ {Plus(operand.a, operand.d)} \in Sums
      /\ Add(alu.ad, alu.bc) \in Sums /\ Add(alu.acc_i, alu.new_i) \in Sums
      /\ Add(alu.ac, alu.bd) \in Sums /\ Add(alu.acc_r, alu.new_r) \in Sums /\ {} \in Sums
  <2>1. \A x, y \in Pairs : {Plus(x, y)} \in Sums /\ {Minus(x, y)} \in Sums
    BY <1>3, TermTypes
  <2>2. \A s, t \in Sums : Add(s, t) \in Sums
    BY <1>2, TermTypes
  <2> QED BY <1>2, <1>3, <2>1, <2>2 DEF Sums
<1>5. \A x \in {"a", "b", "c", "d"}, half \in {1, 2} :
        [operand EXCEPT ![x][half] = flight.addr] \in OperandType
  BY <1>1, FetchTypes
<1>6. CASE Clear
  BY <1>1, <1>4, <1>6 DEF Clear, RamType
<1>7. CASE AHigh(v)
  <2>1. operand' \in OperandType
    BY <1>1, <1>5, <1>7 DEF AHigh, Fetch
  <2>2. alu' \in AluType /\ ram' = ram
    BY <1>1, <1>4, <1>7 DEF AHigh, AluType
  <2> QED BY <1>1, <2>1, <2>2
<1>8. CASE ALow(v)
  <2>1. operand' \in OperandType
    BY <1>1, <1>5, <1>8 DEF ALow, Fetch
  <2>2. alu' \in AluType /\ ram' = ram
    BY <1>1, <1>4, <1>8 DEF ALow, AluType
  <2> QED BY <1>1, <2>1, <2>2
<1>9. CASE CHigh(v)
  <2>1. operand' \in OperandType
    BY <1>1, <1>5, <1>9 DEF CHigh, Fetch
  <2>2. alu' \in AluType /\ ram' = ram
    BY <1>1, <1>4, <1>9 DEF CHigh, AluType
  <2> QED BY <1>1, <2>1, <2>2
<1>10. CASE CLow(v)
  <2>1. operand' \in OperandType
    BY <1>1, <1>5, <1>10 DEF CLow, Fetch
  <2>2. alu' \in AluType
    BY <1>1, <1>4, <1>10 DEF CLow, AluType
  <2>3. ram' = ram \/ ram' = [ram EXCEPT !.i = [ram.i EXCEPT ![at.i_prev] = alu.acc_i]]
    BY <1>10 DEF CLow
  <2>4. ram' \in RamType
    BY <1>1, <1>3, <2>3 DEF RamType
  <2> QED BY <2>1, <2>2, <2>4
<1>11. CASE DHigh(v)
  <2>1. operand' \in OperandType
    BY <1>1, <1>5, <1>11 DEF DHigh, Fetch
  <2>2. alu' \in AluType /\ ram' = ram
    BY <1>1, <1>3, <1>4, <1>11 DEF DHigh, AluType
  <2> QED BY <1>1, <2>1, <2>2
<1>12. CASE DLow(v)
  <2>1. operand' \in OperandType /\ alu' = alu
    BY <1>1, <1>5, <1>12 DEF DLow, Fetch
  <2>2. ram' = ram \/ ram' = [ram EXCEPT !.r = [ram.r EXCEPT ![at.i_prev] = alu.acc_r]]
    BY <1>12 DEF DLow
  <2>3. ram' \in RamType
    BY <1>1, <1>3, <2>2 DEF RamType
  <2> QED BY <1>1, <2>1, <2>3
<1>13. CASE BHigh(v)
  <2>1. operand' \in OperandType
    BY <1>1, <1>5, <1>13 DEF BHigh, Fetch
  <2>2. alu' \in AluType /\ ram' = ram
    BY <1>1, <1>4, <1>13 DEF BHigh, AluType
  <2> QED BY <1>1, <2>1, <2>2
<1>14. CASE BLow(v)
  <2>1. operand' = [operand EXCEPT !["b"][2] = flight.addr] /\ UNCHANGED <<alu, ram>>
    BY <1>14 DEF BLow
  <2> QED BY <1>1, <1>5, <2>1
<1>15. CASE \/ Listen(c) \/ Begin \/ Run \/ Run2 \/ FirstWord \/ Wait(v) \/ BlockEnd(v)
            \/ Continue \/ NextBlock \/ NextBlock2
  BY <1>1, <1>15 DEF Listen, Begin, Run, Run2, FirstWord, Wait, BlockEnd, Continue, NextBlock,
                     NextBlock2, sumVars
<1> QED BY <1>6, <1>7, <1>8, <1>9, <1>10, <1>11, <1>12, <1>13, <1>14, <1>15 DEF Main

LEMMA RamOutputTypes ==
  ASSUME ControlInv, DataTypes, NEW v \in Answers, RamOutput(v)
  PROVE  rd' \in [r : Sums, i : Sums]
<1>1. /\ ram.r \in [Bins -> Sums] /\ ram.i \in [Bins -> Sums] /\ rd.r \in Sums /\ rd.i \in Sums
      /\ v \in BOOLEAN /\ (v /\ state \in Words8 => flow # "POST")
  BY Valid DEF DataTypes, ControlInv
<1>2. /\ ReadsR(output_addr) => ram.r[output_addr] \in Sums
      /\ ReadsI(output_addr) => ram.i[output_addr - BLOCK_SIZE] \in Sums
  BY <1>1, BinTypes
<1>3. /\ state = "A_H" /\ flow \in {"MID", "POST"} => ram.r[at.i_prev] \in Sums
      /\ state = "B_L_CONTINUE" \/ (state = "B_L" /\ v) => ram.i[at.i] \in Sums
  BY <1>1, BinTypes DEF Words8, Words
<1> QED BY <1>1, <1>2, <1>3 DEF RamOutput

LEMMA DataStep == ControlInv /\ DataTypes /\ [Next]_vars => DataTypes'
<1> SUFFICES ASSUME ControlInv, DataTypes, [Next]_vars PROVE DataTypes'
  OBVIOUS
<1>1. CASE Next
  <2>1. PICK c \in CommandWords, v \in Answers : Main(c, v) /\ RamOutput(v)
    BY <1>1, StepPolling
  <2> QED BY <2>1, MainData, RamOutputTypes DEF DataTypes, OperandType, AluType, RamType
<1>2. CASE UNCHANGED vars
  BY <1>2 DEF vars, sumVars, DataTypes
<1> QED BY <1>1, <1>2

LEMMA DataInit == Init => DataTypes
<1> SUFFICES ASSUME Init PROVE DataTypes
  OBVIOUS
<1>1. NoValue \in Pairs /\ {} \in Sums
  BY DEF NoValue, Pairs, Addresses, Sums
<1>2. operand \in OperandType
  BY <1>1 DEF Init, OperandType
<1>3. alu \in AluType
  BY <1>1 DEF Init, AluType
<1>4. ram \in RamType /\ rd \in [r : Sums, i : Sums]
  BY <1>1 DEF Init, RamType
<1> QED BY <1>2, <1>3, <1>4 DEF DataTypes, OperandType, AluType, RamType

-----------------------------------------------------------------------------
(* Theorems                                                                *)

(* Every register of the header MAC keeps its type, for blocks of any size *)
(* and number and any latency: block pointers stay in their rings and RAM  *)
(* addresses are bins.                                                     *)
THEOREM HeaderTypeCorrect == Spec => []TypeOK
<1>1. ControlInv /\ DataTypes => TypeOK
  <2> SUFFICES ASSUME ControlInv, DataTypes PROVE TypeOK
    OBVIOUS
  <2>1. state \in Words /\ flow # "PRE" => at.i_prev \in Bins
    BY BinTypes DEF Words8
  <2>2. \A x \in DOMAIN operand : operand[x] \in Addresses \X Addresses
    BY DEF DataTypes, Pairs
  <2>3. \A x \in DOMAIN alu : alu[x] \subseteq Terms
    BY DEF DataTypes, Sums
  <2>4. \A e \in Bins : ram.r[e] \subseteq Terms /\ ram.i[e] \subseteq Terms
    BY DEF DataTypes, Sums
  <2> QED BY <2>1, <2>2, <2>3, <2>4
          DEF TypeOK, ControlInv, ControlTypes, States, Words8
<1>2. ControlInv /\ DataTypes /\ [Next]_vars => (ControlInv /\ DataTypes)'
  BY ControlStep, DataStep
<1> QED BY <1>1, <1>2, ControlInit, DataInit, PTL DEF Spec

(* For any latency of the SRAM and any pauses of the program, the SRAM has *)
(* one master at a time and every request reaches it.                      *)
THEOREM BusOwned == Spec => []BusOwner
<1>1. ControlInv => BusOwner
  BY DEF ControlInv, Requests, Polling, BusOwner
<1> QED BY <1>1, ControlInvHolds, PTL

-----------------------------------------------------------------------------
(***************************************************************************)
(* The pipeline of the header MAC (HeaderMac) implements the commands that *)
(* the program relies on (MacCommands), and the program reads the finished *)
(* sums, for blocks of any size, any number of blocks and any latency.     *)
(***************************************************************************)

(* The pairs of blocks of channel c when b is its newest input block, and  *)
(* the products of the first n of them.                                    *)
PairOf(c, b, k) == [ir |-> IrMin(c) + k, in |-> Commands!Older(c, b, k)]
RealOf(c, b, e, n) == UNION { Real(PairOf(c, b, k), e) : k \in 0 .. n - 1 }
ImagOf(c, b, e, n) == UNION { Imag(PairOf(c, b, k), e) : k \in 0 .. n - 1 }

(* The same for the run that is under way.                                 *)
RealSum(e, n) == RealOf(channel, latest[channel], e, n)
ImagSum(e, n) == ImagOf(channel, latest[channel], e, n)

(* The four products of the values whose words begin at x and y.           *)
Two(x) == <<x, x + 1>>
AC(x, y) == {Plus(Two(x), Two(y))}
BD(x, y) == {Minus(Two(x + 2), Two(y + 2))}
AD(x, y) == {Plus(Two(x), Two(y + 2))}
BC(x, y) == {Plus(Two(x + 2), Two(y))}

(* Where the bin lies that is summed while the next one is fetched.        *)
OldIr == IF flow = "POST" THEN at.ir_addr ELSE at.ir_addr - 4
OldIn == IF flow = "POST" THEN at.in_addr ELSE at.in_addr - 4

-----------------------------------------------------------------------------
(* The invariant                                                           *)

Wanted ==
  CASE state = "A_H" -> at.ir_addr
    [] state = "A_L" -> at.ir_addr + 1
    [] state = "C_H" -> at.in_addr
    [] state = "C_L" -> at.in_addr + 1
    [] state = "D_H" -> at.in_addr + 2
    [] state = "D_L" -> at.in_addr + 3
    [] state = "B_H" -> at.ir_addr + 2
    [] state = "B_L" -> at.ir_addr + 3
    [] OTHER -> NoWord

(* The word on its way is the one that is waited for.                      *)
Asked ==
  /\ bus.read => bus.addr = Wanted
  /\ flight # NoFlight => flight.addr = Wanted

(* The words of a bin that have arrived, and the products made of them.    *)
Fetched ==
  flow # "POST" =>
    /\ state \in {"A_L", "C_H", "C_L", "D_H", "D_L", "B_H", "B_L"} =>
         operand.a[1] = at.ir_addr
    /\ state \in {"C_H", "C_L", "D_H", "D_L", "B_H", "B_L"} =>
         operand.a[2] = at.ir_addr + 1
    /\ state \in {"C_L", "D_H", "D_L", "B_H", "B_L"} => operand.c[1] = at.in_addr
    /\ state \in {"D_H", "D_L", "B_H", "B_L"} => operand.c[2] = at.in_addr + 1
    /\ state \in {"D_L", "B_H", "B_L"} => operand.d[1] = at.in_addr + 2
    /\ state \in {"B_H", "B_L"} => operand.d[2] = at.in_addr + 3
    /\ state = "B_L" => operand.b[1] = at.ir_addr + 2
    /\ state \in {"D_L", "B_H", "B_L"} => alu.ac = AC(at.ir_addr, at.in_addr)
    /\ state = "B_L" => alu.ad = AD(at.ir_addr, at.in_addr)

(* What is left of the bin before it, for as long as it is needed.         *)
Kept ==
  flow # "PRE" \/ state = "B_L_CONTINUE" =>
    /\ state \in {"A_H", "A_L", "C_H", "B_L_CONTINUE"} =>
         operand.b = Two(OldIr + 2) /\ operand.d = Two(OldIn + 2)
    /\ state \in {"A_H", "B_L_CONTINUE"} => operand.c = Two(OldIn)
    /\ state \in {"A_H", "A_L", "C_H", "C_L", "B_L_CONTINUE"} => alu.ac = AC(OldIr, OldIn)
    /\ state \in {"A_H", "A_L", "B_L_CONTINUE"} => alu.ad = AD(OldIr, OldIn)
    /\ state = "A_L" => alu.bc = BC(OldIr, OldIn)
    /\ state = "C_H" => alu.new_i = AD(OldIr, OldIn) \cup BC(OldIr, OldIn)
    /\ state = "C_L" => alu.bd = BD(OldIr, OldIn)
    /\ state = "D_H" => alu.new_r = AC(OldIr, OldIn) \cup BD(OldIr, OldIn)

(* Its sums on their way from the RAMs through the accumulators.           *)
Accumulated ==
  flow # "PRE" =>
    /\ state = "A_H" => rd.i = ram.i[at.i_prev]
    /\ state = "A_L" => rd.r = ram.r[at.i_prev]
    /\ state \in {"A_L", "C_H"} => alu.acc_i = ram.i[at.i_prev]
    /\ state = "C_L" => alu.acc_i = ImagSum(at.i_prev, Age + 1)
    /\ state \in {"C_H", "C_L", "D_H"} => alu.acc_r = ram.r[at.i_prev]
    /\ state = "D_L" => alu.acc_r = RealSum(at.i_prev, Age + 1)

(* The bins whose sums have the products of the pair that is worked on.    *)
InBlock == state \in Words8 \cup {"B_L_CONTINUE", "NEXT_BLOCK"}
RealDone ==
  IF ~InBlock THEN 0
  ELSE IF flow # "PRE" /\ state \in {"A_H", "A_L", "C_H", "C_L", "D_H", "D_L"}
  THEN at.i_prev ELSE at.i
ImagDone ==
  IF ~InBlock THEN 0
  ELSE IF flow # "PRE" /\ state \in {"A_H", "A_L", "C_H", "C_L"} THEN at.i_prev ELSE at.i

Stored ==
  /\ InBlock \/ state \in {"NEXT_BLOCK2", "EX_A_L"} =>
       \A e \in Bins :
         /\ ram.r[e] = RealSum(e, IF e < RealDone THEN Age + 1 ELSE Age)
         /\ ram.i[e] = ImagSum(e, IF e < ImagDone THEN Age + 1 ELSE Age)
  /\ state \in {"START", "RESET"} =>
       \A e \in Bins : e < at.i => ram.r[e] = {} /\ ram.i[e] = {}
  /\ state \in {"RUN", "RUN2", "RUN3"} => \A e \in Bins : ram.r[e] = {} /\ ram.i[e] = {}
  /\ state \in {"RUN2", "RUN3"} => Age = 0

(* The RAMs hold all products of the last run.                             *)
Complete ==
  \A e \in Bins : ram.r[e] = RealSum(e, BLOCK_NUM) /\ ram.i[e] = ImagSum(e, BLOCK_NUM)

Result == IF index < BLOCK_SIZE THEN RealSum(index, BLOCK_NUM)
          ELSE ImagSum(index - BLOCK_SIZE, BLOCK_NUM)

Reading ==
  /\ pc \in {"start", "poll", "read"} => channel = side
  /\ pc = "poll" => state # "RESET" /\ pending # "reset"
  /\ pc = "read" \/ (pc = "poll" /\ MacIdle) => Complete
  /\ pc = "read" /\ access = 2 => output_addr = index
  /\ pc = "read" /\ access = 3 =>
       IF index < BLOCK_SIZE THEN read_state = "ARRAY_R" /\ rd.r = Result
       ELSE read_state = "ARRAY_I" /\ rd.i = Result
  /\ pc = "read" /\ access = 4 => output_value = Result
  /\ pc = "read" /\ access = 5 => readdata = Result

PipelineInv == Asked /\ Fetched /\ Kept /\ Accumulated /\ Stored
SumInv == ControlInv /\ DataTypes /\ PipelineInv /\ Reading

-----------------------------------------------------------------------------
(* Sums of products                                                        *)

LEMMA DistinctBases ==
  ASSUME NEW p \in Slots, NEW q \in Slots, p # q
  PROVE  /\ Base(p) \in Nat /\ Base(q) \in Nat
         /\ Base(p) + 4 <= Base(q) \/ Base(q) + 4 <= Base(p)
<1> DEFINE s == BLOCK_SIZE * 4
<1>1. s \in Nat /\ s >= 4 /\ p \in Nat /\ q \in Nat
  BY HeaderMacAssumption DEF Slots
<1>2. Base(p) = p * s /\ Base(q) = q * s
  BY HeaderMacAssumption, <1>1 DEF Base
<1> HIDE DEF s
<1>3. \A m, n \in Nat : m < n => m * s + s <= n * s /\ m * s \in Nat /\ n * s \in Nat
  <2> SUFFICES ASSUME NEW m \in Nat, NEW n \in Nat, m < n
               PROVE  m * s + s <= n * s /\ m * s \in Nat /\ n * s \in Nat
    OBVIOUS
  <2>1. PICK d \in Nat : n = m + 1 + d
    <3>1. n - m - 1 \in Nat /\ n = m + 1 + (n - m - 1)
      OBVIOUS
    <3> QED BY <3>1
  <2>2. n * s = m * s + s + d * s /\ d * s \in Nat /\ m * s \in Nat
    BY <1>1, <2>1
  <2> QED BY <1>1, <2>2
<1>4. p < q \/ q < p
  BY <1>1
<1> QED BY <1>1, <1>2, <1>3, <1>4

LEMMA BinProducts ==
  ASSUME NEW p, p.ir \in Slots, p.in \in Slots, NEW e \in Bins
  PROVE  /\ Real(p, e) = AC(Addr(p.ir, e), Addr(p.in, e)) \cup BD(Addr(p.ir, e), Addr(p.in, e))
         /\ Imag(p, e) = AD(Addr(p.ir, e), Addr(p.in, e)) \cup BC(Addr(p.ir, e), Addr(p.in, e))
<1>1. \A b \in Slots : /\ Value(b, e, 0) = Two(Addr(b, e))
                       /\ Value(b, e, 2) = Two(Addr(b, e) + 2)
  <2> TAKE b \in Slots
  <2>1. Addr(b, e) \in Nat
    BY AddrType
  <2>2. Addr(b, e) + 0 = Addr(b, e)
    BY <2>1
  <2> QED BY <2>2 DEF Value, Addr, Two
<1> QED BY <1>1 DEF Real, Imag, AC, BD, AD, BC

LEMMA PairTypes ==
  ASSUME NEW c \in Channels, NEW b \in InMin(c) .. InMax(c), NEW k \in 0 .. BLOCK_NUM - 1
  PROVE  /\ PairOf(c, b, k).ir = IrMin(c) + k /\ PairOf(c, b, k).ir \in Slots
         /\ PairOf(c, b, k).in = Commands!Older(c, b, k) /\ PairOf(c, b, k).in \in Slots
<1>1. IrMin(c) + k \in Slots
  BY HeaderMacAssumption DEF IrMin, Slots, Channels
<1>2. Commands!Older(c, b, k) \in Slots
  BY OlderBlocks, RingTypes
<1> QED BY <1>1, <1>2 DEF PairOf

LEMMA NextPair ==
  ASSUME NEW c, NEW b, NEW e, NEW k \in Nat
  PROVE  /\ RealOf(c, b, e, k + 1) = RealOf(c, b, e, k) \cup Real(PairOf(c, b, k), e)
         /\ ImagOf(c, b, e, k + 1) = ImagOf(c, b, e, k) \cup Imag(PairOf(c, b, k), e)
         /\ RealOf(c, b, e, 0) = {} /\ ImagOf(c, b, e, 0) = {}
<1>1. 0 .. (k + 1) - 1 = (0 .. k - 1) \cup {k} /\ 0 .. 0 - 1 = {}
  OBVIOUS
<1> QED BY <1>1, Zenon DEF RealOf, ImagOf

(* The pairs of different impulse response blocks share no product.        *)
LEMMA DisjointPairs ==
  ASSUME NEW p, p.ir \in Slots, p.in \in Slots, NEW q, q.ir \in Slots, q.in \in Slots,
         p.ir # q.ir, NEW e \in Bins
  PROVE  Real(p, e) \cap Real(q, e) = {} /\ Imag(p, e) \cap Imag(q, e) = {}
<1> DEFINE x == Addr(p.ir, e)
           y == Addr(q.ir, e)
<1>1. x \in Nat /\ y \in Nat /\ (x + 4 <= y \/ y + 4 <= x)
  BY DistinctBases DEF Addr, Bins
<1>2. /\ Real(p, e) = AC(x, Addr(p.in, e)) \cup BD(x, Addr(p.in, e))
      /\ Imag(p, e) = AD(x, Addr(p.in, e)) \cup BC(x, Addr(p.in, e))
      /\ Real(q, e) = AC(y, Addr(q.in, e)) \cup BD(y, Addr(q.in, e))
      /\ Imag(q, e) = AD(y, Addr(q.in, e)) \cup BC(y, Addr(q.in, e))
  BY BinProducts
<1> HIDE DEF x, y
<1>3. Two(x)[1] = x /\ Two(x + 2)[1] = x + 2 /\ Two(y)[1] = y /\ Two(y + 2)[1] = y + 2
  BY DEF Two
<1>4. /\ Two(x) # Two(y) /\ Two(x) # Two(y + 2) /\ Two(x + 2) # Two(y) /\ Two(x + 2) # Two(y + 2)
  BY <1>1, <1>3
<1>5. \A s, t \in Real(p, e) \cup Real(q, e) \cup Imag(p, e) \cup Imag(q, e) :
        s = t => s[2] = t[2]
  OBVIOUS
<1>6. /\ \A s \in Real(p, e) \cup Imag(p, e) : s[2] \in {Two(x), Two(x + 2)}
      /\ \A s \in Real(q, e) \cup Imag(q, e) : s[2] \in {Two(y), Two(y + 2)}
  BY <1>2 DEF AC, BD, AD, BC, Plus, Minus
<1> QED BY <1>4, <1>6

LEMMA NewProducts ==
  ASSUME NEW c \in Channels, NEW b \in InMin(c) .. InMax(c), NEW k \in 0 .. BLOCK_NUM - 1,
         NEW e \in Bins
  PROVE  /\ Add(RealOf(c, b, e, k), Real(PairOf(c, b, k), e)) = RealOf(c, b, e, k + 1)
         /\ Add(ImagOf(c, b, e, k), Imag(PairOf(c, b, k), e)) = ImagOf(c, b, e, k + 1)
<1>1. k \in Nat
  BY HeaderMacAssumption
<1>2. ASSUME NEW j \in 0 .. k - 1
      PROVE  /\ Real(PairOf(c, b, j), e) \cap Real(PairOf(c, b, k), e) = {}
             /\ Imag(PairOf(c, b, j), e) \cap Imag(PairOf(c, b, k), e) = {}
  <2>1. j \in 0 .. BLOCK_NUM - 1 /\ j # k /\ IrMin(c) \in Int
    BY <1>1, HeaderMacAssumption, RingTypes
  <2>2. PairOf(c, b, j).ir # PairOf(c, b, k).ir
    <3>1. PairOf(c, b, j).ir = IrMin(c) + j /\ PairOf(c, b, k).ir = IrMin(c) + k
      BY <2>1, PairTypes
    <3> HIDE DEF IrMin
    <3> QED BY <1>1, <2>1, <3>1
  <2> QED BY <2>1, <2>2, PairTypes, DisjointPairs
<1>3. /\ RealOf(c, b, e, k) \cap Real(PairOf(c, b, k), e) = {}
      /\ ImagOf(c, b, e, k) \cap Imag(PairOf(c, b, k), e) = {}
  BY <1>2, Zenon DEF RealOf, ImagOf
<1> QED BY <1>1, <1>3, NextPair DEF Add

(* The two products of a part are different.                               *)
LEMMA TwoProducts ==
  ASSUME NEW x \in Int, NEW y \in Int
  PROVE  /\ Add(AC(x, y), BD(x, y)) = AC(x, y) \cup BD(x, y)
         /\ Add(AD(x, y), BC(x, y)) = AD(x, y) \cup BC(x, y)
<1>1. Two(x) # Two(x + 2)
  BY DEF Two
<1>2. Plus(Two(x), Two(y)) # Minus(Two(x + 2), Two(y + 2))
  BY <1>1 DEF Plus, Minus
<1>3. Plus(Two(x), Two(y + 2)) # Plus(Two(x + 2), Two(y))
  BY <1>1 DEF Plus
<1> QED BY <1>2, <1>3 DEF Add, AC, BD, AD, BC

-----------------------------------------------------------------------------
(* The steps of the pipeline                                               *)

LEMMA AskedStep ==
  ASSUME ControlInv, Asked, NEW c \in CommandWords, NEW v \in Answers, Main(c, v), Sram(v)
  PROVE  Asked'
<1>1. /\ state' \notin Words8 \/ flow' = "POST" => ~bus'.read /\ flight' = NoFlight
      /\ bus'.read => flight' = NoFlight
  BY SramRequests DEF Requests, Quiet
<1>2. ASSUME bus'.read => bus'.addr = Wanted', flight' = NoFlight \/ flight'.addr = Wanted'
      PROVE  Asked'
  BY <1>2 DEF Asked
<1>3. CASE state' \notin Words8 \/ flow' = "POST"
  BY <1>1, <1>2, <1>3
<1>4. CASE Wait(v) /\ state' \in Words8 /\ flow' # "POST"
  <2>1. /\ ~bus'.read /\ UNCHANGED <<state, at>>
        /\ flight \in [addr : Addresses, age : 0 .. MaxLatency] /\ v = FALSE
    BY <1>4, Valid DEF Wait, Drive, fsmVars, ControlInv, ControlTypes
  <2>2. Wanted' = Wanted
    BY <2>1 DEF Wanted
  <2>3. flight' = NoFlight \/ flight'.addr = Wanted
    <3>1. CASE bus.read /\ ~bus.sel
      <4>1. flight' = [addr |-> bus.addr, age |-> 1]
        BY <3>1 DEF Sram
      <4> QED BY <3>1, <4>1 DEF Asked
    <3>2. CASE ~(bus.read /\ ~bus.sel)
      <4>1. flight' = NoFlight \/ (flight # NoFlight /\ flight'.addr = flight.addr)
        BY <2>1, <3>2 DEF Sram
      <4> QED BY <4>1 DEF Asked
    <3> QED BY <3>1, <3>2
  <2> QED BY <1>2, <2>1, <2>2, <2>3
<1>5. CASE (FirstWord \/ Continue) /\ state' \in Words8 /\ flow' # "POST"
  <2>1. Drive(TRUE, at.ir_addr) /\ state' = "A_H"
    BY <1>5 DEF FirstWord, Continue
  <2>2. bus'.read /\ bus'.addr = at.ir_addr
    BY <2>1 DEF Drive
  <2>3. at'.ir_addr = at.ir_addr
    BY <1>5 DEF FirstWord, Continue, ControlInv, ControlTypes
  <2> QED BY <1>1, <1>2, <2>1, <2>2, <2>3 DEF Wanted
<1>6. CASE /\ AHigh(v) \/ ALow(v) \/ CHigh(v) \/ CLow(v) \/ DHigh(v) \/ DLow(v) \/ BHigh(v)
           /\ state' \in Words8 /\ flow' # "POST"
  <2>1. flow # "POST" /\ flow' = flow /\ at' = at
    BY <1>6 DEF AHigh, ALow, CHigh, CLow, DHigh, DLow, BHigh, Fetch
  <2>2. bus'.read /\ bus'.addr = Wanted'
    BY <1>6, <2>1 DEF AHigh, ALow, CHigh, CLow, DHigh, DLow, BHigh, Fetch, Drive, Wanted
  <2> QED BY <1>1, <1>2, <2>2
<1>7. CASE \/ Listen(c) \/ Begin \/ Clear \/ Run \/ Run2 \/ BLow(v) \/ BlockEnd(v)
           \/ NextBlock \/ NextBlock2
  <2>1. state' \notin Words8 \/ flow' = "POST"
    BY <1>7 DEF Listen, Listens, Begin, Clear, Run, Run2, BLow, BlockEnd, NextBlock, NextBlock2,
                Words8, Words
  <2> QED BY <1>3, <2>1
<1> QED BY <1>3, <1>4, <1>5, <1>6, <1>7 DEF Main

(* What a word that arrives does to the operands.                          *)
LEMMA WordFetched ==
  ASSUME DataTypes, NEW x \in {"a", "b", "c", "d"}, NEW half \in {1, 2}, NEW w,
         operand' = [operand EXCEPT ![x][half] = w]
  PROVE  /\ operand'[x][half] = w
         /\ half = 1 => operand'[x][2] = operand[x][2]
         /\ half = 2 => operand'[x][1] = operand[x][1]
         /\ \A y \in {"a", "b", "c", "d"} \ {x} : operand'[y] = operand[y]
<1>1. operand[x] \in Pairs /\ DOMAIN operand = {"a", "b", "c", "d"}
  <2>1. operand \in OperandType
    BY DEF DataTypes, OperandType
  <2>2. DOMAIN operand = {"a", "b", "c", "d"}
    BY <2>1 DEF OperandType
  <2>3. operand[x] \in Pairs
    BY <2>1 DEF OperandType
  <2> QED BY <2>2, <2>3
<1>2. DOMAIN operand[x] = {1, 2}
  BY <1>1 DEF Pairs
<1>3. /\ operand'[x] = [operand[x] EXCEPT ![half] = w]
      /\ \A y \in {"a", "b", "c", "d"} \ {x} : operand'[y] = operand[y]
  BY <1>1
<1> QED BY <1>2, <1>3

LEMMA FetchedStep ==
  ASSUME ControlInv, DataTypes, Asked, Fetched, NEW c \in CommandWords, NEW v \in Answers,
         Main(c, v)
  PROVE  Fetched'
<1>1. /\ v => flight.addr = Wanted /\ v \in BOOLEAN
      /\ operand \in OperandType /\ alu \in AluType
  BY Valid DEF ControlInv, Asked, DataTypes, OperandType, AluType
<1>2. /\ operand.a \in Pairs /\ operand.b \in Pairs /\ operand.c \in Pairs /\ operand.d \in Pairs
  BY <1>1 DEF OperandType
<1>3. CASE state' \notin Words8 \/ flow' = "POST"
  BY <1>3 DEF Fetched, Words8, Words
<1>4. CASE Wait(v) \/ FirstWord \/ Continue
  BY <1>4 DEF Wait, FirstWord, Continue, Fetched, fsmVars, sumVars
<1>5. CASE /\ AHigh(v) \/ ALow(v) \/ CHigh(v) \/ CLow(v) \/ DHigh(v) \/ DLow(v) \/ BHigh(v)
           /\ flow # "POST"
  <2>1. flow' = flow /\ at' = at /\ v
    BY <1>5 DEF AHigh, ALow, CHigh, CLow, DHigh, DLow, BHigh, Fetch
  <2>2. CASE AHigh(v)
    <3>1. /\ state = "A_H" /\ state' = "A_L"
          /\ operand' = [operand EXCEPT !["a"][1] = flight.addr]
      BY <1>5, <2>2 DEF AHigh, Fetch
    <3>2. operand'.a[1] = at.ir_addr /\ state' = "A_L"
      BY <1>1, <1>5, <2>1, <3>1, WordFetched DEF Wanted
    <3> QED BY <2>1, <3>2 DEF Fetched
  <2>3. CASE ALow(v)
    <3>1. /\ state = "A_L" /\ state' = "C_H"
          /\ operand' = [operand EXCEPT !["a"][2] = flight.addr]
      BY <1>5, <2>3 DEF ALow, Fetch
    <3>2. /\ operand'.a[1] = at.ir_addr /\ operand'.a[2] = at.ir_addr + 1 /\ state' = "C_H"
      BY <1>1, <1>5, <2>1, <3>1, WordFetched DEF Wanted, Fetched
    <3> QED BY <2>1, <3>2 DEF Fetched
  <2>4. CASE CHigh(v)
    <3>1. /\ state = "C_H" /\ state' = "C_L"
          /\ operand' = [operand EXCEPT !["c"][1] = flight.addr]
      BY <1>5, <2>4 DEF CHigh, Fetch
    <3>2. operand'.a = operand.a /\ operand'.c[1] = at.in_addr /\ state' = "C_L" /\ state = "C_H"
      BY <1>1, <1>5, <2>1, <3>1, WordFetched DEF Wanted
    <3> QED BY <1>5, <2>1, <3>2 DEF Fetched
  <2>5. CASE CLow(v)
    <3>1. /\ state = "C_L" /\ state' = "D_H"
          /\ operand' = [operand EXCEPT !["c"][2] = flight.addr]
      BY <1>5, <2>5 DEF CLow, Fetch
    <3>2. /\ operand'.a = operand.a /\ operand'.c[1] = operand.c[1]
          /\ operand'.c[2] = at.in_addr + 1 /\ state' = "D_H" /\ state = "C_L"
      BY <1>1, <1>5, <2>1, <3>1, WordFetched DEF Wanted
    <3> QED BY <1>5, <2>1, <3>2 DEF Fetched
  <2>6. CASE DHigh(v)
    <3>1. /\ state = "D_H" /\ state' = "D_L"
          /\ operand' = [operand EXCEPT !["d"][1] = flight.addr]
      BY <1>5, <2>6 DEF DHigh, Fetch
    <3>2. /\ operand'.a = operand.a /\ operand'.c = operand.c
          /\ operand'.d[1] = at.in_addr + 2 /\ state' = "D_L" /\ state = "D_H"
      BY <1>1, <1>5, <2>1, <3>1, WordFetched DEF Wanted
    <3>3. operand.a = Two(at.ir_addr) /\ operand.c = Two(at.in_addr)
      BY <1>2, <1>5, <3>2 DEF Fetched, Pairs, Two
    <3>4. alu'.ac = AC(at.ir_addr, at.in_addr)
      BY <1>1, <1>5, <2>6, <3>3 DEF DHigh, AC, AluType
    <3> QED BY <1>5, <2>1, <3>2, <3>4 DEF Fetched
  <2>7. CASE DLow(v)
    <3>1. /\ state = "D_L" /\ state' = "B_H"
          /\ operand' = [operand EXCEPT !["d"][2] = flight.addr]
      BY <1>5, <2>7 DEF DLow, Fetch
    <3>2. /\ operand'.a = operand.a /\ operand'.c = operand.c /\ operand'.d[1] = operand.d[1]
          /\ operand'.d[2] = at.in_addr + 3 /\ state' = "B_H" /\ state = "D_L"
      BY <1>1, <1>5, <2>1, <3>1, WordFetched DEF Wanted
    <3>3. alu' = alu
      BY <2>7 DEF DLow
    <3> QED BY <1>5, <2>1, <3>2, <3>3 DEF Fetched
  <2>8. CASE BHigh(v)
    <3>1. /\ state = "B_H" /\ state' = "B_L"
          /\ operand' = [operand EXCEPT !["b"][1] = flight.addr]
      BY <1>5, <2>8 DEF BHigh, Fetch
    <3>2. /\ operand'.a = operand.a /\ operand'.c = operand.c /\ operand'.d = operand.d
          /\ operand'.b[1] = at.ir_addr + 2 /\ state' = "B_L" /\ state = "B_H"
      BY <1>1, <1>5, <2>1, <3>1, WordFetched DEF Wanted
    <3>3. operand.a = Two(at.ir_addr)
      BY <1>2, <1>5, <3>2 DEF Fetched, Pairs, Two
    <3>4. at.in_addr \in Int /\ (at.in_addr + 2) + 1 = at.in_addr + 3
      <4>1. at.in_addr \in Addresses
        BY DEF ControlInv, ControlTypes
      <4> QED BY <4>1, Bases, HeaderMacAssumption DEF Addresses, NoWord
    <3>5. operand.d = Two(at.in_addr + 2)
      BY <1>2, <1>5, <3>2, <3>4 DEF Fetched, Pairs, Two
    <3>6. alu'.ad = AD(at.ir_addr, at.in_addr) /\ alu'.ac = alu.ac
      BY <1>1, <2>8, <3>3, <3>5 DEF BHigh, AD, AluType
    <3> QED BY <1>5, <2>1, <3>2, <3>6 DEF Fetched
  <2> QED BY <1>5, <2>2, <2>3, <2>4, <2>5, <2>6, <2>7, <2>8
<1>6. CASE /\ AHigh(v) \/ ALow(v) \/ CHigh(v) \/ CLow(v) \/ DHigh(v) \/ DLow(v) \/ BHigh(v)
           /\ flow = "POST"
  <2>1. flow' = "POST"
    BY <1>6 DEF AHigh, ALow, CHigh, CLow, DHigh, DLow, BHigh, Fetch
  <2> QED BY <1>3, <2>1
<1>7. CASE \/ Listen(c) \/ Begin \/ Clear \/ Run \/ Run2 \/ BLow(v) \/ BlockEnd(v)
           \/ NextBlock \/ NextBlock2
  <2>1. state' \notin Words8 \/ flow' = "POST"
    BY <1>7 DEF Listen, Listens, Begin, Clear, Run, Run2, BLow, BlockEnd, NextBlock, NextBlock2,
                Words8, Words
  <2> QED BY <1>3, <2>1
<1> QED BY <1>3, <1>4, <1>5, <1>6, <1>7 DEF Main

LEMMA KeptStep ==
  ASSUME ControlInv, DataTypes, Asked, Fetched, Kept, NEW c \in CommandWords,
         NEW v \in Answers, Main(c, v)
  PROVE  Kept'
<1> DEFINE x == OldIr
           y == OldIn
<1>1. /\ operand \in OperandType /\ alu \in AluType /\ v \in BOOLEAN
      /\ (v => flight.addr = Wanted) /\ (v /\ state \in Words8 => flow # "POST")
  BY Valid DEF ControlInv, Asked, DataTypes, OperandType, AluType
<1>2. at.ir_addr \in Int /\ at.in_addr \in Int /\ x \in Int /\ y \in Int
  <2>1. at.ir_addr \in Addresses /\ at.in_addr \in Addresses
    BY DEF ControlInv, ControlTypes
  <2>2. \A w \in Addresses : w \in Int
    <3>1. \A w \in 0 .. Base(4 * BLOCK_NUM) - 1 : w \in Int
      <4> DEFINE top == Base(4 * BLOCK_NUM) - 1
      <4> HIDE DEF top
      <4>1. \A w \in 0 .. top : w \in Int
        OBVIOUS
      <4> QED BY <4>1 DEF top
    <3>2. -1 \in Int
      OBVIOUS
    <3> QED BY <3>1, <3>2 DEF Addresses, NoWord
  <2> QED BY <2>1, <2>2 DEF OldIr, OldIn
<1>3. CASE flow' = "PRE" /\ state' # "B_L_CONTINUE"
  BY <1>3 DEF Kept
<1>4. CASE state' \notin {"A_H", "A_L", "C_H", "C_L", "D_H", "B_L_CONTINUE"}
  BY <1>4 DEF Kept
<1>5. CASE Wait(v)
  <2>1. UNCHANGED <<state, flow, at, operand, alu>>
    BY <1>5 DEF Wait, fsmVars, sumVars
  <2> QED BY <2>1 DEF Kept, OldIr, OldIn
<1>6. CASE Continue
  <2>1. /\ state = "B_L_CONTINUE" /\ flow # "POST" /\ state' = "A_H" /\ flow' = "MID"
        /\ UNCHANGED <<operand, alu>>
        /\ at'.ir_addr = at.ir_addr /\ at'.in_addr = at.in_addr
    BY <1>6 DEF Continue, sumVars, ControlInv, ControlTypes, Addressed
  <2>2. OldIr' = x /\ OldIn' = y
    BY <2>1 DEF OldIr, OldIn
  <2> HIDE DEF x, y
  <2> QED BY <2>1, <2>2 DEF Kept, x, y
<1>7. CASE BLow(v)
  <2>1. /\ v /\ state = "B_L" /\ flow # "POST" /\ alu' = alu
        /\ operand' = [operand EXCEPT !["b"][2] = flight.addr]
    BY <1>1, <1>7 DEF BLow, Words8
  <2>2. /\ operand'.a = operand.a /\ operand'.c = operand.c /\ operand'.d = operand.d
        /\ operand'.b[1] = operand.b[1] /\ operand'.b[2] = at.ir_addr + 3
    BY <1>1, <2>1, WordFetched DEF Wanted
  <2>3. operand'.b \in Pairs /\ operand.c \in Pairs /\ operand.d \in Pairs
    <3>1. operand' \in OperandType
      BY <1>7, MainData DEF Main
    <3> QED BY <1>1, <3>1 DEF OperandType
  <2>4. /\ (at.ir_addr + 2) + 1 = at.ir_addr + 3 /\ (at.in_addr + 2) + 1 = at.in_addr + 3
    BY <1>2
  <2>5. /\ operand'.b = Two(at.ir_addr + 2) /\ operand'.d = Two(at.in_addr + 2)
        /\ operand'.c = Two(at.in_addr)
        /\ alu'.ac = AC(at.ir_addr, at.in_addr) /\ alu'.ad = AD(at.ir_addr, at.in_addr)
    BY <2>1, <2>2, <2>3, <2>4 DEF Fetched, Pairs, Two
  <2>6. OldIr' = at.ir_addr /\ OldIn' = at.in_addr
    <3>1. CASE at.i = BLOCK_SIZE - 1
      BY <1>7, <3>1 DEF BLow, OldIr, OldIn, ControlInv, ControlTypes
    <3>2. CASE at.i # BLOCK_SIZE - 1
      <4>1. flow' = flow /\ at'.ir_addr = at.ir_addr + 4 /\ at'.in_addr = at.in_addr + 4
        BY <1>7, <3>2 DEF BLow, ControlInv, ControlTypes
      <4>2. (at.ir_addr + 4) - 4 = at.ir_addr /\ (at.in_addr + 4) - 4 = at.in_addr
        BY <1>2
      <4> QED BY <2>1, <4>1, <4>2 DEF OldIr, OldIn
    <3> QED BY <3>1, <3>2
  <2>7. state' \in {"A_H", "B_L_CONTINUE"}
    BY <1>7 DEF BLow
  <2> QED BY <2>5, <2>6, <2>7 DEF Kept
<1>8. CASE (AHigh(v) \/ ALow(v) \/ CHigh(v) \/ CLow(v)) /\ flow # "PRE"
  <2>1. flow' = flow /\ at' = at /\ OldIr' = x /\ OldIn' = y
    BY <1>8 DEF AHigh, ALow, CHigh, CLow, Fetch, OldIr, OldIn
  <2> HIDE DEF x, y
  <2>2. CASE AHigh(v)
    <3>1. /\ state = "A_H" /\ state' = "A_L"
          /\ alu' = [alu EXCEPT !.bc = {Plus(operand.b, operand.c)}, !.acc_i = rd.i]
          /\ operand' = operand \/ operand' = [operand EXCEPT !["a"][1] = flight.addr]
      BY <1>8, <2>2 DEF AHigh, Fetch
    <3>2. operand'.b = operand.b /\ operand'.d = operand.d
      BY <3>1, WordFetched
    <3>3. /\ operand.b = Two(x + 2) /\ operand.d = Two(y + 2) /\ operand.c = Two(y)
          /\ alu.ac = AC(x, y) /\ alu.ad = AD(x, y)
      BY <1>8, <3>1 DEF Kept, x, y
    <3>4. alu'.ac = alu.ac /\ alu'.ad = alu.ad /\ alu'.bc = BC(x, y)
      BY <1>1, <3>1, <3>3 DEF AluType, BC
    <3> QED BY <2>1, <3>1, <3>2, <3>3, <3>4 DEF Kept
  <2>3. CASE ALow(v)
    <3>1. /\ state = "A_L" /\ state' = "C_H"
          /\ alu' = [alu EXCEPT !.new_i = Add(alu.ad, alu.bc), !.acc_r = rd.r]
          /\ operand' = operand \/ operand' = [operand EXCEPT !["a"][2] = flight.addr]
      BY <1>8, <2>3 DEF ALow, Fetch
    <3>2. operand'.b = operand.b /\ operand'.d = operand.d
      BY <3>1, WordFetched
    <3>3. /\ operand.b = Two(x + 2) /\ operand.d = Two(y + 2)
          /\ alu.ac = AC(x, y) /\ alu.ad = AD(x, y) /\ alu.bc = BC(x, y)
      BY <1>8, <3>1 DEF Kept, x, y
    <3>4. alu'.ac = alu.ac /\ alu'.new_i = AD(x, y) \cup BC(x, y)
      BY <1>1, <1>2, <3>1, <3>3, TwoProducts DEF AluType
    <3> QED BY <2>1, <3>1, <3>2, <3>3, <3>4 DEF Kept
  <2>4. CASE CHigh(v)
    <3>1. /\ state = "C_H" /\ state' = "C_L"
          /\ alu' = [alu EXCEPT !.bd = {Minus(operand.b, operand.d)},
                               !.acc_i = Add(alu.acc_i, alu.new_i)]
      BY <1>8, <2>4 DEF CHigh, Fetch
    <3>2. operand.b = Two(x + 2) /\ operand.d = Two(y + 2) /\ alu.ac = AC(x, y)
      BY <1>8, <3>1 DEF Kept, x, y
    <3>3. alu'.ac = alu.ac /\ alu'.bd = BD(x, y)
      BY <1>1, <3>1, <3>2 DEF AluType, BD
    <3> QED BY <2>1, <3>1, <3>2, <3>3 DEF Kept
  <2>5. CASE CLow(v)
    <3>1. /\ state = "C_L" /\ state' = "D_H"
          /\ alu' = [alu EXCEPT !.new_r = Add(alu.ac, alu.bd)]
      BY <1>8, <2>5 DEF CLow, Fetch
    <3>2. alu.ac = AC(x, y) /\ alu.bd = BD(x, y)
      BY <1>8, <3>1 DEF Kept, x, y
    <3>3. alu'.new_r = AC(x, y) \cup BD(x, y)
      BY <1>1, <1>2, <3>1, <3>2, TwoProducts DEF AluType
    <3> QED BY <2>1, <3>1, <3>3 DEF Kept
  <2> QED BY <1>8, <2>2, <2>3, <2>4, <2>5
<1>9. CASE (AHigh(v) \/ ALow(v) \/ CHigh(v) \/ CLow(v)) /\ flow = "PRE"
  <2>1. flow' = "PRE" /\ state' # "B_L_CONTINUE"
    BY <1>9 DEF AHigh, ALow, CHigh, CLow, Fetch
  <2> QED BY <1>3, <2>1
<1>10. CASE FirstWord
  BY <1>3, <1>10 DEF FirstWord
<1>11. CASE \/ Listen(c) \/ Begin \/ Clear \/ Run \/ Run2 \/ DHigh(v) \/ DLow(v) \/ BHigh(v)
            \/ BlockEnd(v) \/ NextBlock \/ NextBlock2
  <2>1. state' \notin {"A_H", "A_L", "C_H", "C_L", "D_H", "B_L_CONTINUE"}
    BY <1>11 DEF Listen, Listens, Begin, Clear, Run, Run2, DHigh, DLow, BHigh, Fetch, BlockEnd,
                 NextBlock, NextBlock2
  <2> QED BY <1>4, <2>1
<1> QED BY <1>5, <1>6, <1>7, <1>8, <1>9, <1>10, <1>11 DEF Main

(* The program does not read the RAMs while the MAC works.                 *)
LEMMA NoReads ==
  ASSUME ControlInv, state # "IDLE"
  PROVE  ~ReadsR(output_addr) /\ ~ReadsI(output_addr)
<1>1. CASE read_state = "ARRAY"
  <2>1. access = 2 /\ pc = "poll"
    BY <1>1 DEF ControlInv, ControlTypes, Polling, Replying, MacIdle
  <2>2. output_addr = ADDRESS_STATE
    BY <2>1 DEF ControlInv, Polling
  <2> QED BY <2>2, HeaderMacAssumption DEF ReadsR, ReadsI, ADDRESS_STATE
<1>2. CASE read_state # "ARRAY"
  BY <1>2 DEF ReadsR, ReadsI
<1> QED BY <1>1, <1>2

LEMMA WorkedPair ==
  ASSUME ControlInv, state \in Walking
  PROVE  /\ Age \in 0 .. BLOCK_NUM - 1 /\ channel \in Channels
         /\ latest[channel] \in InMin(channel) .. InMax(channel)
         /\ at.ir \in Slots /\ at.in \in Slots
         /\ PairOf(channel, latest[channel], Age).ir = at.ir
         /\ PairOf(channel, latest[channel], Age).in = at.in
<1>1. /\ Age \in 0 .. BLOCK_NUM - 1 /\ at.in = Commands!Older(channel, latest[channel], Age)
      /\ channel \in Channels /\ latest[channel] \in InMin(channel) .. InMax(channel)
      /\ at.ir \in Slots /\ at.in \in Slots
  BY DEF ControlInv, ControlTypes, Selected, Walking
<1>2. IrMin(channel) + Age = at.ir
  <2>1. IrMin(channel) \in Int /\ at.ir \in Int
    BY <1>1, RingTypes DEF Slots
  <2> HIDE DEF IrMin
  <2> QED BY <2>1 DEF Age
<1> QED BY <1>1, <1>2 DEF PairOf

(* The bin before, and what it adds to its sums.                           *)
LEMMA OldBin ==
  ASSUME ControlInv, state \in Words8, flow # "PRE"
  PROVE  /\ at.i_prev \in Bins /\ Age \in 0 .. BLOCK_NUM - 1
         /\ Add(RealSum(at.i_prev, Age), AC(OldIr, OldIn) \cup BD(OldIr, OldIn))
              = RealSum(at.i_prev, Age + 1)
         /\ Add(ImagSum(at.i_prev, Age), AD(OldIr, OldIn) \cup BC(OldIr, OldIn))
              = ImagSum(at.i_prev, Age + 1)
<1>1. /\ Age \in 0 .. BLOCK_NUM - 1 /\ channel \in Channels
      /\ latest[channel] \in InMin(channel) .. InMax(channel)
      /\ at.ir \in Slots /\ at.in \in Slots
      /\ PairOf(channel, latest[channel], Age).ir = at.ir
      /\ PairOf(channel, latest[channel], Age).in = at.in
  <2>1. state \in Walking
    BY DEF Walking, States, Words8, Words
  <2> QED BY <2>1, WorkedPair
<1>2. /\ at.i_prev \in Bins /\ at.i_prev = at.i - 1 /\ at.i \in Nat /\ at.i_prev \in Nat
      /\ Bin \in Bins /\ at.ir_addr = Addr(at.ir, Bin) /\ at.in_addr = Addr(at.in, Bin)
  <2>1. at.i_prev \in Bins /\ at.i \in Nat
    BY BinTypes, HeaderMacAssumption DEF ControlInv, ControlTypes
  <2> QED BY <2>1, HeaderMacAssumption DEF ControlInv, Addressed, Bins
<1>3. OldIr = Addr(at.ir, at.i_prev) /\ OldIn = Addr(at.in, at.i_prev)
  <2>1. CASE flow = "POST"
    BY <1>2, <2>1 DEF OldIr, OldIn, Bin
  <2>2. CASE flow # "POST"
    <3>1. at.ir_addr = Addr(at.ir, at.i_prev + 1) /\ at.in_addr = Addr(at.in, at.i_prev + 1)
      <4>1. Bin = at.i_prev + 1
        BY <1>2, <2>2 DEF Bin
      <4> QED BY <1>2, <4>1
    <3>2. /\ Addr(at.ir, at.i_prev + 1) = Addr(at.ir, at.i_prev) + 4
          /\ Addr(at.in, at.i_prev + 1) = Addr(at.in, at.i_prev) + 4
      BY <1>1, <1>2, NextAddr
    <3>3. Addr(at.ir, at.i_prev) \in Nat /\ Addr(at.in, at.i_prev) \in Nat
      BY <1>1, <1>2, AddrType
    <3> QED BY <2>2, <3>1, <3>2, <3>3 DEF OldIr, OldIn
  <2> QED BY <2>1, <2>2
<1>4. /\ Real(PairOf(channel, latest[channel], Age), at.i_prev)
           = AC(OldIr, OldIn) \cup BD(OldIr, OldIn)
      /\ Imag(PairOf(channel, latest[channel], Age), at.i_prev)
           = AD(OldIr, OldIn) \cup BC(OldIr, OldIn)
  BY <1>1, <1>2, <1>3, BinProducts
<1> QED BY <1>1, <1>2, <1>4, NewProducts DEF RealSum, ImagSum

LEMMA AccumulatedStep ==
  ASSUME ControlInv, DataTypes, Kept, Accumulated, Stored, NEW c \in CommandWords,
         NEW v \in Answers, Main(c, v), RamOutput(v)
  PROVE  Accumulated'
<1>1. /\ alu \in AluType /\ ram \in RamType /\ v \in BOOLEAN
      /\ (v /\ state \in Words8 => flow # "POST")
  BY Valid DEF ControlInv, DataTypes, AluType, RamType
<1>2. /\ state = "A_H" /\ (flow = "POST" \/ (flow = "MID" /\ v)) => rd'.r = ram.r[at.i_prev]
      /\ state # "A_H" /\ state # "IDLE" => rd'.r = rd.r
      /\ state = "B_L_CONTINUE" \/ (state = "B_L" /\ v /\ at.i = BLOCK_SIZE - 1) =>
           rd'.i = ram.i[at.i]
      /\ state \notin {"B_L_CONTINUE", "B_L", "IDLE"} => rd'.i = rd.i
  <2>1. state # "IDLE" => ~ReadsR(output_addr) /\ ~ReadsI(output_addr)
    BY NoReads
  <2>2. rd'.r = IF ReadsR(output_addr) THEN ram.r[output_addr]
                ELSE IF state = "A_H" /\ (flow = "POST" \/ (flow = "MID" /\ v))
                THEN ram.r[at.i_prev] ELSE rd.r
    BY DEF RamOutput
  <2>3. rd'.i = IF ReadsI(output_addr) THEN ram.i[output_addr - BLOCK_SIZE]
                ELSE IF \/ state = "B_L_CONTINUE"
                        \/ state = "B_L" /\ v /\ at.i = BLOCK_SIZE - 1
                THEN ram.i[at.i] ELSE rd.i
    BY DEF RamOutput
  <2> QED BY <2>1, <2>2, <2>3
<1>3. CASE flow' = "PRE"
  BY <1>3 DEF Accumulated
<1>4. CASE state' \notin {"A_H", "A_L", "C_H", "C_L", "D_H", "D_L"}
  BY <1>4 DEF Accumulated
<1>5. CASE Wait(v) /\ flow' # "PRE"
  <2>1. UNCHANGED <<state, flow, at, alu, ram, channel, latest>>
    BY <1>5 DEF Wait, fsmVars, sumVars, ringVars
  <2>2. Age' = Age /\ ImagSum(at.i_prev, Age + 1)' = ImagSum(at.i_prev, Age + 1)
        /\ RealSum(at.i_prev, Age + 1)' = RealSum(at.i_prev, Age + 1)
    BY <2>1 DEF Age, ImagSum, RealSum
  <2>3. /\ state = "A_H" => rd'.i = rd.i
        /\ state = "A_L" => rd'.r = rd.r
    BY <1>2
  <2> QED BY <1>5, <2>1, <2>2, <2>3 DEF Accumulated
<1>6. CASE Continue \/ BLow(v)
  <2>1. state' = "A_H" => at'.i_prev = at.i /\ ram' = ram /\ rd'.i = ram.i[at.i]
    <3>1. CASE Continue
      BY <1>2, <3>1 DEF Continue, sumVars, ControlInv, ControlTypes
    <3>2. CASE BLow(v)
      BY <1>2, <3>2 DEF BLow, ControlInv, ControlTypes
    <3> QED BY <1>6, <3>1, <3>2
  <2>2. state' \notin {"A_L", "C_H", "C_L", "D_H", "D_L"}
    BY <1>6 DEF Continue, BLow
  <2> QED BY <2>1, <2>2 DEF Accumulated
<1>7. CASE (AHigh(v) \/ ALow(v) \/ CHigh(v) \/ CLow(v) \/ DHigh(v)) /\ flow # "PRE"
  <2>1. /\ flow' = flow /\ at' = at /\ UNCHANGED <<channel, latest>> /\ state \in Words8
        /\ flow \in {"MID", "POST"} /\ (flow = "MID" => v)
    BY <1>7 DEF AHigh, ALow, CHigh, CLow, DHigh, Fetch, ringVars, Words8, Words, ControlInv,
                ControlTypes
  <2>2. /\ Age' = Age /\ ImagSum(at.i_prev, Age + 1)' = ImagSum(at.i_prev, Age + 1)
        /\ RealSum(at.i_prev, Age + 1)' = RealSum(at.i_prev, Age + 1)
    BY <2>1 DEF Age, ImagSum, RealSum
  <2>3. /\ at.i_prev \in Bins /\ Age \in 0 .. BLOCK_NUM - 1
        /\ Add(RealSum(at.i_prev, Age), AC(OldIr, OldIn) \cup BD(OldIr, OldIn))
              = RealSum(at.i_prev, Age + 1)
        /\ Add(ImagSum(at.i_prev, Age), AD(OldIr, OldIn) \cup BC(OldIr, OldIn))
              = ImagSum(at.i_prev, Age + 1)
    BY <1>7, <2>1, OldBin
  <2>4. at.i_prev \in Nat /\ ~(at.i_prev < at.i_prev)
    BY <2>3, HeaderMacAssumption DEF Bins
  <2>5. CASE AHigh(v)
    <3>1. /\ state = "A_H" /\ state' = "A_L" /\ ram' = ram
          /\ alu' = [alu EXCEPT !.bc = {Plus(operand.b, operand.c)}, !.acc_i = rd.i]
      BY <1>7, <2>5 DEF AHigh, Fetch
    <3>2. alu'.acc_i = rd.i /\ rd.i = ram.i[at.i_prev]
      BY <1>1, <1>7, <3>1 DEF AluType, Accumulated
    <3>3. rd'.r = ram.r[at.i_prev]
      BY <1>2, <2>1, <3>1
    <3> QED BY <2>1, <3>1, <3>2, <3>3 DEF Accumulated
  <2>6. CASE ALow(v)
    <3>1. /\ state = "A_L" /\ state' = "C_H" /\ ram' = ram
          /\ alu' = [alu EXCEPT !.new_i = Add(alu.ad, alu.bc), !.acc_r = rd.r]
      BY <1>7, <2>6 DEF ALow, Fetch
    <3>2. /\ alu'.acc_i = alu.acc_i /\ alu'.acc_r = rd.r
          /\ rd.r = ram.r[at.i_prev] /\ alu.acc_i = ram.i[at.i_prev]
      BY <1>1, <1>7, <3>1 DEF AluType, Accumulated
    <3> QED BY <2>1, <3>1, <3>2 DEF Accumulated
  <2>7. CASE CHigh(v)
    <3>1. /\ state = "C_H" /\ state' = "C_L" /\ ram' = ram
          /\ alu' = [alu EXCEPT !.bd = {Minus(operand.b, operand.d)},
                               !.acc_i = Add(alu.acc_i, alu.new_i)]
      BY <1>7, <2>7 DEF CHigh, Fetch
    <3>2. /\ alu'.acc_i = Add(alu.acc_i, alu.new_i) /\ alu'.acc_r = alu.acc_r
          /\ alu.acc_r = ram.r[at.i_prev] /\ alu.acc_i = ram.i[at.i_prev]
          /\ alu.new_i = AD(OldIr, OldIn) \cup BC(OldIr, OldIn)
      BY <1>1, <1>7, <3>1 DEF AluType, Accumulated, Kept
    <3>3. ram.i[at.i_prev] = ImagSum(at.i_prev, Age)
      <4>1. ImagDone = at.i_prev
        BY <1>7, <2>1, <3>1 DEF ImagDone, InBlock
      <4> QED BY <2>1, <2>3, <2>4, <4>1 DEF Stored, InBlock
    <3>4. alu'.acc_i = ImagSum(at.i_prev, Age + 1)
      BY <2>3, <3>2, <3>3
    <3> QED BY <2>1, <2>2, <3>1, <3>2, <3>4 DEF Accumulated
  <2>8. CASE CLow(v)
    <3>1. /\ state = "C_L" /\ state' = "D_H"
          /\ alu' = [alu EXCEPT !.new_r = Add(alu.ac, alu.bd)]
          /\ ram' = [ram EXCEPT !.i[at.i_prev] = alu.acc_i]
      BY <1>7, <2>8 DEF CLow, Fetch
    <3>2. /\ alu'.acc_r = alu.acc_r /\ ram'.r = ram.r /\ alu.acc_r = ram.r[at.i_prev]
      BY <1>1, <1>7, <3>1 DEF AluType, RamType, Accumulated
    <3> QED BY <2>1, <3>1, <3>2 DEF Accumulated
  <2>9. CASE DHigh(v)
    <3>1. /\ state = "D_H" /\ state' = "D_L" /\ alu'.acc_r = Add(alu.acc_r, alu.new_r)
      BY <1>1, <1>7, <2>9 DEF DHigh, Fetch, AluType
    <3>2. /\ alu.acc_r = ram.r[at.i_prev] /\ alu.new_r = AC(OldIr, OldIn) \cup BD(OldIr, OldIn)
      BY <1>7, <3>1 DEF Accumulated, Kept
    <3>3. ram.r[at.i_prev] = RealSum(at.i_prev, Age)
      <4>1. RealDone = at.i_prev
        BY <1>7, <2>1, <3>1 DEF RealDone, InBlock
      <4> QED BY <2>1, <2>3, <2>4, <4>1 DEF Stored, InBlock
    <3> QED BY <2>1, <2>2, <2>3, <3>1, <3>2, <3>3 DEF Accumulated
  <2> QED BY <1>7, <2>5, <2>6, <2>7, <2>8, <2>9
<1>8. CASE (AHigh(v) \/ ALow(v) \/ CHigh(v) \/ CLow(v) \/ DHigh(v)) /\ flow = "PRE"
  <2>1. flow' = "PRE"
    BY <1>8 DEF AHigh, ALow, CHigh, CLow, DHigh, Fetch
  <2> QED BY <1>3, <2>1
<1>9. CASE FirstWord
  BY <1>3, <1>9 DEF FirstWord
<1>10. CASE \/ Listen(c) \/ Begin \/ Clear \/ Run \/ Run2 \/ DLow(v) \/ BHigh(v)
            \/ BlockEnd(v) \/ NextBlock \/ NextBlock2
  <2>1. state' \notin {"A_H", "A_L", "C_H", "C_L", "D_H", "D_L"}
    BY <1>10 DEF Listen, Listens, Begin, Clear, Run, Run2, DLow, BHigh, Fetch, BlockEnd,
                 NextBlock, NextBlock2
  <2> QED BY <1>4, <2>1
<1> QED BY <1>3, <1>5, <1>6, <1>7, <1>8, <1>9, <1>10 DEF Main

(* A step that leaves RAMs and pair alone.                                 *)
LEMMA StoredKept ==
  ASSUME Stored, InBlock \/ state \in {"NEXT_BLOCK2", "EX_A_L"},
         InBlock' \/ state' \in {"NEXT_BLOCK2", "EX_A_L"},
         ram' = ram, Age' = Age, UNCHANGED <<channel, latest>>,
         RealDone' = RealDone, ImagDone' = ImagDone
  PROVE  Stored'
<1>1. state' \notin {"START", "RESET", "RUN", "RUN2", "RUN3"}
  BY DEF InBlock, Words8, Words
<1>2. \A e \in Bins :
        /\ ram.r[e] = RealSum(e, IF e < RealDone THEN Age + 1 ELSE Age)
        /\ ram.i[e] = ImagSum(e, IF e < ImagDone THEN Age + 1 ELSE Age)
  BY DEF Stored
<1>3. \A e \in Bins :
        /\ ram'.r[e] = RealOf(channel', latest'[channel'], e,
                              IF e < RealDone' THEN Age' + 1 ELSE Age')
        /\ ram'.i[e] = ImagOf(channel', latest'[channel'], e,
                              IF e < ImagDone' THEN Age' + 1 ELSE Age')
  BY <1>2 DEF RealSum, ImagSum
<1> QED BY <1>1, <1>3 DEF Stored, RealSum, ImagSum

LEMMA ClearStep ==
  ASSUME ControlInv, DataTypes, Stored, Clear
  PROVE  Stored'
<1>1. /\ ram.r \in [Bins -> Sums] /\ ram.i \in [Bins -> Sums] /\ at.i \in Bins
      /\ BLOCK_SIZE \in Nat
      /\ at \in [i : 0 .. BLOCK_SIZE, i_prev : 0 .. BLOCK_SIZE, ir : Slots, in : Slots,
                 ir_addr : Addresses, in_addr : Addresses]
  BY BinTypes, HeaderMacAssumption DEF Clear, DataTypes, ControlInv, ControlTypes
<1>2. \A e \in Bins : /\ ram'.r[e] = IF e = at.i THEN {} ELSE ram.r[e]
                      /\ ram'.i[e] = IF e = at.i THEN {} ELSE ram.i[e]
  BY <1>1 DEF Clear
<1>3. \A e \in Bins : e < at.i => ram.r[e] = {} /\ ram.i[e] = {}
  BY DEF Clear, Stored
<1>4. CASE at.i = BLOCK_SIZE - 1
  <2>1. \A e \in Bins : e < at.i \/ e = at.i
    BY <1>1, <1>4 DEF Bins
  <2>2. \A e \in Bins : ram'.r[e] = {} /\ ram'.i[e] = {}
    BY <1>2, <1>3, <2>1
  <2>3. state' \in {"RUN", "IDLE"}
    BY <1>4 DEF Clear
  <2> QED BY <2>2, <2>3 DEF Stored, InBlock, Words8, Words
<1>5. CASE at.i # BLOCK_SIZE - 1
  <2>1. at'.i = at.i + 1 /\ state' = state
    BY <1>1, <1>5 DEF Clear
  <2>2. \A e \in Bins : e < at'.i => e < at.i \/ e = at.i
    BY <1>1, <2>1 DEF Bins
  <2>3. \A e \in Bins : e < at'.i => ram'.r[e] = {} /\ ram'.i[e] = {}
    BY <1>2, <1>3, <2>2
  <2> QED BY <2>1, <2>3 DEF Clear, Stored, InBlock, Words8, Words
<1> QED BY <1>4, <1>5

(* The two steps that write a sum.                                         *)
LEMMA WriteStep ==
  ASSUME ControlInv, DataTypes, Accumulated, Stored, NEW v \in BOOLEAN, flow # "PRE",
         CLow(v) \/ DLow(v)
  PROVE  Stored'
<1>1. /\ flow' = flow /\ at' = at /\ UNCHANGED <<channel, latest>>
      /\ state \in {"C_L", "D_L"} /\ state \in Words8
      /\ state' \in {"D_H", "B_H", "B_L"} /\ (state = "C_L" <=> state' = "D_H")
  BY DEF CLow, DLow, Fetch, ringVars, Words8, Words
<1>2. Age' = Age
  BY <1>1 DEF Age
<1>3. /\ at.i_prev \in Bins /\ at.i_prev \in Nat /\ at.i \in Nat /\ at.i = at.i_prev + 1
      /\ BLOCK_SIZE \in Nat /\ ram.r \in [Bins -> Sums] /\ ram.i \in [Bins -> Sums]
  <2>1. at.i_prev \in Bins /\ at.i_prev = at.i - 1 /\ at.i \in 0 .. BLOCK_SIZE
    BY <1>1, BinTypes DEF ControlInv, ControlTypes, Addressed
  <2> QED BY <2>1, HeaderMacAssumption DEF Bins, DataTypes
<1>4. \A e \in Bins : /\ e < at.i <=> (e < at.i_prev \/ e = at.i_prev)
                      /\ ~(at.i_prev < at.i_prev) /\ at.i_prev < at.i
  BY <1>3 DEF Bins
<1>5. /\ RealDone = at.i_prev
      /\ ImagDone = (IF state = "C_L" THEN at.i_prev ELSE at.i)
      /\ RealDone' = (IF state = "C_L" THEN at.i_prev ELSE at.i)
      /\ ImagDone' = at.i
  BY <1>1 DEF RealDone, ImagDone, InBlock, Words8, Words
<1>6. \A e \in Bins :
        /\ ram.r[e] = RealSum(e, IF e < RealDone THEN Age + 1 ELSE Age)
        /\ ram.i[e] = ImagSum(e, IF e < ImagDone THEN Age + 1 ELSE Age)
  BY <1>1 DEF Stored, InBlock
<1>7. \A e \in Bins :
        /\ ram'.r[e] = RealSum(e, IF e < RealDone' THEN Age + 1 ELSE Age)
        /\ ram'.i[e] = ImagSum(e, IF e < ImagDone' THEN Age + 1 ELSE Age)
  <2>1. CASE CLow(v)
    <3>1. /\ state = "C_L" /\ ram'.r = ram.r /\ ram'.i = [ram.i EXCEPT ![at.i_prev] = alu.acc_i]
      BY <2>1 DEF CLow, Fetch, DataTypes
    <3>2. alu.acc_i = ImagSum(at.i_prev, Age + 1)
      BY <3>1 DEF Accumulated
    <3>3. \A e \in Bins : ram'.i[e] = IF e = at.i_prev THEN alu.acc_i ELSE ram.i[e]
      BY <1>3, <3>1
    <3>4. \A e \in Bins : ram'.i[e] = ImagSum(e, IF e < at.i THEN Age + 1 ELSE Age)
      <4> TAKE e \in Bins
      <4>1. CASE e = at.i_prev
        BY <1>4, <3>2, <3>3, <4>1
      <4>2. CASE e # at.i_prev
        BY <1>4, <1>5, <1>6, <3>1, <3>3, <4>2
      <4> QED BY <4>1, <4>2
    <3> QED BY <1>5, <1>6, <3>1, <3>4
  <2>2. CASE DLow(v)
    <3>1. /\ state = "D_L" /\ ram'.i = ram.i /\ ram'.r = [ram.r EXCEPT ![at.i_prev] = alu.acc_r]
      BY <2>2 DEF DLow, Fetch, DataTypes
    <3>2. alu.acc_r = RealSum(at.i_prev, Age + 1)
      BY <3>1 DEF Accumulated
    <3>3. \A e \in Bins : ram'.r[e] = IF e = at.i_prev THEN alu.acc_r ELSE ram.r[e]
      BY <1>3, <3>1
    <3>4. \A e \in Bins : ram'.r[e] = RealSum(e, IF e < at.i THEN Age + 1 ELSE Age)
      <4> TAKE e \in Bins
      <4>1. CASE e = at.i_prev
        BY <1>4, <3>2, <3>3, <4>1
      <4>2. CASE e # at.i_prev
        BY <1>4, <1>5, <1>6, <3>1, <3>3, <4>2
      <4> QED BY <4>1, <4>2
    <3> QED BY <1>5, <1>6, <3>1, <3>4
  <2> QED BY <2>1, <2>2
<1>8. \A e \in Bins :
        /\ ram'.r[e] = RealOf(channel', latest'[channel'], e,
                              IF e < RealDone' THEN Age' + 1 ELSE Age')
        /\ ram'.i[e] = ImagOf(channel', latest'[channel'], e,
                              IF e < ImagDone' THEN Age' + 1 ELSE Age')
  BY <1>1, <1>2, <1>7 DEF RealSum, ImagSum
<1>9. state' \notin {"START", "RESET", "RUN", "RUN2", "RUN3"}
  BY <1>1
<1> QED BY <1>8, <1>9 DEF Stored, RealSum, ImagSum

LEMMA StoredStep ==
  ASSUME ControlInv, DataTypes, Accumulated, Stored, NEW c \in CommandWords,
         NEW v \in Answers, Main(c, v)
  PROVE  Stored'
<1>1. /\ v \in BOOLEAN /\ (v /\ state \in Words8 => flow # "POST")
      /\ BLOCK_SIZE \in Nat /\ BLOCK_NUM \in Nat
      /\ at \in [i : 0 .. BLOCK_SIZE, i_prev : 0 .. BLOCK_SIZE, ir : Slots, in : Slots,
                 ir_addr : Addresses, in_addr : Addresses]
  BY Valid, HeaderMacAssumption DEF ControlInv, ControlTypes
<1>2. CASE Listen(c) \/ Begin
  <2>1. state' = "IDLE" \/ (state' \in {"START", "RESET"} /\ at'.i = 0)
    BY <1>1, <1>2 DEF Listen, Listens, Begin
  <2>2. \A e \in Bins : ~(e < 0)
    BY DEF Bins
  <2> QED BY <2>1, <2>2 DEF Stored, InBlock, Words8, Words
<1>3. CASE Clear
  BY <1>3, ClearStep
<1>4. CASE Run
  <2>1. /\ state' = "RUN2" /\ ram' = ram /\ at'.ir = IrMin(channel) /\ channel' = channel
        /\ \A e \in Bins : ram.r[e] = {} /\ ram.i[e] = {}
    <3>1. at' = [at EXCEPT !.i = 0, !.i_prev = 0, !.in = latest_in_block, !.ir = IrMin(channel)]
      BY <1>4 DEF Run
    <3>2. at'.ir = IrMin(channel)
      <4> HIDE DEF IrMin
      <4> QED BY <1>1, <3>1
    <3> QED BY <1>4, <3>2 DEF Run, sumVars, ringVars, Stored
  <2>2. Age' = 0
    <3>1. IrMin(channel) \in Int
      BY RingTypes DEF ControlInv, ControlTypes
    <3> QED BY <2>1, <3>1 DEF Age
  <2> QED BY <2>1, <2>2 DEF Stored, InBlock, Words8, Words
<1>5. CASE Run2
  <2>1. /\ state = "RUN2" /\ state' = "RUN3" /\ ram' = ram /\ at'.ir = at.ir /\ channel' = channel
    BY <1>1, <1>5 DEF Run2, sumVars, ringVars
  <2>2. Age' = Age
    BY <2>1 DEF Age
  <2> QED BY <2>1, <2>2 DEF Stored, InBlock, Words8, Words
<1>6. CASE FirstWord
  <2>1. /\ state \in {"RUN3", "EX_A_L"} /\ state' = "A_H" /\ flow' = "PRE" /\ at' = at
        /\ UNCHANGED <<ram, channel, latest>> /\ at.i = 0
    BY <1>6 DEF FirstWord, sumVars, ringVars, ControlInv, Addressed
  <2>2. /\ RealDone = 0 /\ ImagDone = 0 /\ RealDone' = 0 /\ ImagDone' = 0 /\ Age' = Age
    BY <2>1 DEF RealDone, ImagDone, InBlock, Words8, Words, Age
  <2>3. CASE state = "EX_A_L"
    BY <2>1, <2>2, <2>3, StoredKept DEF InBlock, Words8, Words
  <2>4. CASE state = "RUN3"
    <3>1. /\ Age = 0 /\ \A e \in Bins : ram.r[e] = {} /\ ram.i[e] = {}
      BY <2>4 DEF Stored
    <3>2. \A e : /\ RealOf(channel', latest'[channel'], e, 0) = {}
                /\ ImagOf(channel', latest'[channel'], e, 0) = {}
      BY NextPair
    <3>3. \A e \in Bins : ~(e < 0)
      BY DEF Bins
    <3>4. \A e \in Bins : /\ ram'.r[e] = RealOf(channel', latest'[channel'], e,
                                                IF e < RealDone' THEN Age' + 1 ELSE Age')
                          /\ ram'.i[e] = ImagOf(channel', latest'[channel'], e,
                                                IF e < ImagDone' THEN Age' + 1 ELSE Age')
      BY <2>1, <2>2, <3>1, <3>2, <3>3
    <3> QED BY <2>1, <3>4 DEF Stored, RealSum, ImagSum
  <2> QED BY <2>1, <2>3, <2>4
<1>7. CASE Wait(v)
  <2>1. UNCHANGED <<state, flow, at, ram, channel, latest>> /\ state \in Words8
    BY <1>7 DEF Wait, fsmVars, ringVars, sumVars, Words8
  <2>2. /\ RealDone' = RealDone /\ ImagDone' = ImagDone /\ Age' = Age
        /\ InBlock /\ InBlock'
    BY <2>1 DEF RealDone, ImagDone, InBlock, Age
  <2> QED BY <2>1, <2>2, StoredKept
<1>8. CASE \/ AHigh(v) \/ ALow(v) \/ CHigh(v) \/ DHigh(v) \/ BHigh(v)
           \/ ((CLow(v) \/ DLow(v)) /\ flow = "PRE")
  <2>1. UNCHANGED <<flow, at, ram, channel, latest>> /\ state \in Words8 /\ state' \in Words8
    BY <1>8 DEF AHigh, ALow, CHigh, CLow, DHigh, DLow, BHigh, Fetch, ringVars, Words8, Words
  <2>2. RealDone' = RealDone /\ ImagDone' = ImagDone
    BY <1>8, <2>1 DEF AHigh, ALow, CHigh, CLow, DHigh, DLow, BHigh, Fetch, RealDone, ImagDone,
                      InBlock
  <2>3. Age' = Age /\ InBlock /\ InBlock'
    BY <2>1 DEF InBlock, Age
  <2> QED BY <2>1, <2>2, <2>3, StoredKept
<1>9. CASE (CLow(v) \/ DLow(v)) /\ flow # "PRE"
  BY <1>1, <1>9, WriteStep
<1>10. CASE BLow(v)
  <2>1. /\ state = "B_L" /\ UNCHANGED <<ram, channel, latest>> /\ at'.ir = at.ir
        /\ state' \in {"A_H", "B_L_CONTINUE"}
        /\ state' = "A_H" => flow' = "POST" /\ at'.i_prev = at.i
        /\ state' = "B_L_CONTINUE" => at'.i = at.i
    BY <1>1, <1>10 DEF BLow, ringVars
  <2>2. /\ RealDone' = RealDone /\ ImagDone' = ImagDone /\ Age' = Age
        /\ InBlock /\ InBlock'
    BY <2>1 DEF RealDone, ImagDone, InBlock, Words8, Words, Age
  <2> QED BY <2>1, <2>2, StoredKept
<1>11. CASE BlockEnd(v)
  <2>1. /\ state = "B_L" /\ state' = "NEXT_BLOCK" /\ UNCHANGED <<ram, channel, latest, at>>
    BY <1>11 DEF BlockEnd, ringVars, sumVars
  <2>2. /\ RealDone' = RealDone /\ ImagDone' = ImagDone /\ Age' = Age
        /\ InBlock /\ InBlock'
    BY <2>1 DEF RealDone, ImagDone, InBlock, Words8, Words, Age
  <2> QED BY <2>1, <2>2, StoredKept
<1>12. CASE Continue
  <2>1. /\ state = "B_L_CONTINUE" /\ state' = "A_H" /\ flow' = "MID" /\ at'.i_prev = at.i
        /\ at'.ir = at.ir /\ UNCHANGED <<ram, channel, latest>>
    BY <1>1, <1>12 DEF Continue, ringVars, sumVars
  <2>2. /\ RealDone' = RealDone /\ ImagDone' = ImagDone /\ Age' = Age
        /\ InBlock /\ InBlock'
    BY <2>1 DEF RealDone, ImagDone, InBlock, Words8, Words, Age
  <2> QED BY <2>1, <2>2, StoredKept
<1>13. CASE NextBlock
  <2>1. CASE at.ir = IrMax(channel)
    <3>1. state' = "IDLE"
      BY <1>13, <2>1 DEF NextBlock
    <3> QED BY <3>1 DEF Stored, InBlock, Words8, Words
  <2>2. CASE at.ir # IrMax(channel)
    <3>1. /\ state = "NEXT_BLOCK" /\ state' = "NEXT_BLOCK2" /\ at'.ir = at.ir + 1
          /\ UNCHANGED <<ram, channel, latest>> /\ at.i = BLOCK_SIZE
      BY <1>1, <1>13, <2>2 DEF NextBlock, ringVars, sumVars, ControlInv, Addressed
    <3>2. Age' = Age + 1
      <4>1. at.ir \in Int /\ IrMin(channel) \in Int
        BY <1>1, RingTypes DEF Slots, ControlInv, ControlTypes
      <4>2. Age' = (at.ir + 1) - IrMin(channel) /\ Age = at.ir - IrMin(channel)
        BY <3>1 DEF Age
      <4> HIDE DEF IrMin
      <4> QED BY <4>1, <4>2
    <3>3. /\ RealDone = BLOCK_SIZE /\ ImagDone = BLOCK_SIZE /\ RealDone' = 0 /\ ImagDone' = 0
      BY <3>1 DEF RealDone, ImagDone, InBlock, Words8, Words
    <3>4. \A e \in Bins : e < BLOCK_SIZE /\ ~(e < 0)
      BY <1>1 DEF Bins
    <3>5. \A e \in Bins : /\ ram.r[e] = RealSum(e, Age + 1)
                          /\ ram.i[e] = ImagSum(e, Age + 1)
      BY <3>1, <3>3, <3>4 DEF Stored, InBlock
    <3>6. \A e \in Bins : /\ ram'.r[e] = RealOf(channel', latest'[channel'], e,
                                                IF e < RealDone' THEN Age' + 1 ELSE Age')
                          /\ ram'.i[e] = ImagOf(channel', latest'[channel'], e,
                                                IF e < ImagDone' THEN Age' + 1 ELSE Age')
      BY <3>1, <3>2, <3>3, <3>4, <3>5 DEF RealSum, ImagSum
    <3> QED BY <3>1, <3>6 DEF Stored, RealSum, ImagSum
  <2> QED BY <2>1, <2>2
<1>14. CASE NextBlock2
  <2>1. /\ state = "NEXT_BLOCK2" /\ state' = "EX_A_L" /\ UNCHANGED <<ram, channel, latest>>
        /\ at'.ir = at.ir
    BY <1>1, <1>14 DEF NextBlock2, ringVars, sumVars
  <2>2. /\ RealDone' = RealDone /\ ImagDone' = ImagDone /\ Age' = Age
    BY <2>1 DEF RealDone, ImagDone, InBlock, Words8, Words, Age
  <2> QED BY <2>1, <2>2, StoredKept
<1> QED BY <1>2, <1>3, <1>4, <1>5, <1>6, <1>7, <1>8, <1>9, <1>10, <1>11, <1>12, <1>13, <1>14
        DEF Main

-----------------------------------------------------------------------------
(* The program                                                             *)

(* The RAMs when the last block is done.                                   *)
LEMMA RunEnd ==
  ASSUME ControlInv, Stored, NextBlock, at.ir = IrMax(channel)
  PROVE  Complete
<1>1. state = "NEXT_BLOCK" /\ at.i = BLOCK_SIZE /\ BLOCK_SIZE \in Nat /\ BLOCK_NUM \in Nat
  BY HeaderMacAssumption DEF NextBlock, ControlInv, Addressed
<1>2. Age + 1 = BLOCK_NUM
  <2>1. IrMin(channel) \in Int /\ IrMax(channel) = IrMin(channel) + BLOCK_NUM - 1
    BY RingTypes DEF ControlInv, ControlTypes
  <2> HIDE DEF IrMin, IrMax
  <2> QED BY <1>1, <2>1 DEF Age
<1>3. RealDone = BLOCK_SIZE /\ ImagDone = BLOCK_SIZE
  BY <1>1 DEF RealDone, ImagDone, InBlock, Words8, Words
<1>4. \A e \in Bins : e < BLOCK_SIZE
  BY <1>1 DEF Bins
<1> QED BY <1>1, <1>2, <1>3, <1>4 DEF Stored, InBlock, Complete

(* A cycle without a command leaves a finished sum alone, and a run that   *)
(* ends in it leaves one.                                                  *)
LEMMA CompleteStep ==
  ASSUME ControlInv, DataTypes, Stored, NEW v \in Answers, Main("none", v),
         state # "RESET", pending # "reset", MacIdle => Complete
  PROVE  /\ state' # "RESET" /\ pending' # "reset" /\ UNCHANGED <<channel, latest>>
         /\ MacIdle' => Complete'
<1>1. "none" \in CommandWords /\ BLOCK_SIZE \in Nat /\ BLOCK_NUM \in Nat
  BY HeaderMacAssumption DEF CommandWords
<1>2. CASE MacIdle
  <2>1. Listen("none")
    BY <1>1, <1>2, IdleStep
  <2>2. /\ UNCHANGED <<state, ram, channel, latest>> /\ pending' = "none" /\ state = "IDLE"
    BY <2>1 DEF Listen, Listens, sumVars
  <2>3. Complete'
    BY <1>2, <2>2 DEF Complete, RealSum, ImagSum
  <2> QED BY <2>2, <2>3
<1>3. CASE state = "IDLE" /\ pending # "none"
  <2>1. Begin
    BY <1>3 DEF Main, Listen, Listens, Clear, Run, Run2, FirstWord, Wait, AHigh, ALow, CHigh, CLow,
         DHigh, DLow, BHigh, Fetch, BLow, BlockEnd, Continue, NextBlock, NextBlock2, Words
  <2> QED BY <1>3, <2>1 DEF Begin, MacIdle, ringVars
<1>4. CASE state # "IDLE"
  <2>1. pending' = "none" /\ pending = "none"
    BY <1>1, <1>4, NothingPending DEF ControlInv, Selected
  <2>2. UNCHANGED <<channel, latest>> /\ state' # "RESET"
    BY <1>4 DEF Main, Listen, Listens, Begin, Clear, Run, Run2, FirstWord, Wait, AHigh, ALow, CHigh,
         CLow, DHigh, DLow, BHigh, Fetch, BLow, BlockEnd, Continue, NextBlock, NextBlock2,
         ringVars, fsmVars
  <2>3. ASSUME state' = "IDLE"
        PROVE  Complete'
    <3>1. NextBlock /\ at.ir = IrMax(channel)
      BY <1>4, <2>3 DEF Main, Listen, Listens, Begin, Clear, Run, Run2, FirstWord, Wait, AHigh,
           ALow, CHigh, CLow, DHigh, DLow, BHigh, Fetch, BLow, BlockEnd, Continue, NextBlock, NextBlock2,
           fsmVars
    <3>2. Complete /\ ram' = ram
      BY <3>1, RunEnd DEF NextBlock, sumVars
    <3> QED BY <2>2, <3>2 DEF Complete, RealSum, ImagSum
  <2> QED BY <2>1, <2>2, <2>3 DEF MacIdle
<1> QED BY <1>2, <1>3, <1>4 DEF MacIdle

(* The way of a word from the RAM to the program.                          *)
LEMMA WordRead ==
  ASSUME ControlInv, Reading, NEW v \in Answers, Main("none", v), RamOutput(v),
         Reply("none", access < 2, ReadAddress), pc = "read", access < 5,
         access' = access + 1, UNCHANGED <<index, channel, latest>>
  PROVE  /\ access' = 2 => output_addr' = index'
         /\ access' = 3 =>
              IF index' < BLOCK_SIZE THEN read_state' = "ARRAY_R" /\ rd'.r = Result'
              ELSE read_state' = "ARRAY_I" /\ rd'.i = Result'
         /\ access' = 4 => output_value' = Result'
         /\ access' = 5 => readdata' = Result'
<1>1. /\ access \in 0 .. 5 /\ index \in 0 .. 2 * BLOCK_SIZE - 1 /\ BLOCK_SIZE \in Nat
      /\ Replying /\ Complete
  BY HeaderMacAssumption DEF ControlInv, ControlTypes, Polling, Reading
<1>2. Result' = Result
  BY DEF Result, RealSum, ImagSum
<1>3. ReadAddress = index
  BY DEF ReadAddress
<1>4. CASE access = 0
  BY <1>4
<1>5. CASE access = 1
  <2>1. read_state = "ADDRESS"
    BY <1>1, <1>5 DEF Replying
  <2>2. output_addr' = index
    BY <1>3, <2>1 DEF Reply
  <2> QED BY <1>5, <2>2
<1>6. CASE access = 2
  <2>1. read_state = "ARRAY" /\ output_addr = index /\ access' = 3
    BY <1>1, <1>6 DEF Replying, Reading
  <2>2. output_addr # ADDRESS_STATE
    BY <1>1, <2>1 DEF ADDRESS_STATE
  <2>3. CASE index < BLOCK_SIZE
    <3>1. ReadsR(output_addr) /\ ~ReadsI(output_addr) /\ index \in Bins
      BY <1>1, <2>1, <2>3 DEF ReadsR, ReadsI, Bins
    <3>2. read_state' = "ARRAY_R"
      BY <2>1, <2>2, <3>1 DEF Reply
    <3>3. rd'.r = ram.r[index]
      BY <2>1, <3>1 DEF RamOutput
    <3>4. ram.r[index] = Result
      BY <1>1, <2>3, <3>1 DEF Complete, Result
    <3> QED BY <1>2, <2>1, <2>3, <3>2, <3>3, <3>4
  <2>4. CASE ~(index < BLOCK_SIZE)
    <3>1. ReadsI(output_addr) /\ ~ReadsR(output_addr) /\ index - BLOCK_SIZE \in Bins
      BY <1>1, <2>1, <2>4 DEF ReadsR, ReadsI, Bins, ADDRESS_STATE
    <3>2. read_state' = "ARRAY_I"
      BY <2>1, <2>2, <3>1 DEF Reply
    <3>3. rd'.i = ram.i[index - BLOCK_SIZE]
      BY <2>1, <3>1 DEF RamOutput
    <3>4. ram.i[index - BLOCK_SIZE] = Result
      BY <1>1, <2>4, <3>1 DEF Complete, Result
    <3> QED BY <1>2, <2>1, <2>4, <3>2, <3>3, <3>4
  <2> QED BY <2>3, <2>4
<1>7. CASE access = 3
  <2>1. /\ \/ read_state = "ARRAY_R" /\ rd.r = Result
           \/ read_state = "ARRAY_I" /\ rd.i = Result
        /\ access' = 4
    <3>1. IF index < BLOCK_SIZE THEN read_state = "ARRAY_R" /\ rd.r = Result
          ELSE read_state = "ARRAY_I" /\ rd.i = Result
      BY <1>7 DEF Reading
    <3> QED BY <1>7, <3>1
  <2>2. output_value' = Result
    BY <2>1 DEF Reply
  <2> QED BY <1>2, <2>1, <2>2
<1>8. CASE access = 4
  <2>1. read_state = "OUTPUT" /\ output_value = Result /\ access' = 5
    BY <1>1, <1>8 DEF Replying, Reading
  <2>2. readdata' = Result
    BY <2>1 DEF Reply
  <2> QED BY <1>2, <2>1, <2>2
<1> QED BY <1>1, <1>4, <1>5, <1>6, <1>7, <1>8

LEMMA ReadingStep ==
  ASSUME ControlInv, DataTypes, Stored, Reading, Next
  PROVE  Reading'
<1>1. access \in 0 .. 5 /\ side \in Channels /\ "none" \in CommandWords
  BY DEF ControlInv, ControlTypes, CommandWords
<1>2. CASE pc' \notin {"start", "poll", "read"}
  BY <1>2 DEF Reading
(* A cycle in which nothing is written.                                    *)
<1>3. ASSUME \E v \in Answers : Main("none", v), pc \in {"start", "poll", "read"},
             pc' = pc \/ (pc = "poll" /\ pc' = "read" /\ MacIdle), side' = side,
             pc' = "read" => access' < 2
      PROVE  Reading'
  <2>1. PICK v \in Answers : Main("none", v)
    BY <1>3
  <2>2. /\ state # "RESET" /\ pending # "reset"
    BY <1>3 DEF Reading, ControlInv, Polling, MacIdle
  <2>3. CASE pc = "start"
    <3>1. MacIdle
      BY <2>3 DEF ControlInv, Polling
    <3>2. channel' = channel
      BY <1>1, <2>1, <3>1, IdleStep DEF Listen
    <3> QED BY <1>3, <2>3, <3>2 DEF Reading
  <2>4. CASE pc # "start"
    <3>1. MacIdle => Complete
      BY <1>3, <2>4 DEF Reading
    <3>2. /\ state' # "RESET" /\ pending' # "reset" /\ UNCHANGED <<channel, latest>>
          /\ MacIdle' => Complete'
      BY <2>1, <2>2, <3>1, CompleteStep
    <3>3. pc' = "read" => MacIdle'
      <4>1. pc' = "read" => MacIdle
        BY <1>3 DEF ControlInv, Polling
      <4>2. MacIdle => MacIdle'
        BY <1>1, <2>1, IdleStep
      <4> QED BY <4>1, <4>2
    <3>4. access' \in 0 .. 5
      BY ProgramTypes
    <3>5. /\ pc' = "read" => access' \notin {2, 3, 4, 5}
      BY <1>3, <3>4
    <3>6. channel = side
      BY <1>3 DEF Reading
    <3> QED BY <1>3, <2>4, <3>2, <3>3, <3>5, <3>6 DEF Reading
  <2> QED BY <2>3, <2>4
<1>4. CASE WriteReset \/ Settle \/ StoreBlocks
  BY <1>2, <1>4 DEF WriteReset, Write, Settle, StoreBlocks
<1>5. CASE WriteChannel
  <2> DEFINE c == IF side = 1 THEN "left" ELSE "right"
  <2>1. /\ pc = "set" /\ pc' = "start" /\ side' = side /\ Clock(c, FALSE, 0)
    BY <1>5 DEF WriteChannel, Write
  <2>2. c \in CommandWords
    BY DEF CommandWords
  <2> HIDE DEF c
  <2>3. PICK v \in Answers : Main(c, v)
    BY <2>1 DEF Clock
  <2>4. Listen(c)
    <3>1. MacIdle
      BY <2>1 DEF ControlInv, Polling
    <3> QED BY <2>2, <2>3, <3>1, IdleStep
  <2>5. channel' = side
    BY <1>1, <2>4 DEF Listen, c, Channels
  <2> QED BY <2>1, <2>5 DEF Reading
<1>6. CASE WriteStart
  <2>1. /\ pc = "start" /\ pc' = "poll" /\ side' = side /\ Clock("start", FALSE, 0)
        /\ "start" \in CommandWords
    BY <1>6 DEF WriteStart, Write, CommandWords
  <2>2. PICK v \in Answers : Main("start", v)
    BY <2>1 DEF Clock
  <2>3. MacIdle
    BY <2>1 DEF ControlInv, Polling
  <2>4. Listen("start")
    BY <2>1, <2>2, <2>3, IdleStep
  <2>5. channel' = channel /\ pending' = "start" /\ state' = "IDLE"
    BY <2>3, <2>4 DEF Listen, MacIdle
  <2> QED BY <2>1, <2>5 DEF Reading, MacIdle
<1>7. CASE Pause
  <2>1. pc' = pc /\ side' = side /\ access' = 0 /\ \E v \in Answers : Main("none", v)
    BY <1>7 DEF Pause, programVars, Clock
  <2> QED BY <1>2, <1>3, <2>1
<1>8. CASE ReadCycle
  <2>1. /\ pc' = pc /\ side' = side /\ index' = index /\ access < 5 /\ access' = access + 1
        /\ Clock("none", access < 2, ReadAddress) /\ pc \in {"poll", "read"}
    BY <1>8 DEF ReadCycle
  <2>2. CASE pc = "poll"
    <3>1. PICK v \in Answers : Main("none", v)
      BY <2>1 DEF Clock
    <3>2. /\ state' # "RESET" /\ pending' # "reset" /\ UNCHANGED <<channel, latest>>
          /\ MacIdle' => Complete'
      <4>1. state # "RESET" /\ pending # "reset" /\ (MacIdle => Complete)
        BY <2>2 DEF Reading
      <4> QED BY <3>1, <4>1, CompleteStep
    <3> QED BY <2>1, <2>2, <3>2 DEF Reading
  <2>3. CASE pc = "read"
    <3>1. PICK v \in Answers :
            Main("none", v) /\ RamOutput(v) /\ Reply("none", access < 2, ReadAddress)
      BY <2>1 DEF Clock
    <3>2. MacIdle /\ Complete
      BY <2>3 DEF ControlInv, Polling, Reading
    <3>3. UNCHANGED <<channel, latest>> /\ MacIdle' /\ Complete'
      <4>1. state # "RESET" /\ pending # "reset"
        BY <3>2 DEF MacIdle
      <4>2. MacIdle'
        BY <1>1, <3>1, <3>2, IdleStep
      <4> QED BY <3>1, <3>2, <4>1, <4>2, CompleteStep
    <3>4. /\ access' = 2 => output_addr' = index'
          /\ access' = 3 =>
               IF index' < BLOCK_SIZE THEN read_state' = "ARRAY_R" /\ rd'.r = Result'
               ELSE read_state' = "ARRAY_I" /\ rd'.i = Result'
          /\ access' = 4 => output_value' = Result'
          /\ access' = 5 => readdata' = Result'
      BY <2>1, <2>3, <3>1, <3>3, WordRead
    <3> QED BY <2>1, <2>3, <3>3, <3>4 DEF Reading
  <2> QED BY <2>1, <2>2, <2>3
<1>9. CASE PollDone
  <2>1. /\ pc = "poll" /\ side' = side /\ access = 5 /\ access' = 0
        /\ \E v \in Answers : Main("none", v)
        /\ pc' = pc \/ (readdata = {"idle"} /\ pc' = "read")
    BY <1>9 DEF PollDone, Clock
  <2>2. readdata = {"idle"} => MacIdle
    BY <2>1 DEF ControlInv, Polling
  <2> QED BY <1>3, <2>1, <2>2
<1>10. CASE WordDone
  <2>1. /\ pc = "read" /\ access' = 0 /\ \E v \in Answers : Main("none", v)
        /\ pc' \in {"set", "store"} \/ (pc' = pc /\ side' = side)
    BY <1>10 DEF WordDone, Clock
  <2> QED BY <1>2, <1>3, <2>1
<1> QED BY <1>4, <1>5, <1>6, <1>7, <1>8, <1>9, <1>10 DEF Next, Program

LEMMA SumInit == Init => SumInv
<1> SUFFICES ASSUME Init PROVE SumInv
  OBVIOUS
<1>1. ControlInv /\ DataTypes
  BY ControlInit, DataInit
<1>2. state = "IDLE" /\ flow = "PRE" /\ ~bus.read /\ flight = NoFlight /\ pc = "reset"
  BY DEF Init
<1>3. PipelineInv
  BY <1>2 DEF PipelineInv, Asked, Fetched, Kept, Accumulated, Stored, InBlock, Words8, Words
<1>4. Reading
  BY <1>2 DEF Reading
<1> QED BY <1>1, <1>3, <1>4 DEF SumInv

LEMMA SumStep == SumInv /\ [Next]_vars => SumInv'
<1> SUFFICES ASSUME SumInv, [Next]_vars PROVE SumInv'
  OBVIOUS
<1>1. ControlInv' /\ DataTypes'
  BY ControlStep, DataStep DEF SumInv
<1>2. CASE Next
  <2>1. PICK c \in CommandWords, v \in Answers : Main(c, v) /\ RamOutput(v) /\ Sram(v)
    BY <1>2, StepPolling DEF SumInv
  <2>2. Asked' /\ Fetched' /\ Kept' /\ Accumulated' /\ Stored'
    BY <2>1, AskedStep, FetchedStep, KeptStep, AccumulatedStep, StoredStep
       DEF SumInv, PipelineInv
  <2>3. Reading'
    BY <1>2, ReadingStep DEF SumInv, PipelineInv
  <2> QED BY <1>1, <2>2, <2>3 DEF SumInv, PipelineInv
<1>3. CASE UNCHANGED vars
  <2>1. UNCHANGED <<state, flow, pending, channel, latest, at, operand, alu, ram, rd, bus,
                    read_state, output_addr, output_value, readdata, flight, pc, side,
                    access, index>>
    BY <1>3 DEF vars, fsmVars, ringVars, sumVars, replyVars, programVars
  <2>2. Asked' /\ Fetched' /\ Kept'
    BY <2>1 DEF SumInv, PipelineInv, Asked, Wanted, Fetched, Kept, OldIr, OldIn
  <2>3. Accumulated' /\ Stored'
    BY <2>1 DEF SumInv, PipelineInv, Accumulated, Stored, RealSum, ImagSum, Age, InBlock,
                RealDone, ImagDone
  <2>4. Reading'
    BY <2>1 DEF SumInv, Reading, MacIdle, Complete, Result, RealSum, ImagSum
  <2> QED BY <1>1, <2>2, <2>3, <2>4 DEF SumInv, PipelineInv
<1> QED BY <1>2, <1>3

LEMMA SumInvHolds == Spec => []SumInv
  BY SumInit, SumStep, PTL DEF Spec

LEMMA SumPairs ==
  ASSUME NEW c \in Channels, NEW b \in InMin(c) .. InMax(c)
  PROVE  Commands!Sum(c, b) = { PairOf(c, b, k) : k \in 0 .. BLOCK_NUM - 1 }
<1> DEFINE mem == [s \in Slots |-> s]
           F(k) == [in |-> mem[Commands!Older(c, b, k)], ir |-> mem[Commands!FirstIr(c) + k]]
<1>1. Commands!FirstIr(c) = IrMin(c)
  BY DEF Commands!FirstIr, IrMin
<1>2. \A k \in 0 .. BLOCK_NUM - 1 : F(k) = PairOf(c, b, k)
  <2> TAKE k \in 0 .. BLOCK_NUM - 1
  <2>1. Commands!Older(c, b, k) \in Slots /\ IrMin(c) + k \in Slots
    BY PairTypes
  <2> QED BY <1>1, <2>1 DEF PairOf
<1>3. Commands!Sum(c, b) = { F(k) : k \in 0 .. BLOCK_NUM - 1 }
  BY DEF Commands!Sum
<1> HIDE DEF F
<1> QED BY <1>2, <1>3

(* The data that the program takes are the finished sums of the channel it *)
(* started, for any latency of the SRAM and any pauses.                    *)
THEOREM SumsRead == Spec => []ReadsSums
<1>1. SumInv => ReadsSums
  <2> SUFFICES ASSUME SumInv, pc = "read", access = 5
               PROVE  readdata = UNION { IF index < BLOCK_SIZE THEN Real(p, index)
                                         ELSE Imag(p, index - BLOCK_SIZE) :
                                         p \in Commands!Sum(side, latest[side]) }
    BY DEF ReadsSums
  <2>1. readdata = Result /\ channel = side
    BY DEF SumInv, Reading
  <2>2. side \in Channels /\ latest[side] \in InMin(side) .. InMax(side)
    BY DEF SumInv, ControlInv, ControlTypes
  <2>3. Commands!Sum(side, latest[side])
          = { PairOf(side, latest[side], k) : k \in 0 .. BLOCK_NUM - 1 }
    BY <2>2, SumPairs
  <2>4. CASE index < BLOCK_SIZE
    <3>1. readdata = UNION { Real(PairOf(side, latest[side], k), index) : k \in 0 .. BLOCK_NUM - 1 }
      BY <2>1, <2>4 DEF Result, RealSum, RealOf
    <3> QED BY <2>3, <2>4, <3>1, Zenon
  <2>5. CASE ~(index < BLOCK_SIZE)
    <3>1. readdata = UNION { Imag(PairOf(side, latest[side], k), index - BLOCK_SIZE) :
                             k \in 0 .. BLOCK_NUM - 1 }
      BY <2>1, <2>5 DEF Result, ImagSum, ImagOf
    <3> QED BY <2>3, <2>5, <3>1, Zenon
  <2> QED BY <2>4, <2>5
<1> QED BY <1>1, SumInvHolds, PTL

-----------------------------------------------------------------------------
(* Refinement                                                              *)

(* What RAMs with content m stand for, see RamPairs.                       *)
PairsIn(m) ==
  LET P == { p \in BlockPairs : \A e \in Bins : Real(p, e) \subseteq m.r[e] }
  IN IF \A e \in Bins : /\ m.r[e] = UNION { Real(p, e) : p \in P }
                        /\ m.i[e] = UNION { Imag(p, e) : p \in P }
     THEN P ELSE {"damaged"}

Held == IF Activity = "IDLE" THEN RamPairs ELSE {}

(* A pair of blocks is known by its product of real parts.                 *)
LEMMA KnownPair ==
  ASSUME NEW p \in BlockPairs, NEW q \in BlockPairs, NEW e \in Bins,
         Plus(Value(p.ir, e, 0), Value(p.in, e, 0)) \in Real(q, e)
  PROVE  p = q
<1>1. p.ir \in Slots /\ p.in \in Slots /\ q.ir \in Slots /\ q.in \in Slots
  BY HeaderMacAssumption DEF BlockPairs, Slots
<1>2. Plus(Value(p.ir, e, 0), Value(p.in, e, 0)) = Plus(Value(q.ir, e, 0), Value(q.in, e, 0))
  BY DEF Real, Plus, Minus
<1>3. Value(p.ir, e, 0) = Value(q.ir, e, 0) /\ Value(p.in, e, 0) = Value(q.in, e, 0)
  BY <1>2 DEF Plus
<1>4. \A a, b \in Slots : Value(a, e, 0) = Value(b, e, 0) => a = b
  <2> SUFFICES ASSUME NEW a \in Slots, NEW b \in Slots, Value(a, e, 0) = Value(b, e, 0)
               PROVE  a = b
    OBVIOUS
  <2>1. Base(a) + 4 * e + 0 = Base(b) + 4 * e + 0
    BY DEF Value
  <2>2. e \in Nat
    BY HeaderMacAssumption DEF Bins
  <2> QED BY <2>1, <2>2, DistinctBases
<1>5. p.ir = q.ir /\ p.in = q.in
  BY <1>1, <1>3, <1>4
<1> QED BY <1>5 DEF BlockPairs

LEMMA HeldPairs ==
  ASSUME NEW m, NEW c \in Channels, NEW b \in InMin(c) .. InMax(c), NEW n \in 0 .. BLOCK_NUM,
         \A e \in Bins : m.r[e] = RealOf(c, b, e, n) /\ m.i[e] = ImagOf(c, b, e, n)
  PROVE  PairsIn(m) = { PairOf(c, b, k) : k \in 0 .. n - 1 }
<1> DEFINE S == { PairOf(c, b, k) : k \in 0 .. n - 1 }
           P == { p \in BlockPairs : \A e \in Bins : Real(p, e) \subseteq m.r[e] }
<1>1. n \in Nat /\ 0 .. n - 1 \subseteq 0 .. BLOCK_NUM - 1 /\ 0 \in Bins
  BY HeaderMacAssumption DEF Bins
<1>2. \A k \in 0 .. n - 1 : PairOf(c, b, k) \in BlockPairs
  <2> TAKE k \in 0 .. n - 1
  <2>1. k \in 0 .. BLOCK_NUM - 1
    BY <1>1
  <2>2. IrMin(c) + k \in 0 .. 2 * BLOCK_NUM - 1
    BY <2>1, HeaderMacAssumption DEF IrMin, Channels
  <2>3. InMin(c) .. InMax(c) \subseteq 2 * BLOCK_NUM .. 4 * BLOCK_NUM - 1
    BY HeaderMacAssumption DEF InMin, InMax, Channels
  <2>4. Commands!Older(c, b, k) \in InMin(c) .. InMax(c)
    BY <2>1, OlderBlocks
  <2> QED BY <2>2, <2>3, <2>4 DEF PairOf, BlockPairs
<1>3. \A e \in Bins : /\ m.r[e] = UNION { Real(p, e) : p \in S }
                      /\ m.i[e] = UNION { Imag(p, e) : p \in S }
  <2> TAKE e \in Bins
  <2>1. \A x : /\ x \in RealOf(c, b, e, n)
                  <=> \E k \in 0 .. n - 1 : x \in Real(PairOf(c, b, k), e)
               /\ x \in ImagOf(c, b, e, n)
                  <=> \E k \in 0 .. n - 1 : x \in Imag(PairOf(c, b, k), e)
    BY DEF RealOf, ImagOf
  <2>2. \A x : /\ x \in UNION { Real(p, e) : p \in S } <=> \E p \in S : x \in Real(p, e)
               /\ x \in UNION { Imag(p, e) : p \in S } <=> \E p \in S : x \in Imag(p, e)
    <3> HIDE DEF S
    <3> QED OBVIOUS
  <2>3. \A x : /\ (\E p \in S : x \in Real(p, e))
                  <=> \E k \in 0 .. n - 1 : x \in Real(PairOf(c, b, k), e)
               /\ (\E p \in S : x \in Imag(p, e))
                  <=> \E k \in 0 .. n - 1 : x \in Imag(PairOf(c, b, k), e)
    OBVIOUS
  <2>4. /\ RealOf(c, b, e, n) = UNION { Real(p, e) : p \in S }
        /\ ImagOf(c, b, e, n) = UNION { Imag(p, e) : p \in S }
    <3> HIDE DEF S
    <3> QED BY <2>1, <2>2, <2>3
  <2> QED BY <2>4
<1>4. S \subseteq P
  <2> SUFFICES ASSUME NEW p \in S PROVE p \in P
    OBVIOUS
  <2>1. p \in BlockPairs
    BY <1>2
  <2>2. \A e \in Bins : Real(p, e) \subseteq m.r[e]
    <3> HIDE DEF S
    <3> QED BY <1>3
  <2> QED BY <2>1, <2>2
<1>5. P \subseteq S
  <2> SUFFICES ASSUME NEW p \in P PROVE p \in S
    OBVIOUS
  <2>1. Plus(Value(p.ir, 0, 0), Value(p.in, 0, 0)) \in m.r[0]
    <3>1. Real(p, 0) \subseteq m.r[0]
      BY <1>1
    <3>2. Plus(Value(p.ir, 0, 0), Value(p.in, 0, 0)) \in Real(p, 0)
      BY DEF Real
    <3> QED BY <3>1, <3>2
  <2>2. PICK q \in S : Plus(Value(p.ir, 0, 0), Value(p.in, 0, 0)) \in Real(q, 0)
    <3> HIDE DEF S
    <3> QED BY <1>1, <1>3, <2>1
  <2>3. q \in BlockPairs /\ p \in BlockPairs
    BY <1>2
  <2>4. p = q
    <3> HIDE DEF S, P
    <3> QED BY <1>1, <2>2, <2>3, KnownPair
  <2> QED BY <2>4
<1>6. P = S
  BY <1>4, <1>5
<1> HIDE DEF S, P
<1>7. PairsIn(m) = P
  <2>1. PairsIn(m) = IF \A e \in Bins : /\ m.r[e] = UNION { Real(p, e) : p \in P }
                                        /\ m.i[e] = UNION { Imag(p, e) : p \in P }
                     THEN P ELSE {"damaged"}
    BY DEF PairsIn, P
  <2> QED BY <1>3, <1>6, <2>1
<1> QED BY <1>6, <1>7 DEF S

LEMMA EmptyRams ==
  ASSUME NEW m, \A e \in Bins : m.r[e] = {} /\ m.i[e] = {}
  PROVE  PairsIn(m) = {}
<1>1. 1 \in Channels /\ InMax(1) - 1 \in InMin(1) .. InMax(1) /\ 0 \in 0 .. BLOCK_NUM
  BY RingTypes, HeaderMacAssumption DEF Channels
<1>2. \A e \in Bins : /\ m.r[e] = RealOf(1, InMax(1) - 1, e, 0)
                      /\ m.i[e] = ImagOf(1, InMax(1) - 1, e, 0)
  BY NextPair
<1>3. PairsIn(m) = { PairOf(1, InMax(1) - 1, k) : k \in 0 .. 0 - 1 }
  BY <1>1, <1>2, HeldPairs
<1>4. 0 .. 0 - 1 = {}
  OBVIOUS
<1> QED BY <1>3, <1>4

LEMMA Mapping ==
  /\ UNCHANGED Commands!commandVars <=> UNCHANGED <<Activity, channel, latest, Held>>
  /\ Commands!CommandInit <=>
       Activity = "IDLE" /\ channel = 1 /\ latest = Commands!AfterReset /\ Held = {}
  /\ Commands!SetChannel <=>
       Activity = "IDLE" /\ channel' \in {1, 2} /\ UNCHANGED <<Activity, latest, Held>>
  /\ Commands!Start <=>
       /\ Activity = "IDLE" /\ Activity' = "RUN"
       /\ latest' = [latest EXCEPT ![channel] =
                       IF @ = Commands!LastIn(channel) THEN Commands!FirstIn(channel) ELSE @ + 1]
       /\ Held' = {} /\ UNCHANGED channel
  /\ Commands!Reset <=>
       /\ Activity = "IDLE" /\ Activity' = "RESET" /\ latest' = Commands!AfterReset
       /\ Held' = {} /\ UNCHANGED channel
  /\ Commands!RunDone <=>
       /\ Activity = "RUN" /\ Activity' = "IDLE"
       /\ Held' = Commands!Sum(channel, latest[channel]) /\ UNCHANGED <<channel, latest>>
  /\ Commands!ResetDone <=>
       Activity = "RESET" /\ Activity' = "IDLE" /\ UNCHANGED <<channel, latest, Held>>
  BY DEF Held, Commands!commandVars, Commands!CommandInit, Commands!SetChannel, Commands!Start,
         Commands!Reset, Commands!RunDone, Commands!ResetDone

LEMMA HeldRams == RamPairs = PairsIn(ram) /\ RamPairs' = PairsIn(ram')
  BY DEF RamPairs, PairsIn

LEMMA ResetBlocks == ResetLatest = Commands!AfterReset
  BY DEF ResetLatest, Commands!AfterReset, Channels, InMax, Commands!LastIn

LEMMA CommandsInit == Init => Commands!CommandInit
<1> SUFFICES ASSUME Init PROVE Commands!CommandInit
  OBVIOUS
<1>1. Activity = "IDLE" /\ channel = 1 /\ latest = Commands!AfterReset
  BY ResetBlocks DEF Init, Activity
<1>2. \A e \in Bins : ram.r[e] = {} /\ ram.i[e] = {}
  BY DEF Init
<1>3. Held = {}
  BY <1>2, EmptyRams, HeldRams DEF Held
<1> QED BY <1>1, <1>3, Mapping

LEMMA CommandsStep == SumInv /\ [Next]_vars => [Commands!CommandNext]_(Commands!commandVars)
<1> SUFFICES ASSUME SumInv, [Next]_vars
             PROVE  Commands!CommandNext \/ UNCHANGED Commands!commandVars
  OBVIOUS
(* A step that neither begins nor ends anything.                           *)
<1>1. ASSUME Activity' = Activity, UNCHANGED <<channel, latest>>, Activity # "IDLE" \/ ram' = ram
      PROVE  UNCHANGED Commands!commandVars
  <2>1. Held' = Held
    BY <1>1, HeldRams DEF Held
  <2> QED BY <1>1, <2>1, Mapping
<1>2. CASE Next
  <2>1. PICK c \in CommandWords, v \in Answers : Main(c, v)
    BY <1>2, StepPolling DEF SumInv
  <2>2. CASE Listen(c)
    <3>1. /\ state = "IDLE" /\ pending = "none" /\ state' = "IDLE" /\ ram' = ram
          /\ Activity = "IDLE" /\ channel \in Channels
          /\ pending' = IF c \in {"reset", "start"} THEN c ELSE "none"
      BY <2>2 DEF Listen, Listens, sumVars, Activity, SumInv, ControlInv, ControlTypes
    <3>2. CASE c = "none"
      <4>1. pending' = "none" /\ UNCHANGED <<channel, latest>>
        BY <2>2, <3>1, <3>2 DEF Listen
      <4>2. Activity' = "IDLE"
        BY <3>1, <4>1 DEF Activity
      <4> QED BY <1>1, <3>1, <4>1, <4>2
    <3>3. CASE c \in {"left", "right"}
      <4>1. pending' = "none" /\ channel' \in {1, 2} /\ latest' = latest
        BY <2>2, <3>1, <3>3 DEF Listen
      <4>2. Activity' = "IDLE"
        BY <3>1, <4>1 DEF Activity
      <4>3. Held' = Held
        BY <3>1, <4>2, HeldRams DEF Held
      <4> QED BY <3>1, <4>1, <4>2, <4>3, Mapping DEF Commands!CommandNext
    <3>4. CASE c = "start"
      <4>1. /\ pending' = "start" /\ channel' = channel
            /\ latest' = [latest EXCEPT ![channel] = NextIn(channel, @)]
        BY <2>2, <3>1, <3>4 DEF Listen
      <4>2. Activity' = "RUN"
        BY <3>1, <4>1 DEF Activity
      <4>3. NextIn(channel, latest[channel])
              = IF latest[channel] = Commands!LastIn(channel) THEN Commands!FirstIn(channel)
                ELSE latest[channel] + 1
        BY DEF NextIn, InMax, InMin, Commands!LastIn, Commands!FirstIn
      <4>4. Held' = {}
        BY <4>2 DEF Held
      <4> QED BY <3>1, <4>1, <4>2, <4>3, <4>4, Mapping DEF Commands!CommandNext
    <3>5. CASE c = "reset"
      <4>1. /\ pending' = "reset" /\ channel' = channel /\ latest' = Commands!AfterReset
        BY <2>2, <3>1, <3>5, ResetBlocks DEF Listen
      <4>2. Activity' = "RESET"
        BY <3>1, <4>1 DEF Activity
      <4>3. Held' = {}
        BY <4>2 DEF Held
      <4> QED BY <3>1, <4>1, <4>2, <4>3, Mapping DEF Commands!CommandNext
    <3> QED BY <3>2, <3>3, <3>4, <3>5 DEF CommandWords
  <2>3. CASE Begin
    <3>1. /\ state = "IDLE" /\ pending \in {"reset", "start"} /\ pending' = "none"
          /\ state' = (IF pending = "reset" THEN "RESET" ELSE "START")
          /\ UNCHANGED <<channel, latest, ram>>
      BY <2>3 DEF Begin, ringVars, sumVars, SumInv, ControlInv, ControlTypes
    <3>2. Activity' = Activity
      BY <3>1 DEF Activity
    <3> QED BY <1>1, <3>1, <3>2
  <2>4. CASE Clear
    <3>1. /\ state \in {"START", "RESET"} /\ pending = "none" /\ pending' = "none"
          /\ UNCHANGED <<channel, latest>>
      BY <2>4 DEF Clear, ringVars, SumInv, ControlInv, Selected
    <3>2. CASE state = "RESET" /\ at.i = BLOCK_SIZE - 1
      <4>1. state' = "IDLE"
        BY <2>4, <3>2 DEF Clear
      <4>2. Activity = "RESET" /\ Activity' = "IDLE"
        BY <3>1, <3>2, <4>1 DEF Activity
      <4>3. \A e \in Bins : ram'.r[e] = {} /\ ram'.i[e] = {}
        <5>1. \A e \in Bins : e < at.i \/ e = at.i
          BY <3>2, HeaderMacAssumption DEF Bins
        <5>2. \A e \in Bins : e < at.i => ram.r[e] = {} /\ ram.i[e] = {}
          BY <3>2 DEF SumInv, PipelineInv, Stored
        <5>3. /\ ram.r \in [Bins -> Sums] /\ ram.i \in [Bins -> Sums]
          BY DEF SumInv, DataTypes
        <5>4. \A e \in Bins : /\ ram'.r[e] = IF e = at.i THEN {} ELSE ram.r[e]
                              /\ ram'.i[e] = IF e = at.i THEN {} ELSE ram.i[e]
          BY <2>4, <5>3 DEF Clear
        <5> QED BY <5>1, <5>2, <5>4
      <4>4. Held = {} /\ Held' = {}
        BY <4>2, <4>3, EmptyRams, HeldRams DEF Held
      <4> QED BY <3>1, <4>2, <4>4, Mapping DEF Commands!CommandNext
    <3>3. CASE ~(state = "RESET" /\ at.i = BLOCK_SIZE - 1)
      <4>1. \/ state = "RESET" /\ state' = "RESET"
            \/ state = "START" /\ state' \in {"START", "RUN"}
        BY <2>4, <3>1, <3>3 DEF Clear
      <4>2. Activity' = Activity /\ Activity # "IDLE"
        BY <3>1, <4>1 DEF Activity
      <4> QED BY <1>1, <3>1, <4>2
    <3> QED BY <3>2, <3>3
  <2>5. CASE NextBlock /\ at.ir = IrMax(channel)
    <3>1. /\ state = "NEXT_BLOCK" /\ state' = "IDLE" /\ pending = "none" /\ pending' = "none"
          /\ UNCHANGED <<channel, latest, ram>>
      BY <2>5 DEF NextBlock, ringVars, sumVars, SumInv, ControlInv, Selected
    <3>2. Activity = "RUN" /\ Activity' = "IDLE"
      BY <3>1 DEF Activity
    <3>3. /\ channel \in Channels /\ latest[channel] \in InMin(channel) .. InMax(channel)
          /\ BLOCK_NUM \in 0 .. BLOCK_NUM
      BY HeaderMacAssumption DEF SumInv, ControlInv, ControlTypes
    <3>4. Complete
      BY <2>5, RunEnd DEF SumInv, PipelineInv
    <3>5. PairsIn(ram) = { PairOf(channel, latest[channel], k) : k \in 0 .. BLOCK_NUM - 1 }
      BY <3>3, <3>4, HeldPairs DEF Complete, RealSum, ImagSum
    <3>6. Held' = Commands!Sum(channel, latest[channel])
      BY <3>1, <3>2, <3>3, <3>5, SumPairs, HeldRams DEF Held
    <3> QED BY <3>1, <3>2, <3>6, Mapping DEF Commands!CommandNext
  <2>6. CASE \/ Run \/ Run2 \/ FirstWord \/ Wait(v) \/ AHigh(v) \/ ALow(v) \/ CHigh(v) \/ CLow(v)
             \/ DHigh(v) \/ DLow(v) \/ BHigh(v) \/ BLow(v) \/ BlockEnd(v) \/ Continue
             \/ (NextBlock /\ at.ir # IrMax(channel)) \/ NextBlock2
    <3>1. state \notin {"IDLE", "RESET"} /\ state' \notin {"IDLE", "RESET"}
      BY <2>6 DEF Run, Run2, FirstWord, Wait, AHigh, ALow, CHigh, CLow, DHigh, DLow, BHigh, Fetch,
                  BLow, BlockEnd, Continue, NextBlock, NextBlock2, Words, fsmVars
    <3>2. pending = "none" /\ pending' = "none" /\ UNCHANGED <<channel, latest>>
      <4>1. UNCHANGED pending /\ UNCHANGED <<channel, latest>>
        BY <2>6 DEF Run, Run2, FirstWord, Wait, AHigh, ALow, CHigh, CLow, DHigh, DLow, BHigh, Fetch,
                  BLow, BlockEnd, Continue, NextBlock, NextBlock2, fsmVars, ringVars
      <4> QED BY <3>1, <4>1 DEF SumInv, ControlInv, Selected
    <3>3. Activity = "RUN" /\ Activity' = "RUN"
      BY <3>1, <3>2 DEF Activity
    <3> QED BY <1>1, <3>2, <3>3
  <2> QED BY <2>1, <2>2, <2>3, <2>4, <2>5, <2>6 DEF Main
<1>3. CASE UNCHANGED vars
  <2>1. UNCHANGED <<state, pending, channel, latest, ram>>
    BY <1>3 DEF vars, fsmVars, ringVars, sumVars
  <2>2. Activity' = Activity
    BY <2>1 DEF Activity
  <2> QED BY <1>1, <2>1, <2>2
<1> QED BY <1>2, <1>3

(* Every run of the pipeline is a run of the commands: when the MAC is     *)
(* idle after a start its RAMs hold each product of the BLOCK_NUM pairs    *)
(* of blocks, and of no other pair.                                        *)
THEOREM PipelineImplements == Spec => ImplementsCommands
<1>1. Init => Commands!CommandInit
  BY CommandsInit
<1>2. SumInv /\ [Next]_vars => [Commands!CommandNext]_(Commands!commandVars)
  BY CommandsStep
<1> QED BY <1>1, <1>2, SumInvHolds, PTL DEF Spec, ImplementsCommands, Commands!CommandSpec
=============================================================================
