---------------------------- MODULE MacCommands ----------------------------
(***************************************************************************)
(* What the reverb program relies on when it drives the header MAC.  The   *)
(* memory holds, for the left and the right channel, NUM blocks of the     *)
(* impulse response and then a ring of NUM input blocks each.  A start     *)
(* moves on to the next input block of the selected channel; when the MAC  *)
(* is idle again it holds the sum of the products of impulse response      *)
(* block k and the input block that is k older.                            *)
(*                                                                         *)
(* The program polls for idleness, so nothing is promised about the sums   *)
(* before, and the memory must not change meanwhile.                       *)
(***************************************************************************)
EXTENDS Integers

CONSTANT NUM        \* blocks per channel

VARIABLES
  state,            \* "IDLE", "RESET" or "RUN"
  channel,          \* 1: left, 2: right
  latest,           \* newest input block of each channel
  mem,              \* the blocks in the memory
  sums              \* the block pairs summed up, when idle

commandVars == <<state, channel, latest, mem, sums>>

LastIn(c) == (c + 2) * NUM - 1
FirstIn(c) == (c + 1) * NUM
FirstIr(c) == (c - 1) * NUM

(* Input block of channel c that is k blocks older than block b.           *)
Older(c, b, k) == IF b - k < FirstIn(c) THEN b - k + NUM ELSE b - k

Sum(c, b) ==
  { [in |-> mem[Older(c, b, k)], ir |-> mem[FirstIr(c) + k]] : k \in 0 .. NUM - 1 }

(* The first start after a reset moves on to the last block of the ring.   *)
AfterReset == [c \in {1, 2} |-> LastIn(c) - 1]

CommandInit ==
  /\ state = "IDLE" /\ channel = 1 /\ latest = AfterReset /\ sums = {}

SetChannel ==
  /\ state = "IDLE"
  /\ channel' \in {1, 2}
  /\ UNCHANGED <<state, latest, mem, sums>>

Start ==
  /\ state = "IDLE" /\ state' = "RUN"
  /\ latest' = [latest EXCEPT ![channel] =
                  IF @ = LastIn(channel) THEN FirstIn(channel) ELSE @ + 1]
  /\ sums' = {}
  /\ UNCHANGED <<channel, mem>>

Reset ==
  /\ state = "IDLE" /\ state' = "RESET"
  /\ latest' = AfterReset
  /\ sums' = {}
  /\ UNCHANGED <<channel, mem>>

RunDone ==
  /\ state = "RUN" /\ state' = "IDLE"
  /\ sums' = Sum(channel, latest[channel])
  /\ UNCHANGED <<channel, latest, mem>>

ResetDone ==
  /\ state = "RESET" /\ state' = "IDLE"
  /\ UNCHANGED <<channel, latest, mem, sums>>

(* The program stores blocks while the MAC is idle.                        *)
Store ==
  /\ state = "IDLE"
  /\ UNCHANGED <<state, channel, latest, sums>>

CommandNext == SetChannel \/ Start \/ Reset \/ RunDone \/ ResetDone \/ Store

CommandSpec == CommandInit /\ [][CommandNext]_commandVars
=============================================================================
