---------------------------- MODULE BodyCommands ----------------------------
(***************************************************************************)
(* What the reverb program relies on when it drives the body MAC.  It is   *)
(* the promise of MacCommands with three differences: a channel is         *)
(* selected by a command that is polled for like the others; the sums are  *)
(* kept in the SDRAM and a run adds to what is there; and the board can be *)
(* reset at any time.                                                      *)
(***************************************************************************)
EXTENDS Integers

CONSTANT NUM        \* blocks per channel

VARIABLES
  state,            \* "IDLE", "RESET", "SET_LEFT", "SET_RIGHT" or "RUN"
  channel,          \* 1: left, 2: right
  latest,           \* newest input block of each channel
  mem,              \* the blocks in the SDRAM
  acc               \* the block pairs in the sums, when idle

commandVars == <<state, channel, latest, mem, acc>>

LastIn(c) == (c + 2) * NUM - 1
FirstIn(c) == (c + 1) * NUM
FirstIr(c) == (c - 1) * NUM

Following(c, b) == IF b = LastIn(c) THEN FirstIn(c) ELSE b + 1

(* Input block of channel c that is k blocks older than block b.           *)
Older(c, b, k) == IF b - k < FirstIn(c) THEN b - k + NUM ELSE b - k

Sum(c, b) ==
  { [in |-> mem[Older(c, b, k)], ir |-> mem[FirstIr(c) + k]] : k \in 0 .. NUM - 1 }

AfterReset == [c \in {1, 2} |-> LastIn(c) - 1]

CommandInit ==
  /\ state \in {"IDLE", "RESET"} /\ channel \in {1, 2}
  /\ latest = AfterReset /\ acc = {}

Command ==
  /\ state = "IDLE" /\ state' \in {"RESET", "SET_LEFT", "SET_RIGHT", "RUN"}
  /\ UNCHANGED <<channel, latest, mem, acc>>

SetDone ==
  /\ state \in {"SET_LEFT", "SET_RIGHT"} /\ state' = "IDLE"
  /\ channel' = IF state = "SET_LEFT" THEN 1 ELSE 2
  /\ UNCHANGED <<latest, mem, acc>>

(* A run moves on to the next input block and adds the products.           *)
RunDone ==
  /\ state = "RUN" /\ state' = "IDLE"
  /\ latest' = [latest EXCEPT ![channel] = Following(channel, @)]
  /\ acc' = acc \cup Sum(channel, latest'[channel])
  /\ UNCHANGED <<channel, mem>>

(* What the sums hold then is not said: the program zeroes them.           *)
ResetDone ==
  /\ state = "RESET" /\ state' = "IDLE"
  /\ latest' = AfterReset
  /\ UNCHANGED <<channel, mem>>

(* The program stores blocks and zeroes the sums while the MAC is idle.    *)
Store ==
  /\ state = "IDLE"
  /\ UNCHANGED <<state, channel, latest>>

BoardReset ==
  /\ state' = "RESET"
  /\ UNCHANGED <<channel, mem>>

CommandNext ==
  Command \/ SetDone \/ RunDone \/ ResetDone \/ Store \/ BoardReset

CommandSpec == CommandInit /\ [][CommandNext]_commandVars
=============================================================================
