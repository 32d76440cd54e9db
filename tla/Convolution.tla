---------------------------- MODULE Convolution ----------------------------
(***************************************************************************)
(* What the reverb promises: output sample t of a channel is the sum, over *)
(* the first Taps samples of the impulse response of that channel, of      *)
(* ir[k] * in[t-k].  A product is named by its two factors, so an output   *)
(* sample is the set of products summed into it.                           *)
(*                                                                         *)
(* The program is free to add a product long before the sample it belongs  *)
(* to is due (a partitioned convolution adds whole blocks ahead of time),  *)
(* but a sample is final once the loop has moved past it.                  *)
(***************************************************************************)
EXTENDS Integers

CONSTANTS
  Taps,        \* length of the part of the impulse response that is promised
  Horizon,     \* outputs 0..Horizon-1 are observed
  Channels     \* left and right

VARIABLES
  played,      \* number of output samples that are final
  sum          \* sum[c][t]: the products in output sample t of channel c

convVars == <<played, sum>>

(* The products that make up output sample t of channel c. *)
Due(c, t) ==
  { [tap |-> <<c, k>>, sample |-> <<c, t - k>>] :
      k \in { j \in 0 .. Taps - 1 : j <= t } }

ConvInit ==
  /\ played = 0
  /\ sum = [c \in Channels |-> [t \in 0 .. Horizon - 1 |-> {}]]

(* Only products that belong to a sample are added to it, none is taken   *)
(* away, and no final sample changes.                                      *)
OnlyDueAdded(done) ==
  \A c \in Channels : \A t \in 0 .. Horizon - 1 :
    /\ sum[c][t] \subseteq sum'[c][t]
    /\ sum'[c][t] \subseteq Due(c, t)
    /\ t < done => sum'[c][t] = sum[c][t]

Accumulate ==
  /\ OnlyDueAdded(played)
  /\ UNCHANGED played

(* Moving on to the next sample: the one left behind must be complete.     *)
Finish ==
  /\ OnlyDueAdded(played)
  /\ played < Horizon
  /\ \A c \in Channels : sum'[c][played] = Due(c, played)
  /\ played' = played + 1

(* A new run of the program starts with empty output buffers.              *)
Restart ==
  /\ played' = 0
  /\ sum' = [c \in Channels |-> [t \in 0 .. Horizon - 1 |-> {}]]

ConvNext == Accumulate \/ Finish \/ Restart

ConvSpec == ConvInit /\ [][ConvNext]_convVars
=============================================================================
