------------------------------- MODULE Unpack -------------------------------
(***************************************************************************)
(* The loop at the end of process_header_block_hw (fft.c).  Both channels  *)
(* go through one transform, the left one as its real and the right one as *)
(* its imaginary part; the loop takes the spectra of the two apart, in the *)
(* buffers that hold the result of the transform.                          *)
(*                                                                         *)
(* process_body_block_hw has the same loop, but two buffers that are too   *)
(* small for it (fft.c:317) and may overlap; here they are disjoint, so    *)
(* that nothing is said of the body (see BodyStore in ReverbLoop).         *)
(*                                                                         *)
(* re and im are the words of the result, bin by bin: real parts are read  *)
(* into out_1[i].r, imaginary ones into out_2[i].r.                        *)
(***************************************************************************)
EXTENDS Integers

CONSTANTS
  Half,            \* half of the bins: HEADER_BLOCK_SIZE_ZE/2
  re, im

SIZE == 2 * Half
Bins == 0 .. SIZE - 1

VARIABLES r_1, i_1, r_2, i_2, i

vars == <<r_1, i_1, r_2, i_2, i>>

(* The buffers come from calloc.                                           *)
Init ==
  /\ r_1 = re /\ r_2 = im
  /\ i_1 = [k \in Bins |-> 0] /\ i_2 = [k \in Bins |-> 0]
  /\ i = 1

(* >> 1 of a signed word.                                                  *)
Halve(x) == x \div 2

(* One pass of the loop: imaginary parts first, from the words of both     *)
(* bins, then the real parts in place of them.                             *)
Pass ==
  LET j == SIZE - i
      x == Halve(r_2[i] - r_2[j])
      y == -Halve(r_1[i] - r_1[j])
      a == Halve(r_1[i] + r_1[j])
      b == Halve(r_2[i] + r_2[j])
  IN /\ i < Half /\ i' = i + 1
     /\ i_1' = [i_1 EXCEPT ![i] = x, ![j] = -x]
     /\ i_2' = [i_2 EXCEPT ![i] = y, ![j] = -y]
     /\ r_1' = [r_1 EXCEPT ![i] = a, ![j] = a]
     /\ r_2' = [r_2 EXCEPT ![i] = b, ![j] = b]

Next == Pass

Spec == Init /\ [][Next]_vars

-----------------------------------------------------------------------------
(* Properties *)

Buffers == Half \in Nat \ {0} /\ re \in [Bins -> Int] /\ im \in [Bins -> Int]

Mirror(k) == IF k = 0 THEN 0 ELSE SIZE - k

(* When the loop is through, each channel has the spectrum of a real       *)
(* signal, and left + j * right is the result of the transform, but for    *)
(* the bit that the shift loses: nothing of one channel has got into the   *)
(* other, although the loop writes into the words that it reads.           *)
Symmetric(k) ==
  /\ r_1[Mirror(k)] = r_1[k] /\ i_1[Mirror(k)] = -i_1[k]
  /\ r_2[Mirror(k)] = r_2[k] /\ i_2[Mirror(k)] = -i_2[k]

AddsUp(k) ==
  /\ re[k] - (r_1[k] - i_2[k]) \in {0, 1}
  /\ im[k] - (i_1[k] + r_2[k]) \in {0, 1}

Separated == i = Half => \A k \in Bins : Symmetric(k) /\ AddsUp(k)
=============================================================================
