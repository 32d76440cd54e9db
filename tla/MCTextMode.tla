----------------------------- MODULE MCTextMode -----------------------------
(* Instances of the text display: a screen of few rows and columns that    *)
(* still has a first, a middle and a last one.                             *)
EXTENDS TextMode

Main == {MainConfig}
AnyScroll == {[cursor |-> 3, auto_scroll |-> s, auto_inc |-> 0] : s \in {0, 1}}
=============================================================================
