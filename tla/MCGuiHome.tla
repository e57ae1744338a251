----------------------------- MODULE MCGuiHome -----------------------------
(* A small instance of GuiHome, in which the slots are interchangeable.    *)
EXTENDS GuiHome, TLC

Symmetry == Permutations(Slots)
=============================================================================
