----------------------------- MODULE FlashStore ------------------------------
(***************************************************************************)
(* What the flash API promises its clients: each sector holds what was     *)
(* written to it in the order of the calls, whenever the chip is really    *)
(* programmed.  A write clears bits, an erase sets all of a range.         *)
(***************************************************************************)
EXTENDS Integers

CONSTANTS Modules, Sectors, Cells, Bits, EraseLens

VARIABLE store

Blank == [c \in Cells |-> Bits]

Init == store = [m \in Modules |-> [s \in Sectors |-> Blank]]

Write(m, s, o, l, v) ==
    store' = [store EXCEPT ![m][s] =
                [c \in Cells |-> IF c \in o .. o + l - 1 THEN @[c] \cap v ELSE @[c]]]

Erase(m, a, l) ==
    store' = [store EXCEPT ![m] =
                [s \in Sectors |-> IF s \in a .. a + l - 1 THEN Blank ELSE @[s]]]

Next == \E m \in Modules, s \in Sectors :
          \/ \E o, n \in Cells, v \in SUBSET Bits : Write(m, s, o, n + 1, v)
          \/ \E l \in EraseLens : Erase(m, s, l)

Spec == Init /\ [][Next]_store
==============================================================================
