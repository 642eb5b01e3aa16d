---------------------------- MODULE MCPromptQueue ----------------------------
(***************************************************************************)
(* Instances of PromptQueue for TLC: which tab is whose, what each request *)
(* asks for, and what each engine reports.                                 *)
(***************************************************************************)
EXTENDS PromptQueue

CONSTANTS t1, t2, r1, r2, r3, w1, w2

OneHome == [t \in Tabs |-> w1]

AllToT1 == [r \in Requests |-> t1]

AllSend == [r \in Requests |-> "send"]
LastInterrupts == [r \in Requests |-> IF r = r3 THEN "interrupt" ELSE "send"]
SecondInterrupts == [r \in Requests |-> IF r = r2 THEN "interrupt" ELSE "send"]

AllNotify == [t \in Tabs |-> "notify"]
AllSilent == [t \in Tabs |-> "silent"]
=============================================================================
