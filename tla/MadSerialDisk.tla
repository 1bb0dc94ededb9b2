---------------------------- MODULE MadSerialDisk ----------------------------
(***************************************************************************)
(* What the block driver and the device promise together, without tags,    *)
(* locks, chains, registers or interrupts: an operation that was asked for *)
(* is either refused, or moves all its sectors in one step between the     *)
(* request and the answer.  The answer to one operation precedes the next  *)
(* move ("The device driver(s) complete one i/o before initiating the      *)
(* next", README.md), and an operation that has moved is answered.         *)
(***************************************************************************)
EXTENDS Naturals

CONSTANTS
  Callers,   \* threads that ask for i/o
  NoCaller,  \* no thread
  Sectors,   \* sector numbers of the disk
  MaxSegs    \* largest length of an operation, in sectors

VARIABLES
  op,    \* each thread's operation
  disk,  \* which thread wrote each sector last
  got    \* what each thread's operation has read, in the order of its sectors

vars == <<op, disk, got>>

Writer == Callers \cup {NoCaller}
NoData == [i \in 1 .. MaxSegs |-> NoCaller]
NoOp == [state |-> "none", dir |-> "rd", sector |-> 0, len |-> 0]

Init ==
  /\ op = [p \in Callers |-> NoOp]
  /\ disk = [s \in Sectors |-> NoCaller]
  /\ got = [p \in Callers |-> NoData]

Ask(p, d, s, n) ==
  /\ op[p] = NoOp
  /\ op' = [op EXCEPT ![p] = [state |-> "asked", dir |-> d, sector |-> s, len |-> n]]
  /\ UNCHANGED <<disk, got>>

\* All sectors of the operation, or none: here is its one moment in time.
Perform(p) ==
  /\ op[p].state = "asked"
  /\ \A q \in Callers : op[q].state # "moved"
  /\ op' = [op EXCEPT ![p].state = "moved"]
  /\ LET Of(s) == s \in op[p].sector .. op[p].sector + op[p].len - 1
     IN  IF op[p].dir = "wr"
         THEN /\ disk' = [s \in Sectors |-> IF Of(s) THEN p ELSE disk[s]]
              /\ UNCHANGED got
         ELSE /\ got' = [got EXCEPT ![p] =
                          [i \in 1 .. MaxSegs |->
                             IF i <= op[p].len THEN disk[op[p].sector + i - 1] ELSE NoCaller]]
              /\ UNCHANGED disk

Answer(p) ==
  /\ op[p].state = "moved"
  /\ op' = [op EXCEPT ![p] = NoOp]
  /\ got' = [got EXCEPT ![p] = NoData]
  /\ UNCHANGED disk

Refuse(p) ==
  /\ op[p].state = "asked"
  /\ op' = [op EXCEPT ![p] = NoOp]
  /\ UNCHANGED <<disk, got>>

Next ==
  \E p \in Callers :
    \/ \E d \in {"rd", "wr"}, s \in Sectors, n \in 1 .. MaxSegs : Ask(p, d, s, n)
    \/ Perform(p) \/ Answer(p) \/ Refuse(p)

Spec == Init /\ [][Next]_vars /\ \A p \in Callers : WF_vars(Answer(p))
=============================================================================
