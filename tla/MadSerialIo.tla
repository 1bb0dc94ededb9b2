----------------------------- MODULE MadSerialIo -----------------------------
(***************************************************************************)
(* What the drivers and the device promise together, without queues,       *)
(* locks, registers or interrupts: i/o is carried out one at a time ("The  *)
(* device driver(s) complete one i/o before initiating the next"), each    *)
(* i/o moves its data exactly once between its beginning and its end, and  *)
(* an i/o that has begun ends.                                             *)
(***************************************************************************)
CONSTANTS
  Callers,  \* threads that ask for i/o
  NoCaller  \* no thread

VARIABLES
  io,       \* the i/o that is carried out, or NoIo
  taken     \* whose data the device took last

vars == <<io, taken>>

NoIo == [caller |-> NoCaller, dir |-> "rd", moved |-> FALSE]
Io == [caller : Callers \cup {NoCaller}, dir : {"rd", "wr"}, moved : BOOLEAN]

Init == io = NoIo /\ taken = NoCaller

Begin(p, d) ==
  /\ io = NoIo
  /\ io' = [caller |-> p, dir |-> d, moved |-> FALSE]
  /\ UNCHANGED taken

Transfer ==
  /\ io # NoIo
  /\ ~io.moved
  /\ io' = [io EXCEPT !.moved = TRUE]
  /\ taken' = IF io.dir = "wr" THEN io.caller ELSE taken

Finish ==
  /\ io.moved
  /\ io' = NoIo
  /\ UNCHANGED taken

Next == (\E p \in Callers, d \in {"rd", "wr"} : Begin(p, d)) \/ Transfer \/ Finish

Spec == Init /\ [][Next]_vars /\ WF_vars(Transfer) /\ WF_vars(Finish)
=============================================================================
