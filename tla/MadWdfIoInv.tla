---------------------------- MODULE MadWdfIoInv ----------------------------
(***************************************************************************)
(* The inductive invariant of MadWdfIo, for a quiet window: one that       *)
(* serves one direction and issues no extraneous interrupts.               *)
(*                                                                         *)
(* The i/o of the request that the driver holds is in one place at a time: *)
(* in the device (go), in the interrupt (MesgID), in the DPC, in the       *)
(* queued work item or in one worker.  The end of the DPC and the tail of  *)
(* a work item overlap with the next request, and the invariant says what  *)
(* they may do to it: take its host address or its entry in the table      *)
(* away, but never put another request in their place.                     *)
(***************************************************************************)
EXTENDS MadWdfIo

InGo == "GO" \in regs.Control
InInt == regs.MesgID # 0
InLookup == At("lookup")
InAny == int.pc \in {"any", "wipe"}
InQueue == wiQueued
InWorker(w) == worker[w].pc \in {"delete", "complete"}
InNoWorker == \A w \in Workers : ~InWorker(w)
Active == InGo \/ InInt \/ InLookup \/ InAny \/ InQueue \/ ~InNoWorker

\* The i/o is in one place.
OnePlace ==
  /\ InGo => ~InInt /\ ~InLookup /\ ~InAny /\ ~InQueue /\ InNoWorker
  /\ InInt => ~InLookup /\ ~InAny /\ ~InQueue /\ InNoWorker
  /\ InLookup \/ InAny => ~InQueue /\ InNoWorker
  /\ InQueue => InNoWorker
  /\ \A v, w \in Workers : InWorker(v) /\ InWorker(w) => v = w
  /\ Active => owner \in Requests /\ pc[owner] \in {"record", "done"}

Unstarted == {"verify", "ready", "program", "go"}

\* What the queue guarantees, and what of it is seen in the requests.
QueueInv ==
  /\ owner \in Requests => result[owner] = "none" /\ pc[owner] \in Unstarted \cup {"record", "done"}
  /\ \A r \in Requests :
       /\ pc[r] \in Unstarted => owner = r
       /\ pc[r] \in {"new", "queued"} => result[r] = "none" /\ owner # r
       /\ pc[r] \in {"new", "queued"} \cup Unstarted => xfers[r] = 0
       /\ pc[r] = "new" => type[r] = "eNoIO"
       /\ pc[r] # "new" => \E c \in BOOLEAN : type[r] = TypeOf(bDmaEnabled, FirstDir, c)
       /\ xfers[r] <= 1
       /\ result[r] = "success" => xfers[r] = 1

\* The registers and the chain, while the device is at work, are the owner's.
DeviceInv ==
  /\ regs.IntID \subseteq {"ALERT", FirstDir}
  /\ InGo \/ InInt => ("CHAINED_DMA" \in regs.Control <=> IsChained(owner))
  /\ InGo \/ InInt \/ (\E r \in Requests : pc[r] = "go") => regs.HostAddr \in {owner, NoRequest}
  /\ \A r \in Requests :
       owner = r /\ IsChained(r) /\ pc[r] \in {"program", "go", "record", "done"} => HdwSgDmaList = r
  /\ InGo => xfers[owner] = 0
  /\ InInt => FirstDir \in regs.IntID
  /\ InInt /\ int.pc \in {"poll", "finish", "move"} => xfers[owner] = 0

UiInv ==
  /\ ui.pc # "output"
  /\ ui.pc \in {"control", "inject", "answer", "ack"} => ui.dir = FirstDir
  /\ ui.pc \in {"inject", "answer", "ack"} => InGo
  /\ ui.pc = "ack" => FirstDir \in regs.IntID

\* The interrupt thread handles the owner's interrupt, and reports an error
\* when it has not moved the data.
IntInv ==
  /\ int.pc # "reject"
  /\ int.pc \in {"move", "enter", "check", "reset"} => InInt
  /\ At("move") => int.type = type[owner]
  /\ int.pc \in {"enter", "check", "reset"} => "ALERT" \in regs.IntID \/ xfers[owner] = 1
  /\ int.pc \in {"check", "reset"} => int.IntID = regs.IntID /\ int.Control = regs.Control
  /\ InLookup =>
       /\ FirstDir \in int.IntID /\ int.IntID \subseteq {"ALERT", FirstDir}
       /\ ("CHAINED_DMA" \in int.Control <=> IsChained(owner))
       /\ "ALERT" \in int.IntID \/ xfers[owner] = 1

\* The table holds the owner, or nothing, or requests already completed.
PendingInv ==
  /\ \A t \in ReqTypes :
       LET h == hPendingReqs[t]
       IN  h \in Requests => type[h] = t /\ (h = owner \/ result[h] # "none")
  /\ owner \in Requests /\ pc[owner] \in {"program", "go", "record", "done"}
       => hPendingReqs[type[owner]] \in {owner, NoRequest}
  /\ InAny => hPendingReqs[type[owner]] = NoRequest

WorkInv ==
  /\ InQueue => wi.req \in {owner, NoRequest} /\ (wi.NtStatus = "success" => xfers[owner] = 1)
  /\ \A w \in Workers : InWorker(w) =>
       /\ Completing(w).req \in {owner, NoRequest}
       /\ Completing(w).NtStatus = "success" => xfers[owner] = 1

QuietInv ==
  /\ OnePlace /\ QueueInv /\ DeviceInv /\ UiInv /\ IntInv /\ PendingInv /\ WorkInv
  /\ OneType => fault # "completed twice"

\* The types, and what holds of the driver and its device while the window is
\* quiet.
WInv == TypeOK /\ (Quiet => QuietInv)
=============================================================================
