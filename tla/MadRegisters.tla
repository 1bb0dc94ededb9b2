---------------------------- MODULE MadRegisters ----------------------------
(***************************************************************************)
(* The register file of the model-abstract device, as maddefs.h lays it    *)
(* out and as the device thread and both drivers read and write it.        *)
(*                                                                         *)
(* A register whose bits have names is the set of the names of the bits    *)
(* that are one.  The four-bit transfer counts (Control and Status) are    *)
(* sets of bit positions, so that the device's "Status |= count" is a      *)
(* union.  A count of N units is coded as N - 1.                           *)
(***************************************************************************)
EXTENDS Naturals

CONSTANTS
  CountBit,  \* bit positions of a transfer count: 0..3 in the code
  TagMax,    \* largest value of the IoTag register: 2^32 - 1 in the code
  Callers,   \* threads that call the driver
  NoCaller   \* no thread

ASSUME CountBitAssumption == CountBit \subseteq 0 .. 3
ASSUME TagMaxAssumption == TagMax \in Nat \ {0}
ASSUME NoCallerAssumption == NoCaller \notin Callers

-----------------------------------------------------------------------------
\* Interrupt enable and interrupt id bits.
InputMask  == {"BUFRD_INPUT", "DMA_INPUT", "ALIGN_INPUT"}
OutputMask == {"BUFRD_OUTPUT", "DMA_OUTPUT", "ALIGN_OUTPUT"}
AllValidMask == InputMask \cup OutputMask \cup {"STATUS_ALERT"}

\* Error bits of the status register.
ErrorMask ==
  {"GENERAL_ERR", "OVER_UNDER_ERR", "DEVICE_BUSY",
   "DEVICE_FAILURE", "INVALID_IO", "RESOURCE_ERROR"}

\* Flag bits of the control register.
GoBits == {"BUFRD_GO", "DMA_GO"}
ControlBits == GoBits \cup {"IOSIZE_BYTES", "CACHE_XFER", "CHAINED_DMA"}

Count == SUBSET CountBit

\* Control's count field is Count; Status is split into its error bits and its
\* two completed-count fields.  HostPA stands for the host buffer of the
\* transfer and is tagged with the thread the transfer is programmed for.
Registers ==
  [Control   : SUBSET ControlBits,
   IoCount   : Count,
   Status    : SUBSET ErrorMask,
   ReadCount : Count,
   WriteCount: Count,
   IntEnable : SUBSET AllValidMask,
   IntID     : SUBSET AllValidMask,
   IoTag     : 0 .. TagMax,
   HostPA    : Callers \cup {NoCaller}]

\* The registers as the bus driver leaves them before any i/o.
RegistersAtReset ==
  [Control |-> {}, IoCount |-> {}, Status |-> {}, ReadCount |-> {},
   WriteCount |-> {}, IntEnable |-> {}, IntID |-> {}, IoTag |-> 0,
   HostPA |-> NoCaller]

\* Mutant of NextTag: the tag grows beyond its register.
NextTagNoWrap(tag) == tag + 1

\* The 32-bit tag wraps.
NextTag(tag) == IF tag = TagMax THEN 0 ELSE tag + 1

-----------------------------------------------------------------------------
\* mbdt_get_programmed_iotype_worker: what the enabled interrupts say is
\* programmed.
ProgrammedIoType(r) ==
  LET Enabled(bit) == bit \in r.IntEnable
      Cached == "CACHE_XFER" \in r.Control
  IN  IF Enabled("DMA_OUTPUT") THEN "eDmaWrite"
      ELSE IF Enabled("DMA_INPUT") THEN "eDmaRead"
      ELSE IF Enabled("ALIGN_OUTPUT") THEN "eAlignWrCache"
      ELSE IF Enabled("ALIGN_INPUT") THEN "eAlignRdCache"
      ELSE IF Enabled("BUFRD_OUTPUT") THEN IF Cached THEN "eFlushWrCache" ELSE "eBufrdWr"
      ELSE IF Enabled("BUFRD_INPUT") THEN IF Cached THEN "eLoadRdCache" ELSE "eBufrdRd"
      ELSE "eNOP"

-----------------------------------------------------------------------------
\* Driver-side results.  "ok" is zero, the others are negative error codes.
DeviceErrno ==
  {"EBADE", "EIO", "ESTRPIPE", "EOVERFLOW", "ENODATA", "EBUSY",
   "ENOTRECOVERABLE", "ENOEXEC", "ENODEV"}

\* maddev_status_to_errno: the switch is on the whole status register (less
\* the cache bits), so a non-zero count field selects the default case.
StatusErrno(r) ==
  CASE "STATUS_ALERT" \notin r.IntID -> "ok"
    [] "STATUS_ALERT" \in r.IntID /\ r.ReadCount \cup r.WriteCount # {} -> "EIO"
    [] OTHER ->
         CASE r.Status = {} -> "EBADE"
           [] r.Status = {"OVER_UNDER_ERR"} ->
                IF "CACHE_XFER" \in r.Control THEN "ESTRPIPE"
                ELSE IF r.IntID \cap OutputMask # {} THEN "EOVERFLOW"
                ELSE "ENODATA"
           [] r.Status = {"DEVICE_BUSY"} -> "EBUSY"
           [] r.Status = {"DEVICE_FAILURE"} -> "ENOTRECOVERABLE"
           [] r.Status = {"INVALID_IO"} -> "ENOEXEC"
           [] r.Status = ErrorMask -> "ENODEV"
           [] OTHER -> "EIO"

\* maddev_program_io_regs, called with the device lock held.
ProgramIoRegs(r, control, cnt, enable, host) ==
  [r EXCEPT !.IntID = {}, !.IntEnable = enable, !.HostPA = host,
            !.Control = control, !.IoCount = cnt]

\* Mutant of ResetIoRegisters: the tag is not advanced.
ResetIoRegistersKeepsTag(r) ==
  [r EXCEPT !.Control = {}, !.IoCount = {}, !.Status = {},
            !.IntID = {}, !.IntEnable = {}]

\* maddev_reset_io_registers, called by the DPC: the error bits of Status are
\* cleared, its count fields are not.
ResetIoRegisters(r) ==
  [r EXCEPT !.Control = {}, !.IoCount = {}, !.Status = {},
            !.IntID = {}, !.IntEnable = {}, !.IoTag = NextTag(r.IoTag)]
=============================================================================
