------------------------------- MODULE Traps -------------------------------
(***************************************************************************)
(* The two implementations of traps side by side: Hart of the emulator and *)
(* Csr of the HDL core.  They share the addresses of instructions and the  *)
(* exceptions, and nothing else: a behaviour runs one of them and leaves   *)
(* the other alone.                                                        *)
(***************************************************************************)
EXTENDS Hart

CONSTANTS HdlWrites,     \* what a program of the HDL core writes: [register |-> values]
          Vectors,       \* its trap vectors
          Depth          \* instructions in front of its execute stage

VARIABLES
  core,       \* the implementation that runs
  front, rw, reg_priv, reg_status, reg_epc, reg_medeleg, reg_sedeleg, reg_xie, reg_xip,
  fetch_pc, reg_vectored, reg_entered

HDL == INSTANCE Csr WITH
         Writes <- HdlWrites, pc <- fetch_pc, vectored <- reg_vectored, entered <- reg_entered

hdl == <<front, rw, reg_priv, reg_status, reg_epc, reg_medeleg, reg_sedeleg, reg_xie, reg_xip,
         fetch_pc, reg_vectored, reg_entered>>

TrapsInit == core \in {"emulator", "hdl"} /\ Init /\ HDL!Init
TrapsNext ==
  \/ core = "emulator" /\ Next /\ UNCHANGED <<core, hdl>>
  \/ core = "hdl" /\ HDL!Next /\ UNCHANGED <<core, vars>>
TrapsSpec == TrapsInit /\ [][TrapsNext]_<<core, vars, hdl>>

-----------------------------------------------------------------------------
(* What is stated of the HDL core *)

\* Csr: every interrupt under way is the one the controller would say now.
SampledIsCurrent == HDL!SampledIsCurrent

\* Csr: a return ends where the trap began.
ReturnsResume == HDL!ReturnsRestore
=============================================================================
