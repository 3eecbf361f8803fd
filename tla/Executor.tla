------------------------------ MODULE Executor ------------------------------
(***************************************************************************)
(* The instructions of src/cpu/executor.cc that are neither arithmetic     *)
(* (module Arithmetic, with the conditions of branches), atomic (Amo) nor  *)
(* privileged (Hart): jumps, upper immediates, loads and stores.  A        *)
(* handler takes the record of the hart, [xregs, pc] and whatever else its *)
(* user keeps there, and the decoded instruction.  The build is the one without UNIT_TEST,   *)
(* which does not check the alignment of jump targets.                     *)
(***************************************************************************)
EXTENDS Arithmetic, Bytes

\* The write of rd, and the clearing of x0 after the execute stage.
SetReg(s, rd, val) == [s EXCEPT !.xregs = [@ EXCEPT ![rd] = val, ![0] = 0]]

Next4(info) == Reg(info.pc + info.size)
Offset(base, imm) == Reg(base + Reg(imm))

LuiTypeExec(s, info) == SetReg(s, info.rd, Reg(info.imm))

AuipcTypeExec(s, info) == SetReg(s, info.rd, Offset(info.pc, info.imm))

JalTypeExec(s, info) ==
  SetReg([s EXCEPT !.pc = Offset(info.pc, info.imm)], info.rd, Next4(info))

\* The target is computed before the link is written: they may be one register.
JalrTypeExec(s, info) ==
  LET target == Offset(s.xregs[info.rs1], info.imm)
  IN  SetReg([s EXCEPT !.pc = target - (target % 2)], info.rd, Next4(info))

\* The address of a load or store.
TargetAddr(s, info) == Offset(s.xregs[info.rs1], info.imm)

\* What a load writes to rd for the bytes that memory returned.
Extended(token, buf, bytes) ==
  LET data == FromBytes(buf, bytes)
  IN  IF token \in {"LB", "LH", "LW"} THEN Reg(SignExtend(data, bytes)) ELSE data

\* A load after Load succeeded; one that fails leaves rd.
LoadTypeExec(s, info, buf) ==
  SetReg(s, info.rd, Extended(info.token, buf, info.mem_size))

\* The bytes that a store passes to Store.
StoreData(s, info) == ToBytes(s.xregs[info.rs2], info.mem_size)

\* Executor::Exec, without branches and the opcodes of Amo and Hart, after
\* TickOperate has moved pc on.  reply is what Load returned, for a load that
\* succeeds.
Exec(s0, info, reply) ==
  LET s == [s0 EXCEPT !.pc = Next4(info)]
      a == s.xregs[info.rs1]
      b == s.xregs[info.rs2]
  IN  CASE info.op = "kReg"    -> SetReg(s, info.rd, RegTypeExec(a, b)[info.token])
        [] info.op = "kRv32"   -> SetReg(s, info.rd, Rv32TypeExec(a, b)[info.token])
        [] info.op = "kImm"    -> SetReg(s, info.rd, ImmTypeExec(a, info.imm)[info.token])
        [] info.op = "kImm32"  -> SetReg(s, info.rd, Imm32TypeExec(a, info.imm)[info.token])
        [] info.op = "kLui"    -> LuiTypeExec(s, info)
        [] info.op = "kAuipc"  -> AuipcTypeExec(s, info)
        [] info.op = "kJal"    -> JalTypeExec(s, info)
        [] info.op = "kJalr"   -> JalrTypeExec(s, info)
        [] info.op = "kLoad"   -> LoadTypeExec(s, info, reply)
        [] info.op \in {"kStore", "kFence"} -> s
=============================================================================
