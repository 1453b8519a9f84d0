------------------------------- MODULE ShRun -------------------------------
(***************************************************************************)
(* A thread that runs through the target while another hooks, rehooks and  *)
(* unhooks it (ShInst).  Beside the processor (cpu) runs the same program  *)
(* on a processor where nothing was ever hooked (sim); whenever cpu is     *)
(* between two instructions of the program, wherever those are, the two    *)
(* must agree.  What runs a hook's code is sh_glue.S and the user.         *)
(***************************************************************************)
EXTENDS ShInst

CONSTANT Regs   \* [instruction sets -> registers]

VARIABLES cpu, sim,
  via,   \* the original function's address, in the switch whose branch the thread took
  phase  \* "idle", "hook" in code of the hook, "between" instructions, "amid" a rewritten one
runVars == <<cpu, sim, via, phase>>
allVars == <<instVars, runVars>>

SP == 0
IpRegs == IF c.isa = "a64" THEN {16, 17} ELSE {12}
ProxyAt == Proxy[c.isa] - (Proxy[c.isa] % 2)
Lowest == IF c.isa = "a64" THEN -2 ELSE -1
StartState == [pc |-> At(c.target), isa |-> c.isa, reg |-> [r \in Regs[c.isa] |-> Initially(r)], sp |-> SP,
               stack |-> <<>>, flags |-> Initially(0), hint |-> Initially(0)]

(* Where the program's instructions are *)
\* The program's address of a place of an enter, with bit 0 as it is; any other address is itself.
Home(a) == IF a - (a % 2) \in DOMAIN home THEN home[a - (a % 2)] + (a % 2) ELSE a
HomeOf(v) == IF v[1] = "address" THEN At(Home(v[2])) ELSE v
Moved1(pc) == pc[1] = "address" /\ Home(pc[2]) # pc[2]
Program == DOMAIN Fresh
InPlace(pc) == pc[1] = "address" /\ pc[2] \in DOMAIN mem /\ \E fresh \in {Fresh} : pc[2] \in DOMAIN fresh /\ mem[pc[2]] = fresh[pc[2]]
Outside(pc) == pc[1] = "address" => pc[2] \notin DOMAIN mem \cup Program \cup {ProxyAt, Glue}
ToRun(pc) == pc[1] = "address" /\ Moved1(pc) /\ Home(pc[2]) # c.target + MovedLen

(* The processor *)

\* What the program does from one instruction to the next; an IT block moves as one.
SimStep(s) ==
  LET k == CHOOSE k \in DOMAIN Moved : s.pc = At(c.target + AddressOf(k))
      n == IF Moved[k].k = "IT_T1" THEN 1 + Len(Moved[k].block) ELSE 1
  IN FoldLeft(LAMBDA m, j : IF m.pc[1] = "address" /\ m.pc[2] \in Program THEN Exec(Fresh, m, c.truth) ELSE m,
              s, [j \in 1 .. n |-> j])

Call ==
  /\ phase = "idle" /\ sw # "closed"
  /\ cpu' = StartState /\ sim' = StartState /\ via' = 0
  /\ phase' = "between"
  /\ UNCHANGED instVars

\* An instruction of the program where it always was.
RunInPlace ==
  /\ phase # "idle" /\ InPlace(cpu.pc)
  /\ cpu' = Exec(mem, cpu, c.truth)
  /\ sim' = Exec(Fresh, sim, c.truth)
  /\ phase' = "between"
  /\ UNCHANGED <<via, instVars>>

\* An instruction of the hook.
RunHook ==
  /\ phase # "idle" /\ ~Outside(cpu.pc) /\ cpu.pc[2] \in DOMAIN mem /\ ~InPlace(cpu.pc)
  /\ LET m == Exec(mem, cpu, c.truth)
         running == phase = "amid" \/ ToRun(cpu.pc)
         arrived == Outside(m.pc) \/ Moved1(m.pc) \/ InPlace(m.pc)
     IN /\ cpu' = m
        /\ via' = IF cpu.pc = At(c.target) THEN orig ELSE via
        /\ sim' = IF running /\ arrived THEN SimStep(sim) ELSE sim
        /\ phase' = CASE running /\ arrived -> "between" [] running /\ ~arrived -> "amid" [] OTHER -> "hook"
  /\ UNCHANGED instVars

Corrupt(m) == [m EXCEPT !.reg = [r \in DOMAIN @ |-> IF r \in IpRegs THEN Lost ELSE @[r]]]
Ends == phase' = "idle" /\ cpu' = StartState /\ sim' = StartState /\ via' = 0 /\ UNCHANGED instVars
AtProxy == phase # "idle" /\ cpu.pc = At(ProxyAt)
\* The user's proxy calls the original function, or returns without.
ProxyCalls ==
  /\ AtProxy
  /\ cpu' = Jump(Corrupt(cpu), At(via))
  /\ phase' = "hook"
  /\ UNCHANGED <<sim, via, instVars>>
ProxyReturns == AtProxy /\ Ends


\* shadowhook_interceptor_glue leaves the IP registers below SP, and jumps to the proxy or the enter.
AtGlue == phase # "idle" /\ cpu.pc = At(Glue)
GlueJumps ==
  /\ AtGlue
  /\ \E next \in {via} \cup (IF c.start THEN {Proxy[c.isa]} ELSE {}) : cpu' = Jump(Corrupt(cpu), At(next))
  /\ phase' = "hook"
  /\ UNCHANGED <<sim, via, instVars>>

\* A function that was called returns.
Return ==
  /\ phase = "between" /\ Outside(cpu.pc)
  /\ sim.reg[LR(c.isa)] # Initially(LR(c.isa))
  /\ sim.pc # At(c.target + MovedLen)
  /\ cpu' = Jump(cpu, cpu.reg[LR(c.isa)])
  /\ sim' = Jump(sim, sim.reg[LR(c.isa)])
  /\ UNCHANGED <<via, phase, instVars>>

Leave == phase # "idle" /\ Outside(cpu.pc) /\ Ends

(* Composition *)

\* Assumed of a hook's caller and of the delay: no thread is between two of the instructions that are
\* overwritten, no thread runs an ELF that is closed, and areas are used again when no thread is in them.
SafeToPatch == phase # "idle" => ~\E a \in Span(Patched) \ {c.target} : cpu.pc = At(a)
Between == UNCHANGED runVars
Patch == /\ \/ RelocWrite /\ SafeToPatch
            \/ (FreeAfterDlclose \/ Rested) /\ phase = "idle"
         /\ Between
Prepare == /\ \/ \E new \in {Proxy[c.isa], Launcher} : HookEnter(new) \/ Rehook(new)
              \/ HookIslandEnter \/ HookIslandEnterFails
              \/ HookRewrite \/ HookRewriteFails
              \/ RelocExit \/ RelocExitFails \/ RelocWriteFails \/ RelocDone
              \/ HookFailed
              \/ Unhook \/ UnhookFails \/ UnhookDone \/ Reload
           /\ Between

RunInit == InstInit /\ cpu = StartState /\ sim = StartState /\ via = 0 /\ phase = "idle"
RunNext == Patch \/ Prepare
           \/ Call \/ RunInPlace \/ RunHook \/ ProxyCalls \/ ProxyReturns \/ GlueJumps \/ Return \/ Leave
RunSpec == RunInit /\ [][RunNext]_allVars

(* Properties *)

\* The target holds the program's instruction or a branch that comes out at an exit island in use: in the
\* middle of a rehook the old or the new one, after an unhook that failed one that is never given back.
\* (Ranges of islands, relative_jump, order of writes and frees.)
PatchSound ==
  LET x == mem[c.target]
      m == [StartState EXCEPT !.pc = At(c.target)]
  IN sw # "closed" =>
       \/ x = Fresh[c.target]
       \/ \E a \in IF sw = "gone" THEN lost ELSE {inst.exit, newExit} : a \in out /\ Exec(mem, m, c.truth).pc = At(a.at)

Same(a, b) == HomeOf(a) = b
\* What a function's start may not rely on, and what sh_a64.c does not keep of an X17 written there.
Free(r) ==
  \/ c.start /\ r \in IpRegs /\ sim.reg[r] = Initially(r)
  \/ c.start /\ c.isa = "a64" /\ r = 17 /\ ~A64!ResumeWithX16(FirstInst)
KeepsFlags == \A k \in DOMAIN Moved : Moved[k].k \notin {"TBB_T1", "TBH_T1"}

\* Whenever the thread is between two instructions of the program - in place, moved, or beyond - it is as if
\* nothing had been hooked: same place, registers, stack, flags, and return address up to the move.
\* It is never where an instruction was overwritten, but at the branch that was written there.
ResumeRight ==
  /\ phase # "idle" /\ cpu.pc[1] = "address" => cpu.pc[2] \notin Program \ {c.target} \/ InPlace(cpu.pc)
  /\ phase # "idle" /\ (Outside(cpu.pc) \/ Moved1(cpu.pc) \/ InPlace(cpu.pc)) =>
    /\ HomeOf(cpu.pc) = sim.pc /\ cpu.isa = sim.isa
    /\ \A r \in DOMAIN cpu.reg : \/ Free(r)
                                 \/ cpu.reg[r] = sim.reg[r]
                                 \/ r = LR(c.isa) /\ Same(cpu.reg[r], sim.reg[r])
    /\ cpu.sp = sim.sp
    /\ \A s \in DOMAIN sim.stack : s >= sim.sp => (s \in DOMAIN cpu.stack /\ cpu.stack[s] = sim.stack[s])
    /\ KeepsFlags => cpu.flags = sim.flags
    /\ \/ cpu.hint = sim.hint
       \/ sim.hint[1] = "address" /\ sim.hint[2] \in c.target .. c.target + MovedLen - 1

\* The glue finds every register as the program left it, those it needs itself in the words below SP.
InterceptorSees ==
  AtGlue => /\ cpu.isa # "thumb" /\ cpu.sp = sim.sp /\ cpu.flags = sim.flags
            /\ \A r \in DOMAIN cpu.reg \ IpRegs : cpu.reg[r] = sim.reg[r]
            /\ cpu.reg[IF c.isa = "a64" THEN 17 ELSE 12] = At(Context)
            /\ \A s \in Lowest .. -1 : /\ cpu.sp + s \in DOMAIN cpu.stack
                                       /\ cpu.stack[cpu.sp + s] = sim.reg[IF c.isa = "a64" THEN 18 + s ELSE 12]

\* The rewritten code fits in an enter, and has the lengths by which fix_addr counts; IT blocks may not fit.
EnterFits ==
  step = "exit" /\ sw = "none" =>
    LET parts == Rewritten(inst.enter.at, IF NeedsIslandRewrite THEN inst.islandRewrite.at ELSE 0)
        code == EnterCode(inst.enter.at, inst.islandEnter.at, inst.islandRewrite.at)
    IN /\ (\A k \in DOMAIN Moved : Moved[k].k # "IT_T1") => Bytes(code) <= EnterSize
       /\ Bytes(FlattenSeq(parts)) = FoldLeft(LAMBDA n, l : n + l, 0, Lens)
=============================================================================
