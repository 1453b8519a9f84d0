------------------------------- MODULE ShCode -------------------------------
(***************************************************************************)
(* Machine code, as far as moving it elsewhere can change what it does:    *)
(* external to the repository, what the ARM manuals say of the             *)
(* instructions that sh_a64.c, sh_a32.c, sh_t16.c and sh_t32.c read and    *)
(* write.  An item of code is [n |-> bytes, i |-> instruction]; memory     *)
(* maps addresses to items.  Offsets from the PC stay offsets, so that an  *)
(* instruction in the wrong place reads the wrong word.  Everything else   *)
(* is symbolic: a value is an address, the first value of a register, what *)
(* a load of another value returns, or a function of values.               *)
(***************************************************************************)
EXTENDS Integers, Sequences, SequencesExt, TLC

CONSTANT PageSize   \* what ADRP counts in

PC == 99
LR(isa) == IF isa = "a64" THEN 30 ELSE 14

At(a) == <<"address", a>>
Initially(r) == <<"register", r>>
Loaded(kind, v) == <<"loaded", kind, v>>
Apply(f, vs) == IF f = "mov" THEN vs[1] ELSE <<"function", f, vs>>
Lost == <<"lost">>

Bytes(items) == FoldLeft(LAMBDA n, x : n + x.n, 0, items)

\* The memory that a sequence of items fills from an address on.
Place(isa, addr, items) ==
  FoldLeft(LAMBDA m, x : [at |-> m.at + x.n, mem |-> (m.at :> [isa |-> isa, n |-> x.n, i |-> x.i]) @@ m.mem],
           [at |-> addr, mem |-> <<>>], items).mem

\* What an instruction sees as PC, and in the instructions that align it.
SeenPC(m) == m.pc[2] + (CASE m.isa = "a64" -> 0 [] m.isa = "arm" -> 8 [] OTHER -> 4)
Base(m) == IF m.isa = "thumb" THEN SeenPC(m) - (SeenPC(m) % 4) ELSE SeenPC(m)
Val(m, r) == IF r = PC THEN At(SeenPC(m)) ELSE m.reg[r]
Vals(m, rs) == [k \in DOMAIN rs |-> Val(m, rs[k])]
Address(m, rs) == IF Len(rs) = 1 THEN Val(m, rs[1]) ELSE Apply("add", Vals(m, rs))

Read(mem, kind, v) ==
  IF /\ kind = "word" /\ v[1] = "address" /\ v[2] \in DOMAIN mem /\ mem[v[2]].i[1] = "data"
  THEN mem[v[2]].i[2]
  ELSE Loaded(kind, v)

\* A jump that may change the instruction set: bit 0 of the address says to which.
Jump(m, v) ==
  CASE m.isa = "a64" -> [m EXCEPT !.pc = v]
    [] m.isa # "a64" /\ v[1] = "address" ->
         [m EXCEPT !.pc = At(v[2] - (v[2] % 2)), !.isa = IF v[2] % 2 = 1 THEN "thumb" ELSE "arm"]
    [] m.isa # "a64" /\ v[1] = "function" /\ v[2] = "set bit 0" -> [m EXCEPT !.pc = v[3][1], !.isa = "thumb"]
    [] OTHER -> [m EXCEPT !.pc = v, !.isa = "as bit 0"]

Goto(m, a) == [m EXCEPT !.pc = At(a)]
Link(m, next) == [m EXCEPT !.reg[LR(m.isa)] = At(IF m.isa = "thumb" THEN next + 1 ELSE next)]

\* A register gets a value and the next instruction follows, unless the register is the PC.
Put(m, r, v, next) == IF r = PC THEN Jump(m, v) ELSE [Goto(m, next) EXCEPT !.reg[r] = v]
PutAll(m, rs, vs, next) ==
  FoldLeft(LAMBDA s, k : IF rs[k] = PC THEN Jump(s, vs[k]) ELSE [s EXCEPT !.reg[rs[k]] = vs[k]],
           Goto(m, next), [k \in DOMAIN rs |-> k])
Load(mem, m, r, kind, v, next) ==
  IF kind = "dual" THEN PutAll(m, <<r, r + 1>>, <<Loaded("low", v), Loaded("high", v)>>, next)
  ELSE Put(m, r, Read(mem, kind, v), next)
Slots(m, rs, sp) == [k \in DOMAIN rs |-> IF sp + k - 1 \in DOMAIN m.stack THEN m.stack[sp + k - 1] ELSE Lost]
Store(m, rs, sp) ==
  [m EXCEPT !.stack = [s \in {sp + k - 1 : k \in DOMAIN rs} |-> Val(m, rs[s - sp + 1])] @@ @]

\* A test of a register is true as the case says of its first value; of another value it is not.
Test(m, r, truth) == IF m.reg[r] = Initially(r) THEN truth ELSE ~truth

Do(mem, m, x, next, truth) ==
  CASE x[1] = "op" -> [Put(m, x[2], Apply(x[3], Vals(m, x[4])), next)
                       EXCEPT !.flags = IF x[5] THEN Apply(x[3], Vals(m, x[4])) ELSE @]
    [] x[1] = "load literal" -> Load(mem, m, x[2], x[4], At(Base(m) + x[3]), next)
    [] x[1] = "load" -> Load(mem, m, x[2], x[4], Address(m, x[3]), next)
    [] x[1] = "hint literal" -> [Goto(m, next) EXCEPT !.hint = At(Base(m) + x[2])]
    [] x[1] = "hint" -> [Goto(m, next) EXCEPT !.hint = Val(m, x[2])]
    [] x[1] = "adr" -> Put(m, x[2], At(Base(m) + x[3]), next)
    [] x[1] = "adrp" -> Put(m, x[2], At(Base(m) - (Base(m) % PageSize) + x[3]), next)
    [] x[1] = "b" -> Goto(m, SeenPC(m) + x[2])
    [] x[1] = "cb" -> Goto(m, IF Test(m, x[2], truth) THEN SeenPC(m) + x[3] ELSE next)
    [] x[1] = "bl" -> Goto(Link(m, next), SeenPC(m) + x[2])
    [] x[1] = "blx" -> [Goto(Link(m, next), Base(m) + x[2])
                        EXCEPT !.isa = IF m.isa = "thumb" THEN "arm" ELSE "thumb"]
    [] x[1] = "bx" -> Jump(m, Val(m, x[2]))
    [] x[1] = "blr" -> Jump(Link(m, next), Val(m, x[2]))
    [] x[1] = "table" ->  \* TBB, TBH
         [m EXCEPT !.pc = Apply("add twice", <<Val(m, PC), Loaded(x[4], Apply(x[5], Vals(m, <<x[2], x[3]>>)))>>)]
    [] x[1] = "push" -> [Store(Goto(m, next), x[2], m.sp - Len(x[2])) EXCEPT !.sp = @ - Len(x[2])]
    [] x[1] = "pop" -> PutAll([m EXCEPT !.sp = @ + Len(x[2])], x[2], Slots(m, x[2], m.sp), next)
    [] x[1] = "store" -> Store(Goto(m, next), x[2], m.sp + x[3])
    [] x[1] = "restore" -> PutAll(m, x[2], Slots(m, x[2], m.sp + x[3]), next)
    [] x[1] = "nop" -> Goto(m, next)
    [] OTHER -> [m EXCEPT !.pc = Lost]

\* One instruction; "if" and "unless" are conditional ones.
Exec(mem, m, truth) ==
  LET at == m.pc[2]
      item == mem[at]
      next == at + item.n
      skip == \/ item.i[1] = "if" /\ ~truth
              \/ item.i[1] = "unless" /\ truth
      x == IF item.i[1] \in {"if", "unless"} THEN item.i[2] ELSE item.i
  IN IF item.isa # m.isa THEN [m EXCEPT !.pc = Lost]
     ELSE IF skip THEN Goto(m, next)
     ELSE Do(mem, m, x, next, truth)

\* An instruction of a program as an item of code.
Item(x) == [n |-> x.n, i |-> IF x.c THEN <<"if", x.i>> ELSE x.i]

\* fix_addr: an address among the instructions that move, by unit bytes, is where they move to.
Fixed(unit, addr, ri) ==
  IF ri.start <= addr /\ addr < ri.end
  THEN ri.buf + ri.prolog
       + FoldLeft(LAMBDA n, k : n + ri.lens[k], 0,
                  SelectSeq([k \in DOMAIN ri.lens |-> k], LAMBDA k : ri.start + unit * (k - 1) < addr))
  ELSE addr
NeedFix(addr, ri) == ri.start <= addr /\ addr < ri.end
=============================================================================
