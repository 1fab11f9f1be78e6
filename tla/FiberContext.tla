---------------------------- MODULE FiberContext ----------------------------
(***************************************************************************)
(* fw_fiber.h, fw_fiber.c and fw_switch.S: fibers with a hand-written      *)
(* context switch, on x86_64 and aarch64.  A stack is an array of words    *)
(* that grows down from FcTop; an address is a stack and an index.  A      *)
(* register or a word holds a token that says whose it is.                 *)
(***************************************************************************)
EXTENDS Naturals, Sequences

CONSTANTS
    FcFiber,     \* fibers; "sched" is the bootstrap fiber
    FcTop,       \* words of a stack; its end is 16-byte aligned
    FcRounds,    \* bound: switches of each fiber
    FcDepth      \* words that a fiber's own frames may use when it switches

\* Stacks do not overflow: a fiber's frames leave room for the saved ones.
ASSUME FcAssumption ==
    /\ FcTop \in Nat /\ FcTop % 2 = 0 /\ "sched" \notin FcFiber
    /\ \A d \in FcDepth : d \in Nat /\ d + 18 <= FcTop
    /\ FcTop >= 18

VARIABLES
    fcArch,      \* x86_64 or aarch64
    fcMem,       \* the stacks
    fcSp, fcRegs, fcPc,   \* the processor
    fcF,         \* each fw_fiber: state of the fiber, saved sp
    fcCur,       \* the fiber that should be running
    fcLeft       \* what each fiber had in sp and registers when it left

fcVars == <<fcArch, fcMem, fcSp, fcRegs, fcPc, fcF, fcCur, fcLeft>>

\* A word is a tuple: <<>> is 0, <<f>> a pointer to f's fw_fiber, <<f, n>> the
\* n-th place in f's code, <<f, n, r>> what f has computed in register r.
FcTrampoline == <<"fw_fiber_trampoline", 0>>

FcAll == FcFiber \cup {"sched"}
FcX86 == fcArch = "x86_64"

\* The registers fw_ctx_swap() saves, in the order in which they lie in memory
\* from sp upwards; the return address (x86) or lr (aarch64) is the last.
FcFrame ==
    IF FcX86 THEN <<"r15", "r14", "r13", "r12", "rbx", "rbp", "ret">>
    ELSE <<"x19", "x20", "x21", "x22", "x23", "x24", "x25", "x26", "x27", "x28", "x29", "ret">>

\* Words that the frame takes; aarch64 reserves 112 bytes.
FcFrameSize == IF FcX86 THEN 7 ELSE 14
FcRegNames == {FcFrame[k] : k \in 1..(Len(FcFrame) - 1)}
FcPlace(r) == CHOOSE k \in 1..Len(FcFrame) : FcFrame[k] = r

\* fw_fiber_init_self(): the thread that calls it is the scheduler.
FcInit ==
    /\ fcArch \in {"x86_64", "aarch64"}
    /\ fcMem = [f \in FcAll |-> [i \in 0..(FcTop - 1) |-> <<>>]]
    /\ fcSp = <<"sched", FcTop - 2>> /\ fcPc = <<"sched", 0>>
    /\ fcRegs = [r \in FcRegNames |-> <<"sched", 0, r>>]
    /\ fcF = [f \in FcAll |-> [st |-> IF f = "sched" THEN "live" ELSE "none", sp |-> 0, n |-> 0]]
    /\ fcCur = "sched"
    /\ fcLeft = [f \in FcAll |-> [sp |-> fcSp, pc |-> fcPc, regs |-> fcRegs]]

-----------------------------------------------------------------------------
\* Mutant: the fiber is planted one slot off.
FcMakeFrameOff(f) ==
    [k \in 1..Len(FcFrame) |-> IF k = 2 THEN <<f>> ELSE IF FcFrame[k] = "ret" THEN FcTrampoline ELSE <<>>]

\* The initial frame of fw_fiber_make(): the fiber in the first register, the
\* trampoline as return address.
FcMakeFrame(f) ==
    [k \in 1..Len(FcFrame) |-> IF k = 1 THEN <<f>> ELSE IF FcFrame[k] = "ret" THEN FcTrampoline ELSE <<>>]

\* fw_fiber_make(): a cleared stack with that frame; x86 leaves a word of slack.
FcMake(f) ==
    LET sp == FcTop - (IF FcX86 THEN 8 ELSE 14)
    IN  /\ fcCur = "sched" /\ fcF[f].st = "none"
        /\ fcMem' = [fcMem EXCEPT ![f] = [i \in 0..(FcTop - 1) |->
                         IF i - sp \in 0..(Len(FcFrame) - 1) THEN FcMakeFrame(f)[i - sp + 1] ELSE <<>>]]
        /\ fcF' = [fcF EXCEPT ![f].st = "made", ![f].sp = sp]
        /\ UNCHANGED <<fcArch, fcSp, fcRegs, fcPc, fcCur, fcLeft>>

\* The running fiber's stack after the pushes (stp) of fw_ctx_swap().
FcPushed(f, sp, ret) ==
    [i \in 0..(FcTop - 1) |->
        IF i = sp + Len(FcFrame) - 1 THEN ret
        ELSE IF i - sp \in 0..(Len(FcFrame) - 2) THEN fcRegs[FcFrame[i - sp + 1]]
        ELSE fcMem[f][i]]

\* fw_fiber_switch(f, g): push, store sp in f, take sp from g, pop, return.
FcSwap(f, g, at) ==
    LET sp == at - FcFrameSize
        mem == [fcMem EXCEPT ![f] = FcPushed(f, sp, <<f, fcF[f].n + 1>>)]
        to == fcF[g].sp
    IN  /\ fcMem' = mem
        /\ fcF' = [fcF EXCEPT ![f].sp = sp, ![f].n = @ + 1]
        /\ fcRegs' = [r \in FcRegNames |-> mem[g][to + FcPlace(r) - 1]]
        /\ fcPc' = mem[g][to + Len(FcFrame) - 1]
        /\ fcSp' = <<g, to + FcFrameSize>>
        /\ fcLeft' = [fcLeft EXCEPT ![f] = [sp |-> <<f, at>>, pc |-> <<f, fcF[f].n + 1>>, regs |-> fcRegs]]
        /\ fcCur' = g

\* The scheduler switches to a fiber that can run.
FcDispatch(f, d) ==
    /\ fcCur = "sched" /\ fcF[f].st \in {"made", "live"}
    /\ FcSwap("sched", f, FcTop - 2 - d)
    /\ UNCHANGED fcArch

\* fw_fiber_trampoline: the planted register becomes the argument, x86 aligns
\* the stack, and fw_fiber_start() calls the entry.
FcStart(f) ==
    LET sp == IF FcX86 THEN (fcSp[2] \div 2) * 2 - 1 ELSE fcSp[2]
    IN  /\ fcCur = f /\ fcF[f].st = "made" /\ fcPc = FcTrampoline
        /\ fcF' = [fcF EXCEPT ![f].st = "live"]
        /\ fcPc' = <<fcRegs[FcFrame[1]][1], 0>>
        /\ fcSp' = <<fcSp[1], sp>>
        /\ fcLeft' = [fcLeft EXCEPT ![f] = [sp |-> <<f, FcTop - (IF FcX86 THEN 3 ELSE 0)>>, pc |-> <<f, 0>>,
                                            regs |-> fcRegs]]
        /\ UNCHANGED <<fcArch, fcMem, fcRegs, fcCur>>

\* The fiber computes: its own values in the registers, frames of its own.
FcWork(f, d) ==
    LET mine == [r \in FcRegNames |-> <<f, fcF[f].n + 1, r>>]
    IN  /\ fcCur = f /\ fcF[f].st = "live" /\ fcRegs # mine
        /\ fcRegs' = mine
        /\ fcSp' = <<fcSp[1], FcTop - 4 - d>>
        /\ fcLeft' = [fcLeft EXCEPT ![f] = [sp |-> fcSp', pc |-> fcPc, regs |-> mine]]
        /\ UNCHANGED <<fcArch, fcMem, fcPc, fcF, fcCur>>

\* It yields, or its entry returns and fw_fiber_start() switches to the link.
FcYield(f) ==
    /\ fcCur = f /\ fcF[f].st = "live" /\ fcF[f].n < FcRounds
    /\ FcSwap(f, "sched", fcSp[2])
    /\ UNCHANGED fcArch

FcReturn(f) ==
    /\ fcCur = f /\ fcF[f].st = "live" /\ fcF[f].n = FcRounds
    /\ fcMem' = fcMem
    /\ LET to == fcF["sched"].sp
           mem == fcMem["sched"]
       IN  /\ fcRegs' = [r \in FcRegNames |-> mem[to + FcPlace(r) - 1]]
           /\ fcPc' = mem[to + Len(FcFrame) - 1]
           /\ fcSp' = <<"sched", to + FcFrameSize>>
    /\ fcF' = [fcF EXCEPT ![f].st = "done"]
    /\ fcCur' = "sched" /\ UNCHANGED <<fcArch, fcLeft>>

\* fw_fiber_free() of a fiber that is done; its stack is gone.
FcFree(f) ==
    /\ fcCur = "sched" /\ fcF[f].st = "done"
    /\ fcF' = [fcF EXCEPT ![f].st = "freed"]
    /\ UNCHANGED <<fcArch, fcMem, fcSp, fcRegs, fcPc, fcCur, fcLeft>>

FcNext ==
    \E f \in FcFiber :
        \/ FcMake(f) \/ FcStart(f) \/ FcYield(f) \/ FcReturn(f) \/ FcFree(f)
        \/ \E d \in FcDepth : FcDispatch(f, d) \/ FcWork(f, d)

FcSpec == FcInit /\ [][FcNext]_fcVars

-----------------------------------------------------------------------------
\* A switch is a call that returns: the running fiber has the stack pointer,
\* the callee-saved registers and the place in its code that it left with,
\* whoever ran in between; a new fiber arrives in the trampoline on its own
\* stack with its own fw_fiber in the planted register.
FcKept ==
    IF fcCur \in FcFiber /\ fcF[fcCur].st = "made"
    THEN fcPc = FcTrampoline /\ fcSp[1] = fcCur /\ fcRegs[FcFrame[1]] = <<fcCur>>
    ELSE [sp |-> fcSp, pc |-> fcPc, regs |-> fcRegs] = fcLeft[fcCur]

\* Saved contexts stay intact: the frame of every fiber that is not running
\* is on its own stack, inside it, with the values it left.
FcSavedIntact ==
    \A f \in FcAll \ {fcCur} :
        fcF[f].st = "live" =>
            /\ fcF[f].sp \in 0..(FcTop - FcFrameSize)
            /\ \A k \in 1..(Len(FcFrame) - 1) : fcMem[f][fcF[f].sp + k - 1] = fcLeft[f].regs[FcFrame[k]]
            /\ fcMem[f][fcF[f].sp + Len(FcFrame) - 1] = fcLeft[f].pc

\* Contexts survive, the one that runs and those that wait.
FcSwitches == FcKept /\ FcSavedIntact
=============================================================================
