------------------------------ MODULE Processor ------------------------------
(***************************************************************************)
(* The cores that run guest code with the interpreter.  Between any two     *)
(* instructions a core looks for interrupts, which may give it to another   *)
(* thread: the registers go into the context of the thread that leaves and  *)
(* come from the context of the thread that enters.  The reservation of     *)
(* lwarx is the core's and stays with it.                                   *)
(*                                                                          *)
(* A game is a piece of guest code that all its threads run, each on its    *)
(* own input; what the code computes is the subject of the properties.      *)
(***************************************************************************)
EXTENDS Interpreter, TLC

CONSTANTS
  Games,        \* the games to be played
  Home(_),      \* of a game: a function from its threads to their cores
  Code(_),      \* of a game: its instructions, a sequence, from address 0
  Inputs(_),    \* of a game: the functions from threads to initial registers
  Memory(_)     \* of a game: what the memory holds at first

Cores(g) == {Home(g)[t] : t \in DOMAIN Home(g)}

\* cpu::CALLBACK_ADDR, where a thread's code returns to
CallbackAddr == 2 ^ Width - 1

VARIABLES
  game,
  input,        \* what each thread's registers were at first
  regs,         \* CoreRegs and the reservation of each core
  running,      \* sCurrentContext of each core
  context,      \* the OSContext of each thread that is not on a core
  mem

vars == <<game, input, regs, running, context, mem>>

\* A thread's context is filled in when the thread leaves its core.
OnCore == [none |-> TRUE]

ContextFields == {"gpr", "cr", "lr", "ctr", "so", "ov", "ca", "unused", "byteCount", "nia", "cia"}

saveContext(s) == [f \in ContextFields |-> s[f]]

restoreContext(s, ctx) == [f \in DOMAIN s |-> IF f \in ContextFields THEN ctx[f] ELSE s[f]]

\* The registers with which a thread begins.
Begin(gpr) ==
  [gpr |-> gpr, cr |-> [n \in CRBits |-> 0], lr |-> CallbackAddr, ctr |-> 0,
   so |-> 0, ov |-> 0, ca |-> 0, unused |-> 0, byteCount |-> 0, nia |-> 0, cia |-> 0]

First(g, c) == Min({t \in DOMAIN Home(g) : Home(g)[t] = c})

Init ==
  \E g \in Games : \E in \in Inputs(g) :
    /\ game = g
    /\ input = in
    /\ running = [c \in Cores(g) |-> First(g, c)]
    /\ regs = [c \in Cores(g) |-> Begin(in[First(g, c)]) @@ [reserveFlag |-> FALSE, reserveData |-> 0]]
    /\ context = [t \in DOMAIN Home(g) |->
                    IF t = First(g, Home(g)[t]) THEN OnCore ELSE saveContext(Begin(in[t]))]
    /\ mem = Memory(g)

-----------------------------------------------------------------------------
\* What the registers of thread t are, wherever they are.
RegsOf(t) == IF context[t] = OnCore THEN regs[Home(game)[t]] ELSE context[t]

Ended(t) == RegsOf(t).nia = CallbackAddr

Executed(c) == Handle(regs[c], mem, Code(game)[regs[c].nia + 1])

\* resume: one instruction.
Step(c) ==
  /\ regs[c].nia # CallbackAddr
  /\ regs' = [regs EXCEPT ![c] = Executed(c).regs]
  /\ mem' = Executed(c).mem
  /\ UNCHANGED <<game, input, running, context>>

\* sleepCurrentContext and wakeCurrentContext around the switch to t's fiber.
SwitchTo(c, t) ==
  /\ Home(game)[t] = c
  /\ context[t] # OnCore
  /\ ~Ended(t)
  /\ context' = [context EXCEPT ![running[c]] = saveContext(regs[c]), ![t] = OnCore]
  /\ regs' = [regs EXCEPT ![c] = restoreContext(regs[c], context[t])]
  /\ running' = [running EXCEPT ![c] = t]
  /\ UNCHANGED <<game, input, mem>>

AllEnded == (\A t \in DOMAIN context : Ended(t)) /\ UNCHANGED vars

Next ==
  \/ \E c \in DOMAIN regs : Step(c)
  \/ \E c \in DOMAIN regs, t \in DOMAIN context : SwitchTo(c, t)
  \/ AllEnded

Spec == Init /\ [][Next]_vars

Core == UNION {Cores(g) : g \in Games}

Stepping(c) == c \in DOMAIN regs /\ Step(c)
CanStep(c) == c \in DOMAIN regs /\ regs[c].nia # CallbackAddr

Replacing(c) == c \in DOMAIN regs /\ Ended(running[c]) /\ \E t \in DOMAIN context : SwitchTo(c, t)

\* A core goes on stepping, and takes up another thread when one has ended.  The
\* first is weak fairness of Stepping(c), with the condition under which it can
\* be taken written out.
Fairness ==
  \A c \in Core :
    /\ []<>~CanStep(c) \/ []<><<Stepping(c)>>_vars
    /\ WF_vars(Replacing(c))

FairSpec == Spec /\ Fairness

-----------------------------------------------------------------------------
IsContext(s) ==
  /\ s.gpr \in [Reg -> Word]
  /\ s.cr \in [CRBits -> 0 .. 1]
  /\ {s.lr, s.ctr, s.nia, s.cia} \subseteq Word
  /\ {s.so, s.ov, s.ca, s.unused} \subseteq 0 .. 1
  /\ s.byteCount \in 0 .. 2 ^ (Width - 4) - 1

\* Types: registers hold words, memory bytes, and each core runs the one thread
\* of its own whose context is not saved.
TypeOK ==
  /\ \A c \in DOMAIN regs :
       IsContext(regs[c]) /\ regs[c].reserveFlag \in BOOLEAN /\ regs[c].reserveData \in Word
  /\ \A t \in DOMAIN context :
       IF running[Home(game)[t]] = t THEN context[t] = OnCore ELSE IsContext(context[t])
  /\ mem \in [Addr -> Byte]

\* Every thread's code comes to its end: loops with a count run out, a retried
\* conditional store succeeds at last, and a thread that was interrupted goes
\* on where it was.
EveryThreadEnds == <>(\A t \in DOMAIN context : Ended(t))
=============================================================================
