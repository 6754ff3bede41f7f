---------------------------- MODULE MCProcessor ----------------------------
(***************************************************************************)
(* The games that are played: words of eight bits, in bytes of two, eight   *)
(* registers, 32 bytes of memory.                                           *)
(***************************************************************************)
EXTENDS Programs

DataAddr == 0 .. 31

Alone == 1 :> 1
Shared == (1 :> 1) @@ (2 :> 1)
TwoCores == (1 :> 1) @@ (2 :> 2)
ThreeCores == (1 :> 1) @@ (2 :> 2) @@ (3 :> 3)

Game(name, op, st, n, home) ==
  [name |-> name, op |-> op, st |-> st, n |-> n, mb |-> 0, me |-> 0, home |-> home]

Plain(name, home) == Game(name, "", "", 0, home)

\* Stores and loads of one size; a base of zero with the forms that know it.
Trips ==
  {g \in {Game("Trip", ld, st, base, Alone) :
            ld \in DOMAIN LoadFlags, st \in DOMAIN StoreFlags \ {"stwcx"}, base \in {0, 2}} :
     /\ SizeOf(g.op) = SizeOf(g.st)
     /\ g.n = 0 => "ZeroRA" \in LoadFlags[g.op] \intersect StoreFlags[g.st]}

Copies ==
  {Game("Copy", ls[1], ls[2], n, Alone) :
     ls \in {<<"lswi", "stswi">>, <<"lswx", "stswx">>}, n \in {1, 3, 4, 9, 12}}

AllFields ==
  {[Plain("Fields", Alone) EXCEPT !.n = n, !.mb = mb, !.me = me] :
     n \in 0 .. Width - 1, mb \in 0 .. Width - 1, me \in 0 .. Width - 1}

PlayedGames ==
  {Plain(name, Shared) : name \in {"WideSum", "WideDifference", "WideNegation", "WideSteps"}}
  \union {Plain(name, Alone) : name \in {"Products", "Nand", "Nor", "Immediates", "Normal",
                                         "Multiple", "Calls"}}
  \union {Plain("Loop", Shared)}
  \union {Game("Flags", op, "", 0, Shared) : op \in {"add", "subf", "neg", "mullw", "divw"}}
  \union {Game("Division", op, "", 0, Alone) : op \in {"divw", "divwu"}}
  \union {Game("Halving", "srawi", "", n, Alone) : n \in 0 .. Width - 1}
  \union {Game("Halving", "sraw", "", 0, Alone)}
  \union {Game("Zero", op, "", 0, Alone) : op \in {"dcbz", "dcbz_l"}}
  \union {Game("Least", op, "", 0, Shared) : op \in {"cmp", "cmpl"}}
  \union {Game("Least", op, "", 13, Alone) : op \in {"cmpi", "cmpli"}}
  \union {Game("Conditions", op, "", 0, Alone) : op \in DOMAIN CRLogic}
  \union {Game("Counter", "", "", 2, TwoCores), Game("Counter", "", "", 1, ThreeCores)}
  \union {Plain("Lock", TwoCores)}
  \union Trips \union Copies \union AllFields

\* Two threads of one core count together.
CountingTogether == {Game("Counter", "", "", 2, Shared)}
=============================================================================
