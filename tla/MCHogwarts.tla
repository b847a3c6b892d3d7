----------------------------- MODULE MCHogwarts -----------------------------
(***************************************************************************)
(* Instances of Hogwarts for TLC: two wizards and one ingredient.          *)
(***************************************************************************)
EXTENDS Hogwarts, LineAssembly

CONSTANTS w1, w2, herb

Wizards        == {w1, w2}
AllWizards     == [c \in Wizards |-> "WIZARD"]
WizardSymmetry == Permutations(Wizards)

OneHerb == [i \in {herb} |-> 1]

Potions == {[op |-> "BREW", item |-> herb, qty |-> 1],
            [op |-> "CONSUME", item |-> herb, qty |-> 1],
            [op |-> "BLANK"]}
Queries == {[op |-> "REPORT", type |-> "PROFESSOR"], [op |-> "BLANK"]}

OneX == <<"x">>

-----------------------------------------------------------------------------

\* A client's commands arrive as it sent them however recv() cuts the stream:
\* lines of up to MAX_LINE bytes whole, each longer one answered with one ERR
\* TOOLONG and the line behind it unharmed, nothing after the last line.  The
\* replies arrive at the client in the same way (hogwarts.c, client_common.c).
LinesReassembled == spc = "serve" => AssemblyExact

=============================================================================
