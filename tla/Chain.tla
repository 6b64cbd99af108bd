-------------------------------- MODULE Chain --------------------------------
(***************************************************************************)
(* The places a tool consults for one value, highest precedence first.     *)
(* A tool's files are a function from layer to key to value; a cell        *)
(* <<layer, key>> is one place, a chain a sequence of cells.               *)
(***************************************************************************)
EXTENDS Naturals, Sequences

CONSTANT None       \* no value

Value(files, cell) == files[cell[1]][cell[2]]

\* The element of S that comes first in a sequence.
First(seq, S) ==
    seq[CHOOSE i \in DOMAIN seq : seq[i] \in S /\ \A j \in DOMAIN seq : seq[j] \in S => i <= j]

\* The places that have a value.
Speaking(files, chain) ==
    {c \in {chain[i] : i \in DOMAIN chain} : Value(files, c) # None}

\* The first place that has a value, and the value the tool will use.
Wins(files, chain) ==
    IF Speaking(files, chain) = {} THEN None ELSE First(chain, Speaking(files, chain))

Effective(files, chain) ==
    IF Wins(files, chain) = None THEN None ELSE Value(files, Wins(files, chain))

\* The cells that come before the given one in the chain, and the cell itself.
UpTo(chain, cell) ==
    {chain[i] : i \in {j \in DOMAIN chain : \A k \in 1..(j - 1) : chain[k] # cell}}
=============================================================================
