---------------------------- MODULE MCDecompress ----------------------------
(***************************************************************************)
(* LZW: inputs that grow strings fast, inputs that fill the table and force*)
(* a clear code, and both one after the other; and codes in any order.     *)
(* Group 4: all images of a few small sizes, rows as long as a makeup code,*)
(* and any bits.                                                           *)
(***************************************************************************)
EXTENDS Decompress

MCPow2 == [w \in 0 .. MaxWidth |-> 2 ^ w]

Strings(symbols, n) == UNION {[1 .. k -> symbols] : k \in 0 .. n}

\* No pair of neighbours occurs twice: every symbol costs a code.
NoRepeat == <<0, 0, 1, 1, 2, 2, 3, 3, 0>>

MCLZWInputs ==
    Strings({0, 1}, 9)
    \cup {NoRepeat \o s : s \in Strings({0, 1, 3}, 4)}
    \cup {NoRepeat \o s \o NoRepeat : s \in Strings({0, 2}, 4)}
    \cup {[i \in 1 .. n |-> 0] : n \in 10 .. 40}

MCByteInputs == Strings({0, 1}, 5)

Image(w, p) == [columns |-> w, pixels |-> p]

\* A row of two runs in a width that takes a makeup code, or more than one.
Long(w, run) == Image(w, [i \in 1 .. w |-> IF i <= run THEN Black ELSE White])

MCFaxInputs ==
    {Image(1, p) : p \in [1 .. 3 -> {White, Black}]}
    \cup {Image(2, p) : p \in [1 .. 6 -> {White, Black}]}
    \cup {Image(4, p) : p \in [1 .. 8 -> {White, Black}]}
    \cup {Long(w, w - 65) : w \in {65, 130, 200}}

MCFaxNoise ==
    {[columns |-> w, bits |-> s \o [i \in 1 .. 24 |-> 0]] : w \in {2, 3}, s \in Strings({0, 1}, 10)}
    \cup {[columns |-> 3, bits |-> ExtensionCode \o s \o [i \in 1 .. 24 |-> 1]] : s \in [1 .. 3 -> {0, 1}]}
    \cup {[columns |-> w, bits |-> [i \in 1 .. n |-> 1]] : w \in {-1, 0, 2}, n \in {0, 23, 24, 29}}
=============================================================================
