------------------------------- MODULE MCSv39 -------------------------------
(***************************************************************************)
(* Three tables of two entries, one per level, a data frame and an aligned *)
(* superpage, with the digits PPN2 of the real address map.                *)
(***************************************************************************)
EXTENDS Sv39

F(a, b) == <<2, a, b>>
MCRam == {F(0, 0), F(0, 1), F(1, 0), F(1, 1)}
MCRoot == F(0, 0)

Bits(v, r, w, x, u, a, d, f) ==
    [v |-> v, r |-> r, w |-> w, x |-> x, u |-> u, a |-> a, d |-> d, ppn |-> f]
Ptr(f) == Bits(1, 0, 0, 0, 0, 0, 0, f)
\* A writable page, untouched and read, and one write-protected after a write
User(f) == {Bits(1, 1, 1, 0, 1, 0, 0, f), Bits(1, 1, 1, 0, 1, 1, 0, f),
            Bits(1, 1, 0, 0, 1, 1, 1, f)}
Kernel(f) == Bits(1, 1, 1, 1, 0, 1, 1, f)

\* The root: a pointer to the second table, to a table far above RAM, or below
\* it, and superpages.
RootEdits == [i \in {0, 1} |->
    IF i = 0 THEN {Ptr(F(0, 1)), Ptr(<<6, 0, 1>>), Ptr(<<0, 0, 1>>)}
    ELSE {Kernel(F(0, 0)), Kernel(F(0, 1))}]
MidEdits == [i \in {0, 1} |->
    IF i = 0 THEN {Ptr(F(1, 0)), Bits(1, 1, 1, 0, 1, 0, 0, F(1, 0))}
    ELSE {Kernel(<<16386, 1, 0>>), Bits(1, 0, 1, 0, 1, 1, 1, F(1, 0))}]
LowEdits == [i \in {0, 1} |->
    IF i = 0 THEN User(F(1, 1)) ELSE {Ptr(F(1, 1)), Bits(1, 0, 0, 1, 1, 1, 0, F(1, 1))}]

MCEdits == [f \in MCRam |->
    CASE f = F(0, 0) -> RootEdits [] f = F(0, 1) -> MidEdits
      [] f = F(1, 0) -> LowEdits [] OTHER -> [i \in {0, 1} |-> {}]]

MCRequests ==
    {[va |-> va, type |-> t, priv |-> "U", sum |-> 0, mxr |-> 0] :
        va \in {<<0, 0, 0>>, <<0, 1, 0>>, <<1, 0, 1>>}, t \in {"LOAD", "STOR"}}
    \cup
    {[va |-> <<0, 0, 1>>, type |-> "INST", priv |-> p, sum |-> 0, mxr |-> 0] :
        p \in {"U", "S"}}
=============================================================================
