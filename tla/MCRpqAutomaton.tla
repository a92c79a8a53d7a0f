--------------------------- MODULE MCRpqAutomaton ---------------------------
EXTENDS RpqAutomaton

\* Rounds of the grammar, over an edge type in both directions and another type.
MCAtoms == {Type(1), Hat(Type(1))}
MCSuffixes(ws) == {Suffix(op, w) : op \in {"*", "+", "?"}, w \in ws}
MCPairs(vs, ws) == {Seq2(v, w) : v \in vs, w \in ws} \cup {Alt2(v, w) : v \in vs, w \in ws}

MCSimple == MCAtoms \cup MCSuffixes(MCAtoms) \cup {Times(Type(1), 1, 2), Times(Type(1), 0, 1)}
MCInner == MCPairs(MCSimple, MCSimple)
MCGroups == MCSuffixes(MCInner) \cup {Hat(w) : w \in MCInner}
MCNested ==
    MCPairs(MCSuffixes(MCPairs({Type(1), Suffix("*", Type(1))}, {Type(2), Suffix("*", Type(2))})),
            {Type(1)})
MCWritten ==
    MCSimple \cup MCInner \cup MCGroups \cup MCNested \cup MCSuffixes(MCNested)
      \cup {Times(w, 1, 2) : w \in MCPairs(MCAtoms, MCAtoms)}
      \cup {Suffix("*", Times(Suffix("*", Type(1)), 0, 1))}
=============================================================================
