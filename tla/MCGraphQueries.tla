--------------------------- MODULE MCGraphQueries ---------------------------
EXTENDS GraphQueries, FiniteSetsExt

CONSTANTS F1, F2, F3, F4, MaxEdges, MaxImports

MCFunctions == {F1, F2, F3, F4}
MCCallGraphs == UNION {kSubset(n, MCFunctions \X MCFunctions) : n \in 0..MaxEdges}

At(dir, base) == [dir |-> dir, base |-> base]

\* Two files of one name, one file beside another, and one at the root.
MCFileOrder == <<At("lib", "a"), At("", "main"), At("src", "a"), At("src", "b")>>
MCFiles == {MCFileOrder[k] : k \in DOMAIN MCFileOrder}
MCInputs == MCFiles \cup {At("", "a")}

Written == {At("lib", "a"), At("src", "a"), At(".", "b"), At("", "main")}
MCImportGraphs == UNION {kSubset(n, MCFiles \X Written) : n \in 0..MaxImports}
=============================================================================
