--------------------------- MODULE MCHybridSearch ---------------------------
(* Small instances of HybridSearch for TLC.                                *)
EXTENDS HybridSearch

CONSTANTS a, b, unknown, note, doc, other

TwoIndexes == {a, b}
OneStranger == {unknown}
ThreeEntries == {note, doc, other}
OneNote == {note}
TwoMatch == {note, doc}
ShortTables == {<<>>, <<doc>>, <<other, doc>>, <<note, other>>, <<other, doc, note>>}
ListsOfNames == {<<a, b>>, <<b, unknown, a>>, <<a, a>>}
AllFilters == {"all", "doc", "note", "term"}
=============================================================================
