----------------------------- MODULE MCStorage -----------------------------
\* Two experiments whose folders are "/SD:/1" and "/SD:/12", two file types.
EXTENDS Storage

CONSTANTS e1, e12

MCIds == {e1, e12}
MCPrefixOf == {<<e1, e1>>, <<e12, e12>>, <<e1, e12>>}
=============================================================================
