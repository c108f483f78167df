---------------------------- MODULE MCHubSession ----------------------------
\* Two commands, whose frames take two and three writes.
EXTENDS HubSession

MCCmds == {"status", "setup"}
MCDataLen == [c \in MCCmds |-> IF c = "status" THEN 1 ELSE 2]
=============================================================================
