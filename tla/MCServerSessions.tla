--------------------------- MODULE MCServerSessions ---------------------------
EXTENDS ServerSessions

\* Two sessions of everyone, then a reload that lowers the limit or revokes.
MCFirstPolicy == [known |-> Ids, limit |-> 2]
MCPolicies == {[known |-> Ids, limit |-> 1], [known |-> {}, limit |-> 1]}
=============================================================================
