----------------------------- MODULE MCRequests -----------------------------
EXTENDS Requests, TLC

CONSTANTS ann, access, keys

\* An access token of ann, and the keys of the storage in her name
Names == (access :> ann) @@ (keys :> ann)
EveryDriver == AllDrivers
=============================================================================
