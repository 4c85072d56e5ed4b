----------------------------- MODULE MCWriterLock -----------------------------
EXTENDS WriterLock, TLC
CONSTANTS u1, u2, u3, p1, p2
\* Two units share a process and its connection, a third runs in another one.
MCHome == u1 :> p1 @@ u2 :> p1 @@ u3 :> p2
=============================================================================
