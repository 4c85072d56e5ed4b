---------------------------- MODULE MCSchemaUpgrade ----------------------------
EXTENDS SchemaUpgrade, TLC
CONSTANTS r1, r2
\* The second release carries one migration more than the first.
MCLast == r1 :> 176 @@ r2 :> 177
=============================================================================
