--------------------------- MODULE MCUpgradeEngine ---------------------------
EXTENDS UpgradeEngine

\* The second release keeps the schema of the first, the third changes it.
SchemaValues == [r \in Releases |-> IF r < 3 THEN 1 ELSE 2]
=============================================================================
