--------------------------- MODULE MCOperationLog ---------------------------
\* Model checking OperationLog: five operations, three faults.
EXTENDS OperationLog

=============================================================================
