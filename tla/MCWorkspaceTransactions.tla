----------------------- MODULE MCWorkspaceTransactions -----------------------
\* Small instances of WorkspaceTransactions for TLC.
EXTENDS WorkspaceTransactions

==============================================================================
