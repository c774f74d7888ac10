--------------------------- MODULE MCTaskReminders ---------------------------
EXTENDS TaskReminders, TLC
=============================================================================
