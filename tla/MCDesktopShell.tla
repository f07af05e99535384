--------------------------- MODULE MCDesktopShell ---------------------------
\* Three attempts, one line of the log kept.
EXTENDS DesktopShell
=============================================================================
