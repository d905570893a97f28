--------------------------- MODULE MCControlChannel ---------------------------
\* ControlChannel with the bound of its .cfg on the lines a client leaves unread.
EXTENDS ControlChannel
===============================================================================
