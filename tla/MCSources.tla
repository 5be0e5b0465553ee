----------------------------- MODULE MCSources -----------------------------
EXTENDS Sources
CONSTANTS one, two
MCConn == {one, two}
MCWritten == {two}
MCSwitched == {one, Server}
=============================================================================
