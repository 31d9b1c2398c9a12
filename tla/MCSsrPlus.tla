------------------------------ MODULE MCSsrPlus ------------------------------
\* A main server and one more to switch to; the main server is not the file's first.
EXTENDS SsrPlus

CONSTANTS main, spare
TwoServers == <<spare, main>>
AllEnabled == {main, spare}
=============================================================================
