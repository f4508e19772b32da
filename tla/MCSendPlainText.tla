--------------------------- MODULE MCSendPlainText ---------------------------
EXTENDS SendPlainText
================================================================================
