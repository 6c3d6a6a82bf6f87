------------------------------ MODULE MCUpload ------------------------------
EXTENDS Upload
CONSTANTS f, g
MCOrder == <<f, g>>
=============================================================================
