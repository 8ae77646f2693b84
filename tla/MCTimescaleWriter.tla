--------------------------- MODULE MCTimescaleWriter ---------------------------
EXTENDS TimescaleWriter
===============================================================================
