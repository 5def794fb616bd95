----------------------------- MODULE MCHttpDev ------------------------------
EXTENDS HttpDev

CONSTANTS r1, r2, r3
=============================================================================
