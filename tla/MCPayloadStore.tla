---------------------------- MODULE MCPayloadStore ----------------------------
EXTENDS PayloadStore
CONSTANTS t1, t2, k1, k2   \* goroutines and tokens
=============================================================================
