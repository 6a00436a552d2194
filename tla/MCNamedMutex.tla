---------------------------- MODULE MCNamedMutex ----------------------------
(* NamedMutex on a small instance: three threads contend for two names.    *)
EXTENDS NamedMutex

CONSTANTS t1, t2, t3, k1, k2, o1, o2, o3

MCThreads == {t1, t2, t3}
MCNames == {k1, k2}
\* As many addresses as threads: every allocated object belongs to a thread,
\* so calloc never fails here and freed addresses are reused at once.
MCObjs == {o1, o2, o3}
=============================================================================
