----------------------------- MODULE MCMatrixProduct ------------------------------
\* The sizes and the numbers of threads are given in the .cfg.
EXTENDS MatrixInvariant
===================================================================================
