------------------------------- MODULE MCHeap -------------------------------
EXTENDS Heap
=============================================================================
