------------------------------ MODULE MCPtrList ------------------------------
(* A pointer list of at most two blocks, shared by two threads.  The items *)
(* outnumber neither the slots nor the threads: an item is added twice, a  *)
(* list is full, emptied and grown again within the bounds.                *)
EXTENDS PtrList
=============================================================================
