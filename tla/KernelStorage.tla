--------------------------- MODULE KernelStorage ----------------------------
(***************************************************************************)
(* The other implementation of storage_ops in src/src/storage.c: a list of *)
(* buffers in the kernel.  No allocation fails here.                       *)
(***************************************************************************)
EXTENDS Lists, Integers, Sequences

CONSTANT UINT   \* one more than the largest unsigned int

ASSUME KernelAssumption == UINT \in Nat \ {0}

\* Mutant: the thread is not compared.
get_kernel_buffer_any(list, pid, address) ==
  {i \in DOMAIN list : list[i].address = address % UINT}

\* The buffers of a thread at an address, which the parameter cuts to an
\* unsigned int.
get_kernel_buffer(list, pid, address) ==
  {i \in DOMAIN list : list[i].address = address % UINT /\ list[i].pid = pid}

First(found) == CHOOSE i \in found : \A j \in found : i <= j

kernel_init == <<>>

kernel_save(list, pid, address, page) ==
  LET kb    == [pid |-> pid, address |-> address, buffer |-> page]
      found == get_kernel_buffer(list, pid, address)
  IN  IF found = {} THEN Append(list, kb) ELSE [list EXCEPT ![First(found)] = kb]

kernel_load(list, pid, address, zero) ==
  LET found == get_kernel_buffer(list, pid, address)
  IN  IF found = {} THEN zero ELSE list[First(found)].buffer

kernel_remove(list, pid, address) ==
  Chosen(list, {i \in DOMAIN list : ~(list[i].address = address /\ list[i].pid = pid)})

kernel_release(list) == <<>>
=============================================================================
