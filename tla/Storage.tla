------------------------------ MODULE Storage -------------------------------
(***************************************************************************)
(* The two implementations of storage_ops side by side: both get the same  *)
(* calls as long as the connection of the one holds.                       *)
(***************************************************************************)
EXTENDS Network, KernelStorage, FiniteSets

VARIABLE kernel_buffer_list

storageVars == <<vars, kernel_buffer_list>>

ASSUME LowAddresses == Addresses \subseteq Nat

StorageInit == Init /\ kernel_buffer_list = kernel_init

init ==
  /\ network_init
  /\ kernel_buffer_list' = kernel_init

save ==
  /\ SavePage
  /\ kernel_buffer_list' =
       IF link THEN kernel_save(kernel_buffer_list, client.key[1], client.key[2], Page(client.value))
       ELSE kernel_buffer_list

remove(k) ==
  /\ network_remove(k)
  /\ kernel_buffer_list' = kernel_remove(kernel_buffer_list, k[1], k[2])

release ==
  /\ network_release
  /\ kernel_buffer_list' = kernel_release(kernel_buffer_list)

\* The steps that complete no call but a load, which changes no storage.
Inner ==
  /\ \/ \E k \in Keys : LoadHeader(k) \/ \E v \in Values : SaveHeader(k, v)
     \/ socket_recv \/ Break \/ Kill
     \/ \E c \in Conns : Server(c)
  /\ UNCHANGED kernel_buffer_list

StorageNext == init \/ save \/ release \/ (\E k \in Keys : remove(k)) \/ Inner

StorageSpec == StorageInit /\ [][StorageNext]_storageVars /\ Fairness

-----------------------------------------------------------------------------
(* Properties.                                                             *)

\* The kernel's list has one buffer for each stored page, with what was saved
\* last, and no other: each save finds the buffer of the one before it
\* (storage.c:133-235).
KernelHolds ==
  /\ Len(kernel_buffer_list) <= Cardinality(DOMAIN saved)
  /\ \A k \in DOMAIN saved :
       kernel_load(kernel_buffer_list, k[1], k[2], Page(Zero)) = Page(saved[k])
=============================================================================
