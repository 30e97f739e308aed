----------------------------- MODULE StoredPage -----------------------------
(***************************************************************************)
(* src/src/stored_page.c: the list of stored pages, as a set of            *)
(* <<thread, page>>.  The one caller that adds looks first, so the list    *)
(* holds no page twice (generic_malloc.c:156-157).                         *)
(***************************************************************************)

is_stored_page(pid, start, list) == <<pid, start>> \in list

\* The pages that starts holds, one after the other.
add_stored_page(pid, starts, list) == list \cup ({pid} \X starts)

remove_stored_page(pid, starts, list) == list \ ({pid} \X starts)
=============================================================================
