-------------------------------- MODULE KList --------------------------------
(***************************************************************************)
(* Doubly linked lists, include/linux/list.h, as sequences.  An entry is   *)
(* on a list at most once, so a list is named by what its entries stand    *)
(* for (here: the task on whose stack the waiter lives).                   *)
(***************************************************************************)
EXTENDS Integers, Sequences

ListEntries(list) == {list[i] : i \in 1 .. Len(list)}

(* No entry is linked twice. *)
ListOK(list) ==
  \A i, j \in 1 .. Len(list) : i # j => list[i] # list[j]

list_add_tail(list, e) == Append(list, e)

(* list_add_tail(e, list->next): in front of all entries. *)
AddFirst(list, e) == <<e>> \o list

(* list_add_tail(e, prev->next): right behind prev, which is on the list. *)
AddBehind(list, prev, e) ==
  LET k == CHOOSE i \in 1 .. Len(list) : list[i] = prev
  IN  SubSeq(list, 1, k) \o <<e>> \o SubSeq(list, k + 1, Len(list))

(* Unlink e, which is on the list; the others keep their order. *)
list_del(list, e) ==
  LET k == CHOOSE i \in 1 .. Len(list) : list[i] = e
  IN  [i \in 1 .. Len(list) - 1 |-> IF i < k THEN list[i] ELSE list[i + 1]]
==============================================================================
