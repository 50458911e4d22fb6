---------------------------- MODULE MCLifecycle ----------------------------
(* Two dongles, and lists as the program itself writes them: the ranks     *)
(* count from zero.                                                        *)
EXTENDS LifecycleProperties

UserLists1 == {<<[rank |-> 0, name |-> 2, by |-> "user"]>>}
=============================================================================
