----------------------------- MODULE IslClasses -----------------------------
(***************************************************************************)
(* The special members that the headers of the isl wrappers declare.       *)
(*   copy         "copy", or "deleted"                                     *)
(*   move         "release" (the source keeps null), "copy" where no move  *)
(*                constructor is declared, "shallow" where it is defaulted *)
(*   assign       "by_value" (operator=(X other)), "free_copy" (free the   *)
(*                own handle, then copy the other), "shallow" (implicit:   *)
(*                the pointer is copied), "deleted"                        *)
(*   move_assign  "free_release" (free the own handle, then release() the  *)
(*                other), "swap", "shallow" (defaulted), "deleted", or     *)
(*                "assign": the assignment above serves rvalues as well    *)
(* The CUDA wrappers (CudaOperations) also have "free_null" (free the own, *)
(* copy the other, set the other to null) and "overwrite" (the same        *)
(* without freeing).                                                       *)
(***************************************************************************)
Members(class, copy, move, assign, move_assign) ==
    [class |-> class, copy |-> copy, move |-> move, assign |-> assign,
     move_assign |-> move_assign]

\* A class with copy constructor and assignment only: rvalues are copied.
CopyOnly(class, assign) == Members(class, "copy", "copy", assign, "assign")
MoveOnly(class, move, move_assign) == Members(class, "deleted", move, "deleted", move_assign)

basic_set == Members("basic_set", "copy", "release", "free_copy", "free_release")
set == Members("set", "copy", "release", "free_copy", "free_release")
union_set == Members("union_set", "copy", "release", "free_copy", "free_release")
basic_map == Members("basic_map", "copy", "release", "by_value", "assign")
map == Members("map", "copy", "release", "by_value", "assign")
union_map == Members("union_map", "copy", "release", "free_copy", "swap")
affine_expr == Members("affine_expr", "copy", "release", "by_value", "assign")
ast_expr == CopyOnly("ast_expr", "free_copy")
ast_node == CopyOnly("ast_node", "free_copy")
ast_builder == MoveOnly("ast_builder", "deleted", "deleted")
constraint == CopyOnly("constraint", "shallow")
union_access_info == CopyOnly("union_access_info", "by_value")
union_flow == MoveOnly("union_flow", "shallow", "shallow")
id == CopyOnly("id", "shallow")
local_space == CopyOnly("local_space", "shallow")
multi_affine_expr == CopyOnly("multi_affine_expr", "by_value")
multi_union_pw_affine_expr == CopyOnly("multi_union_pw_affine_expr", "shallow")
printer == MoveOnly("printer", "deleted", "deleted")
pw_aff == CopyOnly("pw_aff", "free_copy")
pw_multi_aff == CopyOnly("pw_multi_aff", "free_copy")
schedule_constraints == CopyOnly("schedule_constraints", "shallow")
schedule == CopyOnly("schedule", "free_copy")
schedule_node == CopyOnly("schedule_node", "free_copy")
space == CopyOnly("space", "by_value")
value == CopyOnly("value", "shallow")

IslMembers ==
    { basic_set, set, union_set, basic_map, map, union_map, affine_expr, ast_expr, ast_node,
      ast_builder, constraint, union_access_info, union_flow, id, local_space, multi_affine_expr,
      multi_union_pw_affine_expr, printer, pw_aff, pw_multi_aff, schedule_constraints, schedule,
      schedule_node, space, value }
=============================================================================
