----------------------------- MODULE IslLibrary -----------------------------
(***************************************************************************)
(* What isl and the CUDA driver do with a handle that they are given.  A   *)
(* parameter of isl is annotated __isl_take, and the function then owns    *)
(* one reference and gives it back to isl, or __isl_keep, and it only      *)
(* reads.  All functions that src/isl calls and that are not listed here   *)
(* take all of their parameters.  The driver takes none.                   *)
(***************************************************************************)
EXTENDS Integers

\* The predicates, getters and iterators: they keep every parameter.
SetsAndMapsKeep ==
    { "basic_set_get_space", "basic_set_is_equal", "basic_set_is_subset", "basic_set_is_empty",
      "set_dim", "set_get_tuple_name", "set_get_dim_name", "set_is_bounded", "set_get_space",
      "set_is_equal", "set_is_subset", "set_is_strict_subset", "set_is_empty",
      "union_set_foreach_set", "union_set_is_equal", "union_set_is_subset",
      "union_set_is_strict_subset", "union_set_is_empty",
      "basic_map_get_tuple_name", "basic_map_is_equal",
      "map_get_space", "map_get_tuple_id", "map_get_dim_id", "map_get_ctx", "map_is_injective",
      "map_get_tuple_name", "map_get_dim_name", "map_dim", "map_is_equal",
      "union_map_get_space", "union_map_foreach_map", "union_map_get_ctx",
      "union_map_is_injective", "union_map_is_equal" }

ExpressionsKeep ==
    { "aff_get_constant_val", "aff_get_space", "aff_get_ctx", "aff_is_cst",
      "pw_aff_is_cst", "pw_multi_aff_get_pw_aff", "id_get_name", "id_get_user",
      "val_get_num_si", "val_is_int",
      "space_dim", "space_get_dim_name", "space_find_dim_by_name", "space_get_ctx",
      "union_flow_get_must_dependence", "union_flow_get_may_dependence" }

AstKeep ==
    { "ast_expr_get_type", "ast_expr_get_op_type", "ast_expr_get_op_n_arg", "ast_expr_get_id",
      "ast_expr_get_val", "ast_expr_get_op_arg",
      "ast_node_get_type", "ast_node_if_has_else", "ast_node_for_get_iterator",
      "ast_node_for_get_init", "ast_node_for_get_cond", "ast_node_for_get_inc",
      "ast_node_if_get_cond", "ast_node_user_get_expr", "ast_node_for_get_body",
      "ast_node_if_get_then", "ast_node_if_get_else", "ast_node_block_get_children",
      "ast_node_mark_get_node", "ast_node_mark_get_id",
      "ast_build_get_schedule", "ast_build_get_schedule_space" }

SchedulesKeep ==
    { "schedule_dump", "schedule_get_root", "schedule_get_map", "schedule_get_domain",
      "schedule_node_get_schedule", "schedule_node_get_type", "schedule_node_n_children",
      "schedule_node_has_children", "schedule_node_band_n_member",
      "schedule_node_band_get_permutable", "schedule_node_get_child",
      "schedule_node_band_get_partial_schedule_union_map",
      "schedule_node_get_prefix_schedule_union_map", "schedule_node_get_prefix_schedule_relation",
      "schedule_node_get_subtree_schedule_union_map", "schedule_node_get_domain" }

\* A builder is kept by the functions that build; so is the set that is extracted from.
FirstKept ==
    { "union_set_extract_set", "ast_build_ast_from_schedule", "ast_build_node_from_schedule",
      "ast_build_expr_from_pw_aff", "ast_build_access_from_pw_multi_aff",
      "ast_build_expr_from_set" }

\* A printer is taken and given back; what it prints is kept.
SecondKept ==
    { "printer_print_basic_set", "printer_print_set", "printer_print_union_map",
      "printer_print_ast_node", "printer_print_ast_expr", "printer_print_union_flow" }

DriverCalls ==
    { "cuCtxPushCurrent", "cuCtxPopCurrent", "cuStreamAddCallback", "cuMemcpyAsync",
      "cuEventRecord", "cuEventQuery", "cuEventElapsedTime", "cuModuleGetFunction", "cuMemcpy" }

\* The parameters that the libraries keep, as <<function, position>>.
KeptParameters ==
    LET all == UNION {SetsAndMapsKeep, ExpressionsKeep, AstKeep, SchedulesKeep, DriverCalls}
    IN  ((all \cup FirstKept) \X {1}) \cup ((all \cup SecondKept) \X {2})
=============================================================================
