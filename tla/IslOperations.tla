--------------------------- MODULE IslOperations ---------------------------
(***************************************************************************)
(* The signatures of the isl wrappers (src/isl): for every operation, how  *)
(* it passes the native handles of the wrapper it is called on and of its  *)
(* parameters to the functions of isl that it calls.  The modes are        *)
(*   native    handle_ or native_handle()                                  *)
(*   copy      isl_x_copy(handle_)                                         *)
(*   release   a by-value parameter, whose handle is release()d            *)
(*   update    handle_ itself, which the result of the call then replaces  *)
(* Whether isl keeps or takes the handle is for isl to say: IslLibrary.    *)
(***************************************************************************)
EXTENDS Sequences

\* calls: the isl functions, without the prefix isl_, which get the handles, of
\* the operations with this signature; on, self: class and mode of the wrapper
\* called on; args: <<class, mode>> of the wrapper parameters; gives: the class
\* of the wrapper made from the result.
Sig(calls, on, self, args, gives) ==
    [calls |-> calls, on |-> on, self |-> self, args |-> args, gives |-> gives]

None == "none"
Static(calls, args, gives) == Sig(calls, None, None, args, gives)
Query(calls, on) == Sig(calls, on, "native", <<>>, None)
Getter(calls, on, gives) == Sig(calls, on, "native", <<>>, gives)
Update(calls, on, args) == Sig(calls, on, "update", args, None)
R(class) == <<class, "release">>
N(class) == <<class, "native">>
C(class) == <<class, "copy">>
\* f(x), f(lhs, rhs): free functions that give the class they are given.
Endo(calls, class) == Static(calls, <<R(class)>>, class)
Endo2(calls, class) == Static(calls, <<R(class), R(class)>>, class)
Align(call, class) == Static({call}, <<R(class), R("space")>>, class)
Compare(calls, class) == Static(calls, <<N(class), N(class)>>, None)

basic_set_ops ==
    { Static({"basic_set_read_from_str"}, <<>>, "basic_set"),
      Static({"basic_set_universe"}, <<R("space")>>, "basic_set"),
      Update({"basic_set_add_constraint"}, "basic_set", <<R("constraint")>>),
      Update({"basic_set_set_tuple_name"}, "basic_set", <<>>),
      Getter({"basic_set_get_space"}, "basic_set", "space"),
      Compare({"basic_set_is_equal", "basic_set_is_subset"}, "basic_set"),
      Query({"basic_set_is_empty"}, "basic_set"),
      Endo2({"basic_set_flat_product"}, "basic_set"),
      Align("basic_set_align_params", "basic_set"),
      Endo({"basic_set_add_dims", "basic_set_project_out"}, "basic_set") }

set_ops ==
    { Static({"set_read_from_str"}, <<>>, "set"),
      Static({"set_from_basic_set"}, <<R("basic_set")>>, "set"),
      Update({"set_add_constraint"}, "set", <<R("constraint")>>),
      Update({"set_set_tuple_name", "set_set_dim_name"}, "set", <<>>),
      Query({"set_dim", "set_get_tuple_name", "set_get_dim_name", "set_is_bounded"}, "set"),
      Getter({"set_get_space"}, "set", "space"),
      Static({"set_universe", "set_empty"}, <<R("space")>>, "set") }

set_functions ==
    { Endo2({"set_union", "set_intersect", "set_intersect_params", "set_subtract",
             "set_flat_product"}, "set"),
      Compare({"set_is_equal", "set_is_subset", "set_is_strict_subset"}, "set"),
      Query({"set_is_empty"}, "set"), Align("set_align_params", "set"),
      Endo({"set_complement", "set_params", "set_project_out", "set_lexmin", "set_lexmax",
            "set_add_dims", "set_coalesce", "set_detect_equalities",
            "set_remove_redundancies"}, "set") }

union_set_ops ==
    { Static({"union_set_read_from_str"}, <<>>, "union_set"),
      Static({"union_set_from_basic_set"}, <<R("basic_set")>>, "union_set"),
      Static({"union_set_from_set"}, <<R("set")>>, "union_set"),
      Getter({"union_set_foreach_set"}, "union_set", "set"),
      Static({"union_set_empty"}, <<R("space")>>, "union_set"),
      Endo2({"union_set_union", "union_set_intersect"}, "union_set"),
      Compare({"union_set_is_equal", "union_set_is_subset", "union_set_is_strict_subset"},
              "union_set"),
      Query({"union_set_is_empty"}, "union_set"),
      Static({"union_set_add_set"}, <<R("union_set"), R("set")>>, "union_set"),
      Static({"union_set_extract_set"}, <<N("union_set"), R("space")>>, "set"),
      Endo({"union_set_coalesce", "union_set_detect_equalities",
            "union_set_remove_redundancies"}, "union_set") }

basic_map_ops ==
    { Static({"basic_map_read_from_str"}, <<>>, "basic_map"),
      Query({"basic_map_get_tuple_name"}, "basic_map"),
      Update({"basic_map_set_tuple_name"}, "basic_map", <<>>),
      Update({"basic_map_set_tuple_id"}, "basic_map", <<R("id")>>),
      Update({"basic_map_add_constraint"}, "basic_map", <<R("constraint")>>),
      Static({"basic_map_universe", "basic_map_identity"}, <<R("space")>>, "basic_map"),
      Static({"basic_map_wrap"}, <<R("basic_map")>>, "basic_set"),
      Endo({"basic_map_project_out"}, "basic_map"),
      Endo2({"basic_map_apply_range"}, "basic_map"),
      Align("basic_map_align_params", "basic_map"),
      Compare({"basic_map_is_equal"}, "basic_map") }

map_projections_uncopied == {Getter({"map_domain", "map_range"}, "map", "set")}
map_projections == {Sig({"map_domain", "map_range"}, "map", "copy", <<>>, "set")}

map_ops ==
    { Static({"map_read_from_str"}, <<>>, "map"),
      Static({"map_from_basic_map"}, <<R("basic_map")>>, "map"),
      Getter({"map_get_space"}, "map", "space"),
      Getter({"map_get_tuple_id", "map_get_dim_id"}, "map", "id"),
      Query({"map_get_ctx", "map_is_injective", "map_get_tuple_name", "map_get_dim_name",
             "map_dim"}, "map"),
      Update({"map_set_tuple_name"}, "map", <<>>),
      Update({"map_set_tuple_id", "map_set_dim_id"}, "map", <<R("id")>>),
      Update({"map_add_constraint"}, "map", <<R("constraint")>>) }

map_functions ==
    { Static({"map_universe", "map_empty", "map_identity"}, <<R("space")>>, "map"),
      Static({"map_from_multi_aff"}, <<R("multi_affine_expr")>>, "map"),
      Static({"map_from_aff"}, <<R("affine_expr")>>, "map"),
      Compare({"map_is_equal"}, "map"),
      Static({"map_from_domain_and_range"}, <<R("set"), R("set")>>, "map"),
      Endo2({"map_apply_domain", "map_apply_range", "map_union", "map_intersect"}, "map"),
      Static({"set_apply"}, <<R("set"), R("map")>>, "set"),
      Static({"map_intersect_domain", "map_intersect_range"}, <<R("map"), R("set")>>, "map"),
      Endo({"map_project_out", "map_add_dims"}, "map") }

map_simplification ==
    { Endo({"map_fix_si", "map_reverse", "map_coalesce", "map_detect_equalities",
            "map_remove_redundancies"}, "map"),
      Endo2({"map_flat_product", "map_flat_range_product"}, "map"),
      Align("map_align_params", "map"),
      Static({"map_wrap"}, <<R("map")>>, "set") }

union_map_ops ==
    { Static({"union_map_read_from_str"}, <<>>, "union_map"),
      Static({"union_map_from_basic_map"}, <<R("basic_map")>>, "union_map"),
      Static({"union_map_from_map"}, <<R("map")>>, "union_map"),
      Getter({"union_map_get_space"}, "union_map", "space"),
      Getter({"union_map_foreach_map"}, "union_map", "map"),
      Query({"union_map_get_ctx", "union_map_is_injective"}, "union_map"),
      Sig({"union_map_domain", "union_map_range"}, "union_map", "copy", <<>>, "union_set"),
      Static({"union_map_empty"}, <<R("space")>>, "union_map") }

union_map_functions ==
    { Compare({"union_map_is_equal"}, "union_map"),
      Endo2({"union_map_apply_domain", "union_map_apply_range", "union_map_intersect",
             "union_map_union", "union_map_subtract", "union_map_flat_range_product"}, "union_map"),
      Static({"union_map_intersect_domain"}, <<R("union_map"), R("union_set")>>, "union_map"),
      Static({"union_map_add_map"}, <<R("union_map"), R("map")>>, "union_map"),
      Endo({"union_map_project_out", "union_map_coalesce", "union_map_detect_equalities",
            "union_map_remove_redundancies"}, "union_map"),
      Align("union_map_align_params", "union_map") }

affine_expr_ops ==
    { Static({"aff_val_on_domain"}, <<R("local_space"), R("value")>>, "affine_expr"),
      Static({"aff_var_on_domain"}, <<R("local_space")>>, "affine_expr"),
      Getter({"aff_get_constant_val"}, "affine_expr", "value"),
      Getter({"aff_get_space"}, "affine_expr", "space"),
      Query({"aff_get_ctx", "aff_is_cst"}, "affine_expr"),
      Endo2({"aff_add", "aff_sub", "aff_mul", "aff_div"}, "affine_expr"),
      Endo({"aff_add_constant_si", "aff_neg", "aff_floor"}, "affine_expr"),
      Static({"aff_mod_val"}, <<R("affine_expr"), R("value")>>, "affine_expr"),
      Align("aff_align_params", "affine_expr") }

ast_expr_ops ==
    { Query({"ast_expr_get_type", "ast_expr_get_op_type", "ast_expr_get_op_n_arg"}, "ast_expr"),
      Getter({"ast_expr_get_id"}, "ast_expr", "id"),
      Getter({"ast_expr_get_val"}, "ast_expr", "value"),
      Getter({"ast_expr_get_op_arg"}, "ast_expr", "ast_expr") }

ast_node_ops ==
    { Query({"ast_node_get_type", "ast_node_if_has_else"}, "ast_node"),
      Getter({"ast_node_for_get_iterator", "ast_node_for_get_init", "ast_node_for_get_cond",
              "ast_node_for_get_inc", "ast_node_if_get_cond", "ast_node_user_get_expr"},
             "ast_node", "ast_expr"),
      Getter({"ast_node_for_get_body", "ast_node_if_get_then", "ast_node_if_get_else",
              "ast_node_block_get_children", "ast_node_mark_get_node"}, "ast_node", "ast_node"),
      Getter({"ast_node_mark_get_id"}, "ast_node", "id") }

\* What the callbacks that a builder stores do is left out.
ast_builder_ops ==
    { Static({"ast_build_alloc"}, <<>>, "ast_builder"),
      Static({"ast_build_from_context"}, <<R("set")>>, "ast_builder"),
      Sig({"ast_build_ast_from_schedule"}, "ast_builder", "native", <<R("union_map")>>, "ast_node"),
      Sig({"ast_build_node_from_schedule"}, "ast_builder", "native", <<R("schedule")>>, "ast_node"),
      Sig({"ast_build_expr_from_pw_aff"}, "ast_builder", "native", <<R("pw_aff")>>, "ast_expr"),
      Sig({"ast_build_access_from_pw_multi_aff"}, "ast_builder", "native", <<R("pw_multi_aff")>>,
          "ast_expr"),
      Sig({"ast_build_expr_from_set"}, "ast_builder", "native", <<R("set")>>, "ast_expr"),
      Update({"ast_build_set_options"}, "ast_builder", <<R("union_map")>>),
      Update({"ast_build_set_create_leaf", "ast_build_set_at_each_domain",
              "ast_build_set_before_each_for", "ast_build_set_after_each_for"}, "ast_builder",
             <<>>),
      Getter({"ast_build_get_schedule"}, "ast_builder", "union_map"),
      Getter({"ast_build_get_schedule_space"}, "ast_builder", "space") }

constraint_ops ==
    { Update({"constraint_set_constant_si", "constraint_set_coefficient_si"}, "constraint", <<>>),
      Static({"equality_alloc", "inequality_alloc"}, <<R("local_space")>>, "constraint"),
      Static({"equality_from_aff", "inequality_from_aff"}, <<R("affine_expr")>>, "constraint") }

flow_ops ==
    { Update({"union_access_info_set_must_source", "union_access_info_set_may_source"},
             "union_access_info", <<R("union_map")>>),
      Update({"union_access_info_set_schedule"}, "union_access_info", <<R("schedule")>>),
      Static({"union_access_info_from_sink"}, <<R("union_map")>>, "union_access_info"),
      Getter({"union_flow_get_must_dependence", "union_flow_get_may_dependence"}, "union_flow",
             "union_map"),
      Static({"union_access_info_compute_flow"}, <<R("union_access_info")>>, "union_flow") }

id_ops ==
    {Static({"id_alloc"}, <<>>, "id"), Query({"id_get_name", "id_get_user"}, "id")}

local_space_ops == {Static({"local_space_from_space"}, <<R("space")>>, "local_space")}

\* The expressions of the vector are released one by one into an isl_aff_list,
\* which takes them and is taken.
multi_affine_expr_ops ==
    { Static({"multi_aff_from_aff_list"}, <<R("space"), R("affine_expr")>>, "multi_affine_expr") }

multi_union_pw_affine_expr_ops ==
    { Static({"pw_aff_from_aff"}, <<R("affine_expr")>>, "multi_union_pw_affine_expr"),
      Static({"multi_union_pw_aff_from_union_map"}, <<R("union_map")>>,
             "multi_union_pw_affine_expr") }

printer_ops ==
    { Static({"printer_to_str"}, <<>>, "printer"),
      Update({"printer_print_basic_set"}, "printer", <<N("basic_set")>>),
      Update({"printer_print_set"}, "printer", <<N("set")>>),
      Update({"printer_print_union_map"}, "printer", <<N("union_map")>>),
      Update({"printer_print_ast_node"}, "printer", <<N("ast_node")>>),
      Update({"printer_print_ast_expr"}, "printer", <<N("ast_expr")>>),
      Update({"printer_print_union_flow"}, "printer", <<N("union_flow")>>),
      Update({"printer_set_output_format", "printer_flush", "ast_op_type_print_macro"},
             "printer", <<>>) }

pw_aff_ops ==
    { Sig({"pw_aff_domain"}, "pw_aff", "copy", <<>>, "set"), Query({"pw_aff_is_cst"}, "pw_aff"),
      Static({"pw_aff_val_on_domain"}, <<R("set"), R("value")>>, "pw_aff"),
      Endo2({"pw_aff_add", "pw_aff_sub"}, "pw_aff"),
      Static({"set_from_pw_aff"}, <<R("pw_aff")>>, "set"),
      Static({"map_from_pw_aff"}, <<R("pw_aff")>>, "map") }

pw_multi_aff_ops ==
    { Getter({"pw_multi_aff_get_pw_aff"}, "pw_multi_aff", "pw_aff"),
      Static({"pw_multi_aff_from_map"}, <<R("map")>>, "pw_multi_aff"),
      Static({"pw_aff_pullback_pw_multi_aff"}, <<R("pw_aff"), R("pw_multi_aff")>>, "pw_aff"),
      Static({"set_lexmin_pw_multi_aff", "set_lexmax_pw_multi_aff"}, <<R("set")>>,
             "pw_multi_aff") }

schedule_ops ==
    { Static({"schedule_constraints_on_domain"}, <<C("union_set")>>, "schedule_constraints"),
      Update({"schedule_constraints_set_validity", "schedule_constraints_set_coincidence",
              "schedule_constraints_set_proximity"}, "schedule_constraints", <<C("union_map")>>),
      Static({"schedule_constraints_compute_schedule"}, <<R("schedule_constraints")>>, "schedule"),
      Query({"schedule_dump"}, "schedule"),
      Getter({"schedule_get_root"}, "schedule", "schedule_node"),
      Getter({"schedule_get_map"}, "schedule", "union_map"),
      Getter({"schedule_get_domain"}, "schedule", "union_set"),
      Static({"schedule_from_domain"}, <<R("union_set")>>, "schedule"),
      Static({"schedule_node_get_schedule"}, <<N("schedule_node")>>, "schedule"),
      Endo({"schedule_map_schedule_node_bottom_up"}, "schedule") }

schedule_node_ops ==
    { Query({"schedule_node_get_type", "schedule_node_n_children", "schedule_node_has_children",
             "schedule_node_band_n_member", "schedule_node_band_get_permutable"}, "schedule_node"),
      Getter({"schedule_node_get_child"}, "schedule_node", "schedule_node"),
      Sig({"schedule_node_parent"}, "schedule_node", "copy", <<>>, "schedule_node"),
      Getter({"schedule_node_band_get_partial_schedule_union_map",
              "schedule_node_get_prefix_schedule_union_map",
              "schedule_node_get_prefix_schedule_relation",
              "schedule_node_get_subtree_schedule_union_map"}, "schedule_node", "union_map"),
      Update({"schedule_node_band_member_set_coincident",
              "schedule_node_band_member_set_ast_loop_type",
              "schedule_node_band_member_set_isolate_ast_loop_type"}, "schedule_node", <<>>),
      Update({"schedule_node_band_set_ast_build_options"}, "schedule_node", <<R("union_set")>>),
      Getter({"schedule_node_get_domain"}, "schedule_node", "union_set"),
      Static({"schedule_node_from_domain"}, <<R("union_set")>>, "schedule_node"),
      Static({"schedule_node_from_extension"}, <<R("union_map")>>, "schedule_node") }

schedule_node_functions ==
    { Static({"schedule_node_insert_partial_schedule"},
             <<R("schedule_node"), R("multi_union_pw_affine_expr")>>, "schedule_node"),
      Static({"schedule_node_insert_context"}, <<R("schedule_node"), R("set")>>, "schedule_node"),
      Static({"schedule_node_insert_filter", "schedule_node_insert_set",
              "schedule_node_insert_sequence"}, <<R("schedule_node"), R("union_set")>>,
             "schedule_node"),
      Static({"schedule_node_insert_mark", "schedule_node_group"}, <<R("schedule_node"), R("id")>>,
             "schedule_node"),
      Endo({"schedule_node_band_tile"}, "schedule_node"),
      Endo2({"schedule_node_graft_before", "schedule_node_graft_after"}, "schedule_node") }

space_ops ==
    { Static({"space_params_alloc", "space_set_alloc", "space_alloc"}, <<>>, "space"),
      Query({"space_dim", "space_get_dim_name", "space_find_dim_by_name", "space_get_ctx"},
            "space"),
      Update({"space_set_tuple_name", "space_set_dim_name"}, "space", <<>>),
      Endo2({"space_map_from_domain_and_range", "space_align_params"}, "space"),
      Endo({"space_add_dims", "space_drop_dims"}, "space") }

value_ops ==
    {Static({"val_int_from_si"}, <<>>, "value"), Query({"val_get_num_si", "val_is_int"}, "value")}

IslSignatures ==
    UNION { basic_set_ops, set_ops, set_functions, union_set_ops, basic_map_ops, map_projections,
            map_ops, map_functions, map_simplification, union_map_ops, union_map_functions,
            affine_expr_ops, ast_expr_ops, ast_node_ops, ast_builder_ops, constraint_ops, flow_ops,
            id_ops, local_space_ops, multi_affine_expr_ops, multi_union_pw_affine_expr_ops,
            printer_ops, pw_aff_ops, pw_multi_aff_ops, schedule_ops, schedule_node_ops,
            schedule_node_functions, space_ops, value_ops }
=============================================================================
