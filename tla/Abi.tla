-------------------------------- MODULE Abi --------------------------------
(* How a call of a built-in function reaches the C runtime.  Four hand-kept    *)
(* lists describe the same functions: the checker's prelude and the lowering's *)
(* result types, the Cranelift imports, and the LLVM declarations and the      *)
(* JIT's symbol table; all of them come first below.  The machine              *)
(* then links the JIT's symbols, declares the runtime and the program's own    *)
(* functions, and then compiles calls, as RealCraneliftBackend does.           *)
EXTENDS Naturals, Sequences, FiniteSets, SequencesExt

(* The lists of the runtime's functions.  First the symbols that the Cranelift *)
(* backend declares (src/src/codegen/cranelift/backend/declare_*.rs), then the *)
(* declarations of the LLVM backend and the symbols of the JIT, at the end the *)
(* types the checker and the lowering give the built-in functions.  A row is   *)
(*   << parameter registers, result register, imported symbols, other names >> *)
(* the symbols are declared with Linkage::Import and entered in func_ids under *)
(* their own name; the other names are entered in func_ids only.  Rows with    *)
(* one signature in one stretch of the source are one row here.                *)

RI == "I64"
RF == "F64"
RS == "F32"
RW == "I32"
RB == "I8"
NoReg == "none"

CoreOutput == {
    <<<<RI>>, NoReg, {"datara_rt_out_int", "datara_rt_out_bool", "datara_rt_out_str", "datara_rt_err",
      "datara_rt_pgo_hit_func", "datara_rt_pgo_set_output_file", "datara_rt_pgo_flush"}, {}>>,
    <<<<RF>>, NoReg, {"datara_rt_out_float"}, {}>>,
    <<<<RS>>, NoReg, {"datara_rt_out_f32"}, {}>>,
    <<<<RW>>, NoReg, {"datara_rt_exit"}, {"exit"}>>,
    <<<<RI, RI>>, NoReg, {"datara_rt_pgo_hit_branch", "datara_rt_pgo_hit_loop"}, {}>>,
    <<<<RI, RI>>, RI, {"datara_rt_str_concat", "datara_rt_str_concat_mut"}, {}>>,
    <<<<RI, RI, RI>>, RI, {"datara_rt_str_concat_3"}, {}>>,
    <<<<RI, RI, RI, RI>>, RI, {"datara_rt_str_concat_4"}, {}>>,
    <<<<RI, RI, RI, RI, RI>>, RI, {"datara_rt_str_concat_5"}, {}>>,
    <<<<RI>>, RI, {"datara_rt_int_to_str", "datara_rt_bool_to_str"}, {}>>,
    <<<<RF>>, RI, {"datara_rt_float_to_str"}, {}>> }

CoreLists == {
    <<<<RI>>, RI, {"datara_rt_dec_to_str", "malloc", "datara_rt_list_create", "datara_rt_list_len",
      "datara_rt_map_len"}, {}>>,
    <<<<RI, RI>>, RI, {"datara_rt_list_get", "datara_rt_list_append", "datara_rt_list_create_repeat",
      "datara_rt_map_get", "datara_rt_map_get_outcome", "datara_rt_map_contains"}, {}>>,
    <<<<RI, RI, RI>>, RI, {"datara_rt_list_set"}, {}>> }

CoreMaps == {
    <<<<RI, RI, RI>>, RI, {"datara_rt_map_insert", "datara_rt_map_insert_i64"}, {"datara_rt_list_set",
      "datara_rt_str_concat_3"}>>,
    <<<<RI, RI>>, RI, {"datara_rt_map_get_i64", "datara_rt_map_get_outcome_i64",
      "datara_rt_map_contains_i64", "datara_rt_map_create_i64_1", "datara_rt_range_str"},
      {"datara_rt_list_get", "datara_rt_list_append", "datara_rt_list_append_unchecked",
      "datara_rt_list_create_repeat", "datara_rt_str_concat", "datara_rt_str_concat_mut"}>>,
    <<<<RI, RI, RI, RI>>, RI, {"datara_rt_map_create_i64_2", "datara_rt_format_str_i64_str_i64"},
      {"datara_rt_str_concat_4"}>>,
    <<<<RI, RI, RI, RI, RI, RI>>, RI, {"datara_rt_map_create_i64_3"}, {}>>,
    <<<<RI, RI, RI, RI, RI, RI, RI, RI>>, RI, {"datara_rt_map_create_i64_4"}, {}>>,
    <<<<RI, RI, RI, RI, RI, RI, RI, RI, RI, RI>>, RI, {"datara_rt_map_create_i64_5"}, {}>>,
    <<<<RI>>, RI, {}, {"datara_rt_list_create", "datara_rt_list_len"}>>,
    <<<<RI, RI, RI, RI, RI>>, RI, {}, {"datara_rt_str_concat_5"}>>,
    <<<<>>, RI, {"datara_rt_map_create"}, {}>> }

CoreMapsStr == {
    <<<<RI, RI>>, RI, {"datara_rt_map_create_1"}, {"datara_rt_map_get", "datara_rt_map_get_outcome",
      "datara_rt_map_contains", "datara_rt_map_get_i64", "datara_rt_map_get_outcome_i64",
      "datara_rt_map_contains_i64", "datara_rt_map_create_i64_1", "datara_rt_range_str"}>>,
    <<<<RI, RI, RI, RI>>, RI, {"datara_rt_map_create_2"}, {"datara_rt_map_create_i64_2"}>>,
    <<<<RI, RI, RI, RI, RI, RI>>, RI, {"datara_rt_map_create_3"}, {"datara_rt_map_create_i64_3"}>>,
    <<<<RI, RI, RI, RI, RI, RI, RI, RI>>, RI, {"datara_rt_map_create_4"}, {"datara_rt_map_create_i64_4"}>>,
    <<<<RI, RI, RI, RI, RI, RI, RI, RI, RI, RI>>, RI, {"datara_rt_map_create_5"},
      {"datara_rt_map_create_i64_5"}>>,
    <<<<RI>>, RI, {"datara_rt_str_len", "datara_rt_str_chars"}, {"datara_rt_map_len", "str_len", "byte_len",
      "len", "datara_rt_byte_len", "datara_rt_len", "str_chars", "char_len", "datara_rt_char_len"}>>,
    <<<<RI, RI, RI>>, RI, {}, {"datara_rt_map_insert", "datara_rt_map_insert_i64"}>>,
    <<<<>>, RI, {"now_ms", "datara_rt_now_ns", "datara_rt_now_precise_ms"}, {"now", "datara_rt_now_ms",
      "now_ns", "now_precise_ms"}>>,
    <<<<>>, RF, {"datara_rt_time_precise_ms", "datara_rt_time_delta_ms"}, {"time_precise_ms",
      "time_delta_ms"}>>,
    <<<<RI>>, NoReg, {"datara_rt_sleep"}, {"sleep"}>> }

CoreStrings == {
    <<<<RI>>, RI, {"datara_rt_validate_utf8", "datara_rt_str_sanitize_utf8"}, {"validate_utf8",
      "str_sanitize_utf8"}>>,
    <<<<RI, RI>>, RI, {"datara_rt_str_scalar_at", "datara_rt_str_scalar_at_cp", "datara_rt_str_next_offset",
      "datara_rt_str_byte_at"}, {"str_scalar_at", "str_scalar_at_cp", "str_next_offset", "str_byte_at",
      "byte_at"}>>,
    <<<<RI>>, NoReg, {"datara_rt_print", "datara_rt_eprintln", "datara_rt_panic"}, {"print", "eprintln",
      "panic"}>>,
    <<<<RI, RI>>, NoReg, {"datara_rt_assert"}, {"assert"}>> }

CorePrint == {
    <<<<RI, RI>>, RI, {"datara_rt_int_fits"}, {}>>,
    <<<<RI, RI>>, NoReg, {"datara_rt_cast_overflow"}, {}>>,
    <<<<RI>>, RI, {"datara_rt_input"}, {"input", "read_line"}>>,
    <<<<RI>>, NoReg, {"datara_rt_print_str", "datara_rt_print_int", "datara_rt_print_bool",
      "datara_rt_print_dec64", "datara_rt_out_dec64", "datara_rt_print_list", "datara_rt_err_print_str",
      "datara_rt_err_print_int", "datara_rt_err_print_dec64_str"}, {}>>,
    <<<<RF>>, NoReg, {"datara_rt_print_float", "datara_rt_err_print_float"}, {}>>,
    <<<<RS>>, NoReg, {"datara_rt_print_f32"}, {}>> }

CoreInput == {
    <<<<RF>>, NoReg, {}, {"datara_rt_err_print_float"}>>,
    <<<<RI>>, NoReg, {"datara_rt_err_print_bool"}, {}>>,
    <<<<>>, NoReg, {"datara_rt_err_print_newline", "datara_rt_print_space", "datara_rt_print_newline",
      "datara_rt_flush"}, {}>>,
    <<<<RI>>, RI, {"datara_rt_input_int", "datara_rt_list_pop_outcome"}, {"input_int"}>>,
    <<<<RI>>, RF, {"datara_rt_input_float"}, {"input_float"}>>,
    <<<<>>, RI, {"datara_rt_fast_read_int"}, {"fast_read_int", "read_int"}>>,
    <<<<>>, RF, {"datara_rt_fast_read_float"}, {"fast_read_float", "read_float"}>>,
    <<<<RI, RI, RI>>, RI, {"datara_rt_checked_add_outcome", "datara_rt_checked_sub_outcome",
      "datara_rt_checked_mul_outcome", "datara_rt_list_sort"}, {}>> }

CoreListOps == {
    <<<<RI, RI, RI>>, RI, {"datara_rt_list_remove_value", "datara_rt_list_insert_at",
      "datara_rt_list_contains", "datara_rt_list_index_of", "datara_rt_list_slice"},
      {"datara_rt_list_sort"}>>,
    <<<<RI, RI>>, RI, {"datara_rt_list_remove_at", "datara_rt_proc_run_input"}, {}>>,
    <<<<RI>>, RI, {"datara_rt_list_reverse", "datara_rt_list_clear", "datara_rt_list_is_empty",
      "datara_rt_list_first", "datara_rt_list_last", "datara_rt_exec_utf8", "datara_rt_proc_spawn",
      "datara_rt_proc_wait"}, {"exec_utf8", "proc_spawn", "proc_wait"}>> }

CoreValues == {
    <<<<RI, RI>>, RI, {"datara_rt_str_cmp", "datara_rt_env_set", "datara_rt_file_write"}, {"proc_run_input",
      "str_cmp", "env_set"}>>,
    <<<<RI>>, RI, {"datara_rt_str_from_byte", "datara_rt_str_from_bytes", "datara_rt_str_bytes",
      "datara_rt_val_as_int_outcome", "datara_rt_val_as_float_outcome", "datara_rt_val_to_int_checked",
      "datara_rt_val_to_f64_bits_checked", "datara_rt_val_to_str_tagged", "datara_val_from_int",
      "datara_rt_val_from_f64_bits", "datara_val_from_bool", "datara_val_from_str", "datara_val_is_int",
      "datara_val_is_float", "datara_val_is_bool", "datara_val_is_str", "datara_val_to_int",
      "datara_val_to_bool", "datara_val_to_str"}, {"str_from_byte", "str_from_bytes", "str_bytes"}>>,
    <<<<RI, RI, RI>>, RI, {"datara_rt_slice"}, {}>>,
    <<<<RI>>, NoReg, {"datara_rt_out_dec64", "datara_rt_out_val"}, {}>> }

CoreFiles == {
    <<<<RI, RI>>, RI, {"datara_rt_file_append", "datara_rt_file_write_bytes"}, {"file_write", "write_file",
      "write", "file_append", "file_write_bytes"}>>,
    <<<<RI>>, RI, {"datara_rt_file_read", "datara_rt_file_read_bytes", "datara_rt_file_exists"},
      {"file_read", "read_file", "read", "file_read_bytes", "file_exists"}>> }

CoreChecked == {
    <<<<RI>>, RI, {"datara_rt_str_to_int_checked", "datara_rt_str_to_float_checked",
      "datara_rt_file_read_checked", "datara_rt_env_get_checked", "datara_rt_dir_list",
      "datara_rt_path_exists", "datara_rt_env_get"}, {"parse_int", "parse_float", "file_read_checked",
      "env_get_checked", "dir_list", "path_exists", "env_get"}>>,
    <<<<RI>>, NoReg, {"datara_rt_sleep"}, {"sleep"}>> }

CoreDeque == {
    <<<<RI, RI>>, RI, {"datara_rt_path_join"}, {"path_join"}>>,
    <<<<>>, RI, {"datara_rt_args_count"}, {"args_count"}>>,
    <<<<RI>>, RI, {"datara_rt_args_get", "datara_rt_chase_lev_create", "datara_rt_chase_lev_pop",
      "datara_rt_chase_lev_steal", "datara_rt_chase_lev_size"}, {"args_get"}>>,
    <<<<RW, RI>>, NoReg, {"datara_rt_set_args"}, {}>>,
    <<<<RI>>, NoReg, {"datara_rt_chase_lev_destroy"}, {}>>,
    <<<<RI, RI>>, NoReg, {"datara_rt_chase_lev_push"}, {}>>,
    <<<<RI, RI, RI>>, RI, {"datara_rt_fast_memcpy"}, {}>>,
    <<<<RI, RW, RI>>, RI, {"datara_rt_fast_memset"}, {}>>,
    <<<<RI, RI, RI>>, RW, {"datara_rt_fast_strncmp"}, {}>> }

CoreArena == {
    <<<<RI, RI, RI>>, RW, {"datara_rt_fast_memcmp"}, {}>>,
    <<<<RI>>, RW, {"datara_rt_pin_thread"}, {}>>,
    <<<<>>, RI, {"datara_rt_get_current_core", "datara_rt_arena_checkpoint"}, {"arena_checkpoint"}>>,
    <<<<RI>>, RI, {"datara_rt_arena_alloc"}, {"arena_alloc", "stack_alloc", "datara_rt_stack_alloc"}>>,
    <<<<RI>>, NoReg, {"datara_rt_arena_reset"}, {"arena_reset"}>>,
    <<<<>>, NoReg, {"datara_rt_pin_worker_threads"}, {}>> }

MemPointers == {
    <<<<>>, RI, {"datara_rt_arena_used"}, {"arena_used"}>>,
    <<<<>>, NoReg, {"datara_rt_arena_clear"}, {"arena_clear"}>>,
    <<<<RI>>, RI, {"datara_rt_mem_alloc"}, {"mem_alloc"}>>,
    <<<<RI>>, NoReg, {"datara_rt_mem_free"}, {"mem_free"}>>,
    <<<<RI, RI, RI>>, NoReg, {"datara_rt_mem_copy", "datara_rt_ptr_write_i64", "datara_rt_ptr_write_u8"},
      {"mem_copy", "ptr_write_i64", "ptr_write_u8"}>>,
    <<<<RI, RI>>, RI, {"datara_rt_ptr_read_i64", "datara_rt_ptr_read_u8"}, {"ptr_read_i64", "ptr_read_u8"}>>,
    <<<<RI, RI>>, RF, {"datara_rt_ptr_read_f64"}, {"ptr_read_f64"}>>,
    <<<<RI, RI, RF>>, NoReg, {"datara_rt_ptr_write_f64"}, {"ptr_write_f64"}>> }

MemArc == {
    <<<<>>, NoReg, {"datara_rt_cpu_fence"}, {"cpu_fence"}>>,
    <<<<RI>>, NoReg, {"datara_rt_cpu_prefetch", "datara_rt_arc_release", "datara_rt_weak_drop"},
      {"cpu_prefetch", "arc_release", "weak_drop"}>>,
    <<<<RI>>, RI, {"datara_rt_arc_init", "datara_rt_arc_acquire", "datara_rt_arc_count",
      "datara_rt_weak_create", "datara_rt_weak_upgrade"}, {"arc_init", "arc_acquire", "arc_count",
      "weak_create", "weak_upgrade"}>> }

ConcThreads == {
    <<<<RI>>, RI, {"spawn", "join", "channel_create", "channel_recv", "channel_try_recv", "channel_len"},
      {"datara_thread_spawn_wrap", "ThreadHandle_join", "datara_channel_create", "Channel_recv",
      "Channel_try_recv", "Channel_len", "datara_channel_len"}>>,
    <<<<RI, RI>>, RI, {"join_timeout", "channel_send"}, {"ThreadHandle_join_timeout", "Channel_send",
      "datara_channel_send_wrap"}>>,
    <<<<RI>>, NoReg, {"ThreadHandle_free", "channel_close", "Channel_free"}, {"datara_thread_free",
      "Channel_close", "datara_channel_close", "datara_channel_free"}>>,
    <<<<>>, RI, {"channel_new"}, {"Channel_new"}>> }

ConcParallel == {
    <<<<RI, RI, RI, RI>>, NoReg, {"parallel_for"}, {"datara_parallel_for"}>>,
    <<<<>>, RI, {"scratch_enter"}, {"datara_scratch_enter"}>>,
    <<<<RI, RI>>, RI, {"scratch_alloc", "scratch_promote"}, {"datara_scratch_alloc",
      "datara_scratch_promote"}>>,
    <<<<RI>>, NoReg, {"scratch_exit"}, {"datara_scratch_exit"}>> }

SysSlices == {
    <<<<>>, RI, {"datara_rt_sys_caps_create"}, {}>>,
    <<<<RI>>, RI, {"datara_sys_hton16", "datara_sys_ntoh16", "datara_sys_hton32", "datara_sys_ntoh32",
      "datara_sys_hton64", "datara_sys_ntoh64", "datara_sys_bswap16", "datara_sys_bswap32",
      "datara_sys_bswap64", "datara_sys_slice_alloc", "datara_sys_slice_len"}, {"hton16", "ntoh16",
      "hton32", "ntoh32", "hton64", "ntoh64", "bswap16", "bswap32", "bswap64", "slice_alloc",
      "SliceView_len"}>>,
    <<<<RI, RI>>, RI, {"datara_sys_slice_from_buffer", "datara_sys_slice_get_byte",
      "datara_sys_slice_read_u16_be", "datara_sys_slice_read_u16_le", "datara_sys_slice_read_u32_be",
      "datara_sys_slice_read_u32_le", "datara_sys_slice_read_u64_be", "datara_sys_slice_read_u64_le"},
      {"slice_from_buffer", "SliceView_get_byte", "SliceView_read_u16_be", "SliceView_read_u16_le",
      "SliceView_read_u32_be", "SliceView_read_u32_le", "SliceView_read_u64_be", "SliceView_read_u64_le"}>>,
    <<<<RI>>, NoReg, {"datara_sys_slice_free"}, {"slice_free", "SliceView_free"}>>,
    <<<<RI, RI, RI>>, NoReg, {"datara_sys_slice_set_byte", "datara_sys_slice_write_u16_be",
      "datara_sys_slice_write_u16_le", "datara_sys_slice_write_u32_be", "datara_sys_slice_write_u32_le",
      "datara_sys_slice_write_u64_be", "datara_sys_slice_write_u64_le"}, {"SliceView_set_byte",
      "SliceView_write_u16_be", "SliceView_write_u16_le", "SliceView_write_u32_be",
      "SliceView_write_u32_le", "SliceView_write_u64_be", "SliceView_write_u64_le"}>> }

SysVolatile == {
    <<<<RI, RI, RI>>, RI, {"datara_sys_slice_subslice"}, {"SliceView_subslice"}>>,
    <<<<RI>>, RI, {"datara_hw_volatile_read8", "datara_hw_volatile_read16", "datara_hw_volatile_read32",
      "datara_hw_volatile_read64", "datara_hw_volatile_ptr", "datara_hw_typed_zero_init"},
      {"volatile_read8", "VolatilePtr_read8", "volatile_read16", "VolatilePtr_read16", "volatile_read32",
      "VolatilePtr_read32", "volatile_read64", "VolatilePtr_read64", "volatile_ptr", "typed_zero_init"}>>,
    <<<<RI, RI>>, NoReg, {"datara_hw_volatile_write8", "datara_hw_volatile_write16",
      "datara_hw_volatile_write32", "datara_hw_volatile_write64"}, {"volatile_write8", "VolatilePtr_write8",
      "volatile_write16", "VolatilePtr_write16", "volatile_write32", "VolatilePtr_write32",
      "volatile_write64", "VolatilePtr_write64"}>>,
    <<<<>>, NoReg, {"datara_hw_atomic_fence_acquire", "datara_hw_atomic_fence_release",
      "datara_hw_atomic_fence_acq_rel", "datara_hw_atomic_fence_seq_cst"}, {"atomic_fence_acquire",
      "atomic_fence_release", "atomic_fence_acq_rel", "atomic_fence_seq_cst"}>>,
    <<<<RI>>, NoReg, {"datara_hw_atomic_fence"}, {"atomic_fence"}>> }

ExtSearch == {
    <<<<RI, RI>>, RI, {"datara_rt_str_contains", "datara_rt_str_starts_with", "datara_rt_str_ends_with",
      "datara_rt_str_index_of"}, {"str_contains", "str_starts_with", "str_ends_with", "str_index_of"}>>,
    <<<<RI>>, RI, {"datara_rt_str_trim", "datara_rt_str_to_int"}, {"str_trim", "str_to_int"}>>,
    <<<<RI>>, RF, {"datara_rt_str_to_float"}, {"str_to_float"}>> }

ExtSubstring == {
    <<<<RI, RI>>, RI, {"datara_rt_str_cp_to_byte", "datara_rt_str_byte_to_cp", "datara_rt_str_char_at",
      "datara_rt_str_repeat"}, {"str_cp_to_byte", "str_byte_to_cp", "str_char_at", "char_at", "str_repeat",
      "repeat"}>>,
    <<<<RI, RI, RI>>, RI, {"datara_rt_str_substring_cp", "datara_rt_str_substring",
      "datara_rt_str_pad_left", "datara_rt_str_pad_right", "datara_rt_str_replace"}, {"str_substring_cp",
      "str_substring", "str_substr", "substring", "str_pad_left", "pad_left", "str_pad_right",
      "pad_right"}>> }

ExtCase == {
    <<<<RI, RI, RI>>, RI, {}, {"datara_rt_str_replace", "str_replace", "replace"}>>,
    <<<<RI>>, RI, {"datara_rt_str_to_upper", "datara_rt_str_to_lower", "datara_rt_format_int_with_commas"},
      {"str_to_upper", "to_upper", "str_to_lower", "to_lower", "format_int_with_commas"}>>,
    <<<<RI, RI>>, RI, {"datara_rt_str_split", "datara_rt_str_join"}, {"str_split", "split", "str_join",
      "join"}>>,
    <<<<RF, RI>>, RI, {"datara_rt_format_percent"}, {"format_percent"}>> }

ExtScript == {
    <<<<RI>>, RI, {"datara_js_eval", "datara_js_require", "datara_js_eval_int", "datara_js_call_0",
      "datara_js_get_global", "datara_rt_socket_create"}, {"js_eval", "js_require", "js_eval_int",
      "js_call_0", "js_get_global"}>>,
    <<<<RI>>, RF, {"datara_js_eval_float"}, {"js_eval_float"}>>,
    <<<<RI, RI>>, RI, {"datara_js_call", "datara_js_call_1", "datara_js_set_global",
      "datara_js_export_list_f64", "datara_js_assert_same_ptr", "datara_rt_str_eq"}, {"js_call",
      "js_call_1", "js_set_global", "str_eq"}>>,
    <<<<RI, RI, RI>>, RI, {"datara_js_call_2"}, {"js_call_2"}>> }

ExtSockets == {
    <<<<RI>>, RI, {"datara_rt_socket_accept"}, {"datara_rt_socket_create", "socket_create",
      "socket_accept"}>>,
    <<<<RI, RI, RI>>, RI, {"datara_rt_socket_bind", "datara_rt_socket_connect"}, {"socket_bind",
      "socket_connect"}>>,
    <<<<RI, RI>>, RI, {"datara_rt_socket_listen", "datara_rt_socket_send", "datara_rt_socket_recv"},
      {"socket_listen", "socket_send", "socket_recv"}>> }

ExtHttp == {
    <<<<RI>>, NoReg, {"datara_rt_socket_close"}, {"socket_close"}>>,
    <<<<RI, RI>>, RI, {"datara_rt_socket_set_timeout", "datara_rt_socket_nonblocking",
      "datara_rt_socket_recv_outcome"}, {"socket_set_timeout", "socket_nonblocking",
      "socket_recv_outcome"}>>,
    <<<<RI>>, RI, {"datara_rt_http_get", "datara_rt_str_len", "datara_rt_int_to_str"}, {"http_get",
      "str_len", "int_to_str"}>>,
    <<<<RF>>, RI, {"datara_rt_float_to_str"}, {"float_to_str"}>>,
    <<<<RF, RI>>, RI, {"datara_rt_float_to_str_prec"}, {"float_to_str_prec"}>> }

ExtFormat == {
    <<<<RI, RI, RI>>, RI, {"datara_rt_int_to_str_radix"}, {"int_to_str_radix"}>>,
    <<<<RI, RI>>, RI, {"datara_rt_dec64_to_str_prec", "datara_rt_dialog_info", "datara_rt_dialog_alert",
      "datara_rt_dialog_confirm"}, {"dec64_to_str_prec"}>>,
    <<<<RI>>, RI, {"datara_rt_bool_to_str", "datara_rt_sha256", "datara_rt_base64_encode",
      "datara_rt_base64_decode", "datara_rt_system", "datara_rt_exec"}, {"bool_to_str", "sha256",
      "base64_encode", "base64_decode", "system", "process_run", "exec", "process_output"}>>,
    <<<<>>, RI, {"datara_rt_uuid_v4"}, {"uuid_v4"}>>,
    <<<<RI, RI, RI, RI>>, NoReg, {"datara_rt_parallel_for"}, {}>> }

ExtFibers == {
    <<<<RI, RI, RI, RI>>, NoReg, {"datara_rt_parallel_invoke"}, {"datara_rt_parallel_for", "parallel_for",
      "parallel_invoke"}>>,
    <<<<RI, RI, RI>>, RI, {"datara_rt_fiber_spawn", "datara_rt_schedule_run"}, {}>>,
    <<<<>>, NoReg, {"datara_rt_fiber_yield", "datara_rt_fiber_reset", "datara_rt_fiber_mt_wait_idle",
      "datara_rt_fiber_mt_shutdown"}, {}>>,
    <<<<RI>>, NoReg, {"datara_rt_fiber_sleep_ms"}, {}>>,
    <<<<RI>>, RI, {"datara_rt_fiber_join", "datara_rt_fiber_mt_start", "datara_rt_fiber_mt_join",
      "datara_rt_fiber_chan_recv"}, {}>>,
    <<<<>>, RI, {"datara_rt_fiber_run_until_done", "datara_rt_fiber_count", "datara_rt_fiber_done_count",
      "datara_rt_fiber_chan_create", "datara_rt_fiber_now_ms", "datara_rt_fiber_mt_done_count",
      "datara_rt_fiber_mt_spawned", "datara_rt_num_workers"}, {"num_workers"}>>,
    <<<<RI, RI>>, NoReg, {"datara_rt_fiber_chan_send"}, {}>>,
    <<<<RI, RI>>, RI, {"datara_rt_fiber_mt_spawn"}, {}>> }

ExtSchedule == {
    <<<<RI, RI, RI>>, RI, {"datara_rt_math_clamp_int"}, {"datara_rt_schedule_run", "schedule_run",
      "math_clamp_int"}>>,
    <<<<RI>>, NoReg, {"datara_rt_schedule_cancel"}, {"schedule_cancel"}>>,
    <<<<RF>>, RF, {"sqrt", "datara_rt_math_abs", "sin", "cos", "tan", "floor", "ceil", "round", "log",
      "exp"}, {"math_sqrt", "datara_rt_math_sqrt", "math_abs", "math_sin", "datara_rt_math_sin", "math_cos",
      "datara_rt_math_cos", "math_tan", "datara_rt_math_tan", "math_floor", "datara_rt_math_floor",
      "math_ceil", "datara_rt_math_ceil", "math_round", "datara_rt_math_round", "math_log",
      "datara_rt_math_log", "math_exp", "datara_rt_math_exp"}>>,
    <<<<RF, RF>>, RF, {"pow", "fmin", "fmax", "hypot"}, {"math_pow", "datara_rt_math_pow", "math_min",
      "datara_rt_math_min", "math_max", "datara_rt_math_max", "math_hypot", "datara_rt_math_hypot"}>>,
    <<<<RF, RF, RF>>, RF, {"datara_rt_math_clamp"}, {"math_clamp"}>>,
    <<<<RI, RI>>, RI, {"datara_rt_math_min_int", "datara_rt_math_max_int", "datara_rt_math_shr",
      "datara_rt_math_shl"}, {"math_min_int", "math_max_int", "math_shr", "shr", "math_shl", "shl"}>>,
    <<<<RI>>, RI, {"datara_rt_math_abs_int"}, {}>> }

ExtMath == {
    <<<<RI>>, RI, {"datara_rt_math_ctz", "datara_rt_own_acquire"}, {"datara_rt_math_abs_int",
      "math_abs_int", "math_ctz", "ctz"}>>,
    <<<<RI, RI>>, RI, {"datara_rt_math_shr", "datara_rt_math_shl", "datara_rt_math_xor",
      "datara_rt_math_and", "datara_rt_math_or"}, {"math_shr", "shr", "math_shl", "shl", "math_xor", "xor",
      "math_and", "and", "math_or", "or"}>>,
    <<<<RI>>, NoReg, {"datara_rt_free", "datara_rt_str_free", "datara_rt_list_free", "datara_rt_map_free",
      "datara_rt_own_release", "datara_rt_cap_set_mask", "datara_rt_cap_revoke", "datara_rt_cap_grant"},
      {"free", "cap_set_mask", "cap_revoke", "cap_grant"}>>,
    <<<<>>, RI, {"datara_rt_cap_get_mask"}, {"cap_get_mask"}>>,
    <<<<RI, RI>>, NoReg, {"datara_rt_cap_require"}, {"cap_require"}>> }

ExtStrBuf == {
    <<<<>>, RI, {"datara_rt_strbuf_new"}, {}>>,
    <<<<RI, RI>>, RI, {"datara_rt_strbuf_push", "datara_rt_strbuf_push_int"}, {}>>,
    <<<<RI>>, RI, {"datara_rt_strbuf_join", "datara_rt_strbuf_len"}, {}>> }

NatVarImports == {
    <<<<>>, RI, {"datara_rt_mutex_new"}, {"mutex_new"}>>,
    <<<<RI, RI>>, RI, {"datara_rt_mutex_lock"}, {"mutex_lock"}>>,
    <<<<RI>>, NoReg, {"datara_rt_mutex_unlock"}, {"mutex_unlock"}>>,
    <<<<RI>>, RI, {"datara_rt_fiber_is_done", "datara_rt_map_keys_str", "datara_rt_map_keys_int",
      "datara_rt_map_values"}, {"fiber_is_done", "map_keys", "map_keys_int", "map_values",
      "map_values_str"}>> }

AtomicImports == {
    <<<<RI>>, RI, {"datara_rt_atomic_new", "datara_rt_atomic_load"}, {"atomic_new", "atomic_load"}>>,
    <<<<RI, RI>>, RI, {"datara_rt_atomic_store", "datara_rt_atomic_fetch_add"}, {"atomic_store",
      "atomic_fetch_add"}>>,
    <<<<RI, RI, RI>>, RI, {"datara_rt_atomic_cas", "datara_rt_fiber_net_recv"}, {}>> }

-----------------------------------------------------------------------------
(* The other two lists of the same runtime: the declarations the LLVM backend  *)
(* prints at the head of a module, the extern block the JIT is linked against, *)
(* and the names under which the JIT registers those functions.                *)

LlvmFibers == {
    <<<<RB>>, NoReg, {"llvm.assume"}>>,
    <<<<>>, NoReg, {"datara_rt_overflow_panic", "datara_rt_div_zero_panic", "datara_rt_fiber_yield",
      "datara_rt_fiber_reset", "datara_rt_fiber_mt_wait_idle", "datara_rt_fiber_mt_shutdown"}>>,
    <<<<RI, RI, RI>>, RI, {"datara_rt_fiber_spawn"}>>,
    <<<<RI>>, NoReg, {"datara_rt_fiber_sleep_ms", "datara_rt_out_val", "datara_rt_panic"}>>,
    <<<<RI>>, RI, {"datara_rt_fiber_join", "datara_rt_fiber_chan_recv", "datara_rt_fiber_mt_start",
      "datara_rt_fiber_mt_join", "datara_val_from_int", "datara_rt_val_from_f64_bits",
      "datara_val_from_bool", "datara_val_from_str", "datara_val_is_int", "datara_val_is_float",
      "datara_val_is_bool", "datara_val_is_str", "datara_val_to_int", "datara_val_to_bool",
      "datara_val_to_str", "datara_rt_val_as_int_outcome", "datara_rt_val_as_float_outcome",
      "datara_rt_val_to_int_checked", "datara_rt_val_to_f64_bits_checked", "datara_rt_val_to_str_tagged"}>>,
    <<<<>>, RI, {"datara_rt_fiber_run_until_done", "datara_rt_fiber_count", "datara_rt_fiber_done_count",
      "datara_rt_fiber_chan_create", "datara_rt_fiber_now_ms", "datara_rt_fiber_mt_done_count",
      "datara_rt_fiber_mt_spawned"}>>,
    <<<<RI, RI>>, NoReg, {"datara_rt_fiber_chan_send"}>>,
    <<<<RI, RI>>, RI, {"datara_rt_fiber_mt_spawn", "llvm.sadd.sat.i64", "llvm.ssub.sat.i64",
      "datara_rt_checked_add", "datara_rt_checked_sub", "datara_rt_checked_mul", "datara_rt_checked_div",
      "datara_rt_checked_rem", "datara_rt_saturating_add", "datara_rt_saturating_sub",
      "datara_rt_saturating_mul", "datara_rt_wrapping_add", "datara_rt_wrapping_sub"}>>,
    <<<<RI>>, RF, {"datara_val_to_float"}>> }

LlvmLists == {
    <<<<RI, RI>>, RI, {"datara_rt_wrapping_mul", "datara_rt_list_get_unchecked", "datara_rt_list_get"}>>,
    <<<<RI, RI, RI>>, RI, {"datara_rt_list_set_unchecked", "datara_rt_list_set"}>>,
    <<<<RI, RI>>, RF, {"datara_rt_list_get_f64_unchecked", "datara_rt_list_get_f64"}>>,
    <<<<RI, RI, RF>>, RI, {"datara_rt_list_set_f64_unchecked", "datara_rt_list_set_f64"}>>,
    <<<<RI>>, RI, {"datara_rt_own_acquire", "datara_rt_arc_init", "datara_rt_arc_acquire",
      "datara_rt_arc_count", "datara_rt_weak_create", "datara_rt_weak_upgrade"}>>,
    <<<<RI>>, NoReg, {"datara_rt_own_release", "datara_rt_arc_release", "datara_rt_weak_drop",
      "datara_rt_free", "datara_rt_out_int", "datara_rt_print_dec64", "datara_rt_out_dec64",
      "datara_rt_out_bool", "datara_rt_out_str", "datara_rt_err", "datara_rt_err_print_str",
      "datara_rt_err_print_int"}>>,
    <<<<RF>>, NoReg, {"datara_rt_out_float"}>>,
    <<<<RS>>, NoReg, {"datara_rt_print_f32"}>> }

LlvmStrings == {
    <<<<RI>>, NoReg, {"datara_rt_err_print_dec64_str", "datara_rt_print_str", "datara_rt_print_int",
      "datara_rt_print_bool", "datara_rt_print_list"}>>,
    <<<<RF>>, NoReg, {"datara_rt_print_float"}>>,
    <<<<>>, NoReg, {"datara_rt_print_space", "datara_rt_print_newline", "datara_rt_flush",
      "datara_py_clear_error"}>>,
    <<<<RI, RI>>, RI, {"datara_rt_str_concat", "datara_rt_str_concat_mut", "datara_rt_dec64_to_str_prec",
      "datara_rt_int_to_str_radix", "datara_rt_str_scalar_at", "datara_rt_str_scalar_at_cp",
      "datara_rt_str_next_offset", "datara_rt_str_char_at", "datara_rt_str_byte_at", "datara_rt_str_eq",
      "datara_rt_str_cmp", "datara_rt_env_set", "datara_py_call", "datara_py_call_1_str",
      "datara_py_call_1_int", "datara_py_call_list_f64", "datara_rt_atomic_store",
      "datara_rt_atomic_fetch_add", "datara_rt_str_contains", "datara_rt_str_starts_with",
      "datara_rt_str_ends_with", "datara_rt_str_index_of", "datara_rt_str_repeat", "datara_rt_range_str",
      "datara_rt_str_split", "datara_rt_str_join", "datara_rt_int_fits", "datara_rt_file_write",
      "datara_rt_file_write_bytes", "datara_rt_file_append", "datara_rt_str_cp_to_byte",
      "datara_rt_str_byte_to_cp", "datara_rt_list_create_2", "datara_rt_list_create_repeat",
      "datara_rt_list_append_slow", "datara_rt_list_append"}>>,
    <<<<RI, RI, RI>>, RI, {"datara_rt_str_concat_3", "datara_py_call_2_int", "datara_rt_atomic_cas",
      "datara_rt_fiber_net_recv", "datara_rt_str_substring", "datara_rt_str_pad_left",
      "datara_rt_str_pad_right", "datara_rt_str_replace", "datara_rt_str_substring_cp",
      "datara_rt_list_create_3"}>>,
    <<<<RI, RI, RI, RI>>, RI, {"datara_rt_str_concat_4", "datara_rt_format_str_i64_str_i64",
      "datara_rt_list_create_4"}>>,
    <<<<RI, RI, RI, RI, RI>>, RI, {"datara_rt_str_concat_5", "datara_rt_list_create_5"}>>,
    <<<<RI>>, RI, {"datara_rt_int_to_str", "datara_rt_dec_to_str", "datara_rt_bool_to_str",
      "datara_rt_str_len", "datara_rt_byte_len", "datara_rt_str_chars", "datara_rt_char_len",
      "datara_rt_str_sanitize_utf8", "datara_py_eval_int", "datara_py_eval_batch", "datara_py_eval",
      "datara_py_eval_safe", "datara_rt_atomic_new", "datara_rt_atomic_load", "datara_lua_eval_int",
      "datara_lua_exec", "datara_rt_str_from_byte", "datara_rt_str_from_bytes", "datara_rt_str_bytes",
      "datara_rt_str_trim", "datara_rt_str_to_int", "datara_rt_str_to_upper", "datara_rt_str_to_lower",
      "datara_rt_format_int_with_commas", "datara_rt_file_read", "datara_rt_file_read_bytes",
      "datara_rt_file_exists", "datara_rt_file_read_checked", "datara_rt_str_to_int_checked",
      "datara_rt_str_to_float_checked", "datara_rt_env_get", "datara_rt_env_get_checked", "datara_rt_exec",
      "datara_rt_args_get", "datara_rt_dir_list", "datara_rt_path_exists", "datara_rt_list_create",
      "datara_rt_list_create_1", "datara_rt_stack_alloc"}>>,
    <<<<RF>>, RI, {"datara_rt_float_to_str"}>>,
    <<<<RF, RI>>, RI, {"datara_rt_float_to_str_prec", "datara_rt_format_percent"}>>,
    <<<<RI>>, RW, {"datara_rt_validate_utf8", "datara_py_exec", "datara_py_import"}>>,
    <<<<RI>>, RF, {"datara_py_eval_float", "datara_lua_eval_float", "datara_rt_str_to_float"}>>,
    <<<<RI, RF>>, RF, {"datara_py_call_1_float"}>>,
    <<<<RI, RF, RF>>, RF, {"datara_py_call_2_float"}>>,
    <<<<>>, RI, {"datara_py_last_error", "datara_rt_args_count"}>>,
    <<<<>>, RW, {"datara_py_is_available"}>>,
    <<<<RI, RI>>, RW, {"datara_py_export_list_f64", "datara_py_assert_same_ptr"}>>,
    <<<<RI, RI>>, NoReg, {"datara_rt_assert", "datara_rt_cast_overflow"}>>,
    <<<<RW>>, NoReg, {"datara_rt_exit"}>> }

LlvmMaps == {
    <<<<RI, RI>>, RI, {"datara_rt_list_append_unchecked", "datara_rt_list_remove_at",
      "datara_rt_proc_run_input", "datara_rt_map_create_1", "datara_rt_map_get", "datara_rt_map_get_i64",
      "datara_rt_map_get_outcome", "datara_rt_map_get_outcome_i64", "datara_rt_map_contains",
      "datara_rt_map_contains_i64", "datara_rt_map_create_i64_1", "datara_rt_mutex_lock",
      "datara_rt_path_join", "datara_rt_socket_listen", "datara_rt_socket_send", "datara_rt_socket_recv",
      "datara_rt_math_min_int", "datara_rt_math_max_int", "datara_rt_math_shr", "datara_rt_math_shl",
      "datara_rt_random_bytes", "datara_rt_dialog_info", "datara_rt_dialog_alert",
      "datara_rt_dialog_confirm", "datara_rt_list_init_stack"}>>,
    <<<<RI, RF>>, RI, {"datara_rt_list_append_f64_unchecked"}>>,
    <<<<RI>>, RI, {"datara_rt_list_len", "datara_rt_list_reverse", "datara_rt_list_clear",
      "datara_rt_list_is_empty", "datara_rt_list_first", "datara_rt_list_last",
      "datara_rt_list_pop_outcome", "datara_rt_exec_utf8", "datara_rt_proc_spawn", "datara_rt_proc_wait",
      "datara_rt_map_len", "datara_rt_map_keys_str", "datara_rt_fiber_is_done", "datara_rt_map_keys_int",
      "datara_rt_map_values", "datara_rt_http_get", "datara_rt_socket_create", "datara_rt_socket_accept",
      "datara_rt_math_abs_int", "datara_rt_math_ctz", "malloc", "datara_rt_sha256",
      "datara_rt_base64_encode", "datara_rt_base64_decode", "datara_rt_system", "datara_rt_schedule_cancel",
      "datara_rt_pool_alloc", "datara_rt_box_alloc", "datara_rt_box_get", "datara_rt_str_sso",
      "datara_rt_str_is_sso", "datara_rt_list_is_small_vec", "datara_rt_chase_lev_create",
      "datara_rt_chase_lev_pop"}>>,
    <<<<RI, RI, RI>>, RI, {"datara_rt_list_sort", "datara_rt_list_remove_value", "datara_rt_list_insert_at",
      "datara_rt_list_contains", "datara_rt_list_index_of", "datara_rt_list_slice",
      "datara_rt_checked_add_outcome", "datara_rt_checked_sub_outcome", "datara_rt_checked_mul_outcome",
      "datara_rt_map_insert", "datara_rt_map_insert_i64", "datara_rt_socket_bind",
      "datara_rt_socket_connect", "datara_rt_math_clamp_int", "datara_rt_schedule_run"}>>,
    <<<<>>, RI, {"datara_rt_map_create", "datara_rt_mutex_new", "datara_rt_now_ms", "datara_rt_now_ns",
      "datara_rt_now_precise_ms", "datara_rt_uuid_v4", "datara_rt_num_workers",
      "datara_rt_heap_alloc_count"}>>,
    <<<<RI, RI, RI, RI>>, RI, {"datara_rt_map_create_2", "datara_rt_map_create_i64_2"}>>,
    <<<<RI, RI, RI, RI, RI, RI>>, RI, {"datara_rt_map_create_3", "datara_rt_map_create_i64_3"}>>,
    <<<<RI, RI, RI, RI, RI, RI, RI, RI>>, RI, {"datara_rt_map_create_4", "datara_rt_map_create_i64_4"}>>,
    <<<<RI, RI, RI, RI, RI, RI, RI, RI, RI, RI>>, RI, {"datara_rt_map_create_5",
      "datara_rt_map_create_i64_5"}>>,
    <<<<RI>>, NoReg, {"datara_rt_mutex_unlock", "datara_rt_map_free", "datara_rt_sleep",
      "datara_rt_socket_close", "free", "datara_rt_box_free", "datara_rt_pgo_hit_func",
      "datara_rt_pgo_set_output_file", "datara_rt_pgo_flush", "datara_rt_chase_lev_destroy"}>>,
    <<<<RF>>, RF, {"datara_rt_math_sqrt", "datara_rt_math_log", "datara_rt_math_exp", "datara_rt_math_abs",
      "datara_rt_math_sin", "datara_rt_math_cos", "datara_rt_math_tan", "datara_rt_math_floor",
      "datara_rt_math_ceil", "datara_rt_math_round"}>>,
    <<<<RF, RF, RF>>, RF, {"datara_rt_math_clamp"}>>,
    <<<<RF, RF>>, RF, {"datara_rt_math_pow", "datara_rt_math_min", "datara_rt_math_max",
      "datara_rt_math_hypot"}>>,
    <<<<RI, RB>>, RI, {"llvm.cttz.i64"}>>,
    <<<<RI, RI, RI, RI>>, NoReg, {"datara_rt_parallel_for", "datara_rt_parallel_invoke"}>>,
    <<<<RI, RI>>, NoReg, {"datara_rt_pool_free", "datara_rt_pgo_hit_branch", "datara_rt_pgo_hit_loop",
      "datara_rt_chase_lev_push"}>>,
    <<<<>>, NoReg, {"datara_rt_reset_heap_alloc_count", "datara_rt_pgo_reset"}>> }

LlvmSystems == {
    <<<<RI>>, RI, {"datara_rt_chase_lev_steal", "datara_rt_chase_lev_size", "datara_rt_arena_alloc",
      "arena_alloc", "mem_alloc", "stack_alloc", "datara_rt_global_get", "spawn", "join", "channel_create",
      "channel_recv", "channel_try_recv", "channel_len", "datara_sys_bswap16", "datara_sys_bswap32",
      "datara_sys_bswap64", "datara_sys_hton16", "datara_sys_ntoh16", "datara_sys_hton32",
      "datara_sys_ntoh32", "datara_sys_hton64", "datara_sys_ntoh64", "datara_sys_slice_alloc",
      "datara_sys_slice_len", "datara_hw_volatile_ptr", "datara_hw_volatile_read8",
      "datara_hw_volatile_read16", "datara_hw_volatile_read32", "datara_hw_volatile_read64",
      "datara_hw_typed_zero_init"}>>,
    <<<<RI, RI, RI>>, RI, {"datara_rt_fast_memcpy", "datara_sys_slice_subslice"}>>,
    <<<<RI, RW, RI>>, RI, {"datara_rt_fast_memset"}>>,
    <<<<RI, RI, RI>>, RW, {"datara_rt_fast_strncmp", "datara_rt_fast_memcmp"}>>,
    <<<<RI>>, RW, {"datara_rt_pin_thread"}>>,
    <<<<>>, RI, {"datara_rt_get_current_core", "datara_rt_cap_get_mask", "datara_rt_arena_checkpoint",
      "datara_rt_arena_remaining", "datara_rt_arena_used", "arena_used", "channel_new", "scratch_enter"}>>,
    <<<<>>, NoReg, {"datara_rt_pin_worker_threads", "datara_rt_arena_clear", "arena_clear", "cpu_fence",
      "datara_hw_atomic_fence_acquire", "datara_hw_atomic_fence_release", "datara_hw_atomic_fence_acq_rel",
      "datara_hw_atomic_fence_seq_cst"}>>,
    <<<<RI>>, NoReg, {"datara_rt_cap_set_mask", "datara_rt_cap_revoke", "datara_rt_cap_grant",
      "datara_rt_arena_reset", "arena_reset", "mem_free", "cpu_prefetch", "ThreadHandle_free",
      "channel_close", "Channel_free", "scratch_exit", "datara_sys_slice_free", "datara_hw_atomic_fence"}>>,
    <<<<RI, RI>>, NoReg, {"datara_rt_cap_require", "datara_rt_global_set", "datara_hw_volatile_write8",
      "datara_hw_volatile_write16", "datara_hw_volatile_write32", "datara_hw_volatile_write64"}>>,
    <<<<RI, RI, RI>>, NoReg, {"mem_copy", "ptr_write_i64", "ptr_write_u8", "datara_sys_slice_set_byte",
      "datara_sys_slice_write_u16_be", "datara_sys_slice_write_u16_le", "datara_sys_slice_write_u32_be",
      "datara_sys_slice_write_u32_le", "datara_sys_slice_write_u64_be", "datara_sys_slice_write_u64_le"}>>,
    <<<<RI, RI>>, RI, {"ptr_read_i64", "ptr_read_u8", "join_timeout", "scratch_alloc", "scratch_promote",
      "datara_sys_slice_from_buffer", "datara_sys_slice_get_byte", "datara_sys_slice_read_u16_be",
      "datara_sys_slice_read_u16_le", "datara_sys_slice_read_u32_be", "datara_sys_slice_read_u32_le",
      "datara_sys_slice_read_u64_be", "datara_sys_slice_read_u64_le"}>>,
    <<<<RI, RI>>, RF, {"ptr_read_f64"}>>,
    <<<<RI, RI, RF>>, NoReg, {"ptr_write_f64"}>>,
    <<<<RI, RI>>, RW, {"channel_send"}>>,
    <<<<RI, RI, RI, RI>>, NoReg, {"parallel_for"}>> }

JitPrint == {
    <<<<RI>>, NoReg, {"datara_rt_out_int", "datara_rt_out_bool", "datara_rt_out_str", "datara_rt_out_dec64",
      "datara_rt_err", "datara_rt_print_str", "datara_rt_print_int", "datara_rt_print_dec64",
      "datara_rt_print_bool", "datara_rt_print_list", "datara_rt_err_print_str", "datara_rt_err_print_int",
      "datara_rt_err_print_dec64_str", "datara_rt_err_print_bool", "datara_rt_print", "datara_rt_eprintln",
      "datara_rt_panic", "datara_rt_pgo_hit_func", "datara_rt_pgo_set_output_file", "datara_rt_pgo_flush",
      "datara_rt_cap_set_mask", "datara_rt_cap_revoke", "datara_rt_cap_grant",
      "datara_rt_chase_lev_destroy"}>>,
    <<<<RI>>, RI, {"datara_rt_bool_to_str", "datara_rt_input", "datara_rt_input_int", "datara_rt_len",
      "datara_rt_chase_lev_create", "datara_rt_chase_lev_pop", "datara_rt_chase_lev_steal",
      "datara_rt_chase_lev_size", "datara_rt_int_to_str", "datara_rt_dec_to_str", "datara_rt_str_from_byte",
      "datara_rt_str_from_bytes", "datara_rt_str_bytes", "datara_rt_str_len", "datara_rt_byte_len",
      "datara_rt_str_chars", "datara_rt_char_len", "datara_rt_str_sanitize_utf8", "datara_rt_str_trim",
      "datara_rt_str_to_int", "datara_rt_str_to_upper", "datara_rt_str_to_lower"}>>,
    <<<<RF>>, NoReg, {"datara_rt_out_float", "datara_rt_print_float", "datara_rt_err_print_float"}>>,
    <<<<RS>>, NoReg, {"datara_rt_out_f32", "datara_rt_print_f32"}>>,
    <<<<RF>>, RI, {"datara_rt_float_to_str"}>>,
    <<<<RW>>, NoReg, {"datara_rt_exit", "datara_rt_set_capture"}>>,
    <<<<RI>>, RF, {"datara_rt_input_float", "datara_rt_str_to_float"}>>,
    <<<<>>, NoReg, {"datara_rt_print_space", "datara_rt_print_newline", "datara_rt_flush",
      "datara_rt_err_print_newline", "datara_rt_print_backtrace", "datara_rt_pgo_reset",
      "datara_rt_pin_worker_threads", "datara_rt_clear_capture"}>>,
    <<<<RI, RI>>, NoReg, {"datara_rt_assert", "datara_rt_cast_overflow", "datara_rt_pgo_hit_branch",
      "datara_rt_pgo_hit_loop", "datara_rt_cap_require", "datara_rt_chase_lev_push"}>>,
    <<<<RI, RI>>, RI, {"datara_rt_int_fits", "datara_rt_dec64_to_str_prec", "datara_rt_str_concat",
      "datara_rt_str_concat_mut", "datara_rt_str_eq", "datara_rt_str_cmp", "datara_rt_env_set",
      "datara_rt_str_next_scalar", "datara_rt_str_scalar_at", "datara_rt_str_scalar_at_cp",
      "datara_rt_str_byte_at", "datara_rt_str_next_offset", "datara_rt_str_contains",
      "datara_rt_str_starts_with", "datara_rt_str_ends_with", "datara_rt_str_index_of",
      "datara_rt_str_char_at", "datara_rt_str_repeat"}>>,
    <<<<>>, RI, {"datara_rt_cap_get_mask", "datara_rt_get_current_core", "datara_rt_get_capture",
      "datara_rt_get_err_capture"}>>,
    <<<<RI, RI, RI>>, RI, {"datara_rt_fast_memcpy", "datara_rt_int_to_str_radix", "datara_rt_str_concat_3",
      "datara_rt_str_substring", "datara_rt_str_pad_left", "datara_rt_str_pad_right",
      "datara_rt_str_replace"}>>,
    <<<<RI, RW, RI>>, RI, {"datara_rt_fast_memset"}>>,
    <<<<RI, RI, RI>>, RW, {"datara_rt_fast_strncmp", "datara_rt_fast_memcmp"}>>,
    <<<<RI>>, RW, {"datara_rt_pin_thread", "datara_rt_validate_utf8"}>>,
    <<<<RF, RI>>, RI, {"datara_rt_float_to_str_prec"}>>,
    <<<<RI, RI, RI, RI>>, RI, {"datara_rt_str_concat_4", "datara_rt_format_str_i64_str_i64"}>>,
    <<<<RI, RI, RI, RI, RI>>, RI, {"datara_rt_str_concat_5"}>> }

JitStrings == {
    <<<<RI, RI>>, RI, {"datara_rt_str_split", "datara_rt_str_join", "datara_js_call", "datara_js_call_1",
      "datara_js_set_global", "datara_py_call", "datara_py_call_1_str", "datara_py_call_1_int",
      "datara_py_call_list_f64", "datara_zig_call", "datara_polyglot_parallel_exec",
      "datara_rt_ptr_read_i64", "datara_rt_ptr_read_u8", "datara_rt_file_write_bytes",
      "datara_rt_file_write", "datara_rt_file_append", "datara_rt_str_cp_to_byte",
      "datara_rt_str_byte_to_cp", "datara_rt_path_join", "datara_rt_list_create_repeat",
      "datara_rt_list_append", "datara_rt_list_get", "datara_rt_list_remove_at", "datara_rt_proc_run_input",
      "datara_rt_range_str", "datara_rt_map_create_1"}>>,
    <<<<RF, RI>>, RI, {"datara_rt_format_percent"}>>,
    <<<<RI>>, RI, {"datara_rt_format_int_with_commas", "datara_js_eval", "datara_js_eval_int",
      "datara_js_require", "datara_js_call_0", "datara_js_get_global", "datara_py_eval",
      "datara_py_eval_safe", "datara_py_eval_int", "datara_py_eval_batch", "datara_zig_eval_int",
      "datara_lua_eval_int", "datara_lua_exec", "datara_rt_mem_alloc", "datara_rt_file_read",
      "datara_rt_file_read_bytes", "datara_rt_file_exists", "datara_rt_file_read_checked",
      "datara_rt_str_to_int_checked", "datara_rt_str_to_float_checked", "datara_rt_env_get_checked",
      "datara_rt_dir_list", "datara_rt_path_exists", "datara_rt_env_get", "datara_rt_args_get",
      "datara_rt_list_create", "datara_rt_list_create_capacity", "datara_rt_list_len",
      "datara_rt_list_pop_outcome", "datara_rt_list_first", "datara_rt_list_last", "datara_rt_list_reverse",
      "datara_rt_list_clear", "datara_rt_list_is_empty", "datara_rt_exec_utf8", "datara_rt_proc_spawn",
      "datara_rt_proc_wait"}>>,
    <<<<RI>>, RF, {"datara_js_eval_float", "datara_py_eval_float", "datara_lua_eval_float"}>>,
    <<<<RI, RI, RI>>, RI, {"datara_js_call_2", "datara_py_call_2_int", "datara_csharp_invoke_i64",
      "datara_rt_str_substring_cp", "datara_rt_list_set", "datara_rt_checked_add_outcome",
      "datara_rt_checked_sub_outcome", "datara_rt_checked_mul_outcome", "datara_rt_list_sort",
      "datara_rt_list_remove_value", "datara_rt_list_insert_at", "datara_rt_list_contains",
      "datara_rt_list_index_of", "datara_rt_list_slice"}>>,
    <<<<RI>>, RW, {"datara_py_exec", "datara_py_import"}>>,
    <<<<RI, RF>>, RF, {"datara_py_call_1_float"}>>,
    <<<<RI, RF, RF>>, RF, {"datara_py_call_2_float"}>>,
    <<<<>>, RI, {"datara_py_last_error", "datara_rt_arena_used", "datara_rt_sys_caps_create",
      "datara_rt_now_ms", "datara_rt_now_unix_ms", "datara_rt_now_precise_ms", "datara_rt_now_ns", "now_ms",
      "datara_rt_args_count", "datara_rt_map_create"}>>,
    <<<<>>, NoReg, {"datara_py_clear_error", "datara_rt_arena_clear", "datara_rt_cpu_fence"}>>,
    <<<<>>, RW, {"datara_py_is_available"}>>,
    <<<<RI, RI>>, RW, {"datara_py_export_list_f64", "datara_py_assert_same_ptr"}>>,
    <<<<RI, RI, RF>>, RF, {"datara_csharp_invoke_f64"}>>,
    <<<<RI>>, NoReg, {"datara_rt_mem_free", "datara_rt_cpu_prefetch", "datara_rt_sleep"}>>,
    <<<<RI, RI, RI>>, NoReg, {"datara_rt_mem_copy", "datara_rt_ptr_write_i64", "datara_rt_ptr_write_u8"}>>,
    <<<<RI, RI>>, RF, {"datara_rt_ptr_read_f64"}>>,
    <<<<RI, RI, RF>>, NoReg, {"datara_rt_ptr_write_f64"}>>,
    <<<<RW, RI>>, NoReg, {"datara_rt_set_args"}>>,
    <<<<RI, RI, RI, RI>>, RI, {"datara_rt_map_create_2"}>>,
    <<<<RI, RI, RI, RI, RI, RI>>, RI, {"datara_rt_map_create_3"}>>,
    <<<<RI, RI, RI, RI, RI, RI, RI, RI>>, RI, {"datara_rt_map_create_4"}>> }

JitCollections == {
    <<<<RI, RI, RI, RI, RI, RI, RI, RI, RI, RI>>, RI, {"datara_rt_map_create_5",
      "datara_rt_map_create_i64_5"}>>,
    <<<<RI, RI, RI>>, RI, {"datara_rt_map_insert", "datara_rt_map_insert_i64", "datara_rt_socket_bind",
      "datara_rt_socket_connect", "datara_rt_math_clamp_int", "datara_rt_atomic_cas",
      "datara_rt_fiber_net_recv", "datara_rt_slice", "datara_rt_fiber_spawn"}>>,
    <<<<RI, RI>>, RI, {"datara_rt_map_get", "datara_rt_map_get_i64", "datara_rt_map_get_outcome",
      "datara_rt_map_get_outcome_i64", "datara_rt_map_contains", "datara_rt_map_contains_i64",
      "datara_rt_map_create_i64_1", "datara_rt_mutex_lock", "datara_rt_socket_listen",
      "datara_rt_socket_send", "datara_rt_socket_recv", "datara_rt_socket_recv_outcome",
      "datara_rt_socket_set_timeout", "datara_rt_socket_nonblocking", "datara_rt_random_bytes",
      "datara_rt_dialog_info", "datara_rt_dialog_alert", "datara_rt_dialog_confirm",
      "datara_rt_math_min_int", "datara_rt_math_max_int", "datara_rt_atomic_store",
      "datara_rt_atomic_fetch_add", "datara_rt_math_shr", "datara_rt_math_shl", "datara_rt_math_xor",
      "datara_rt_math_and", "datara_rt_math_or"}>>,
    <<<<RI, RI, RI, RI>>, RI, {"datara_rt_map_create_i64_2"}>>,
    <<<<RI, RI, RI, RI, RI, RI>>, RI, {"datara_rt_map_create_i64_3"}>>,
    <<<<RI, RI, RI, RI, RI, RI, RI, RI>>, RI, {"datara_rt_map_create_i64_4"}>>,
    <<<<RI>>, RI, {"datara_rt_map_len", "datara_rt_map_keys_str", "datara_rt_fiber_is_done",
      "datara_rt_map_keys_int", "datara_rt_map_values", "datara_rt_socket_create",
      "datara_rt_socket_accept", "datara_rt_http_get", "datara_rt_sha256", "datara_rt_base64_encode",
      "datara_rt_base64_decode", "datara_rt_system", "datara_rt_exec", "datara_rt_math_abs_int",
      "datara_rt_atomic_new", "datara_rt_atomic_load", "datara_rt_math_ctz", "datara_val_from_int",
      "datara_rt_val_from_f64_bits", "datara_val_from_str", "datara_val_to_int", "datara_val_to_str",
      "datara_rt_val_as_int_outcome", "datara_rt_val_as_float_outcome", "datara_rt_val_to_int_checked",
      "datara_rt_val_to_f64_bits_checked", "datara_rt_val_to_str_tagged", "datara_rt_fiber_join"}>>,
    <<<<RI>>, NoReg, {"datara_rt_map_free", "datara_rt_mutex_unlock", "datara_rt_socket_close",
      "datara_rt_out_val", "datara_rt_fiber_sleep_ms"}>>,
    <<<<>>, RI, {"datara_rt_mutex_new", "datara_rt_fast_read_int", "datara_rt_uuid_v4",
      "datara_rt_fiber_run_until_done"}>>,
    <<<<>>, RF, {"datara_rt_fast_read_float"}>>,
    <<<<RF>>, RF, {"datara_rt_math_sqrt", "datara_rt_math_abs", "datara_rt_math_sin", "datara_rt_math_cos",
      "datara_rt_math_tan", "datara_rt_math_floor", "datara_rt_math_ceil", "datara_rt_math_round",
      "datara_rt_math_log", "datara_rt_math_exp"}>>,
    <<<<RF, RF>>, RF, {"datara_rt_math_pow", "datara_rt_math_min", "datara_rt_math_max",
      "datara_rt_math_hypot"}>>,
    <<<<RF, RF, RF>>, RF, {"datara_rt_math_clamp"}>>,
    <<<<RW>>, RI, {"datara_val_from_bool"}>>,
    <<<<RI>>, RW, {"datara_val_is_int", "datara_val_is_float", "datara_val_is_bool", "datara_val_is_str",
      "datara_val_to_bool"}>>,
    <<<<RI>>, RF, {"datara_val_to_float"}>>,
    <<<<RI, RI, RI, RI>>, NoReg, {"datara_rt_parallel_for", "datara_rt_parallel_invoke"}>>,
    <<<<>>, NoReg, {"datara_rt_fiber_yield"}>> }

JitFibers == {
    <<<<>>, RI, {"datara_rt_fiber_count", "datara_rt_fiber_done_count", "datara_rt_fiber_chan_create",
      "datara_rt_fiber_now_ms", "datara_rt_fiber_mt_done_count", "datara_rt_fiber_mt_spawned",
      "datara_rt_num_workers", "datara_rt_arena_checkpoint", "datara_rt_strbuf_new", "datara_rt_heap_live",
      "datara_rt_heap_alloc_count"}>>,
    <<<<>>, NoReg, {"datara_rt_fiber_reset", "datara_rt_fiber_mt_wait_idle", "datara_rt_fiber_mt_shutdown",
      "datara_rt_reset_heap_alloc_count", "datara_rt_overflow_panic", "datara_rt_div_zero_panic"}>>,
    <<<<RI, RI>>, NoReg, {"datara_rt_fiber_chan_send", "datara_rt_global_set", "datara_rt_pool_free"}>>,
    <<<<RI>>, RI, {"datara_rt_fiber_chan_recv", "datara_rt_fiber_mt_start", "datara_rt_fiber_mt_join",
      "datara_rt_arena_alloc", "datara_rt_global_get", "datara_rt_strbuf_join", "datara_rt_strbuf_len",
      "datara_rt_own_acquire", "datara_rt_arc_init", "datara_rt_arc_acquire", "datara_rt_arc_count",
      "datara_rt_weak_create", "datara_rt_weak_upgrade", "datara_rt_pool_alloc", "datara_rt_box_alloc",
      "datara_rt_box_get", "datara_rt_str_sso", "datara_rt_str_is_sso", "datara_rt_list_is_small_vec",
      "malloc"}>>,
    <<<<RI, RI>>, RI, {"datara_rt_fiber_mt_spawn", "datara_rt_strbuf_push", "datara_rt_strbuf_push_int",
      "datara_rt_list_init_stack", "datara_rt_checked_add", "datara_rt_checked_sub",
      "datara_rt_checked_mul", "datara_rt_checked_div", "datara_rt_checked_rem", "datara_rt_saturating_add",
      "datara_rt_saturating_sub", "datara_rt_saturating_mul", "datara_rt_wrapping_add",
      "datara_rt_wrapping_sub", "datara_rt_wrapping_mul"}>>,
    <<<<RI>>, NoReg, {"datara_rt_arena_reset", "datara_rt_free", "datara_rt_str_free",
      "datara_rt_list_free", "datara_rt_own_release", "datara_rt_arc_release", "datara_rt_weak_drop",
      "datara_rt_box_free", "free"}>> }

JitSystems == {
    <<<<RI>>, RI, {"datara_sys_hton16", "datara_sys_ntoh16", "datara_sys_hton32", "datara_sys_ntoh32",
      "datara_sys_hton64", "datara_sys_ntoh64", "datara_sys_bswap16", "datara_sys_bswap32",
      "datara_sys_bswap64", "datara_sys_slice_alloc", "datara_sys_slice_len", "datara_hw_volatile_read8",
      "datara_hw_volatile_read16", "datara_hw_volatile_read32", "datara_hw_volatile_read64",
      "datara_hw_volatile_ptr", "datara_hw_typed_zero_init", "spawn", "ThreadHandle_join", "join",
      "datara_channel_create", "channel_create", "Channel_recv", "channel_recv", "Channel_try_recv",
      "channel_try_recv", "datara_channel_len", "Channel_len", "channel_len"}>>,
    <<<<RI, RI>>, RI, {"datara_sys_slice_from_buffer", "datara_sys_slice_get_byte",
      "datara_sys_slice_read_u16_be", "datara_sys_slice_read_u16_le", "datara_sys_slice_read_u32_be",
      "datara_sys_slice_read_u32_le", "datara_sys_slice_read_u64_be", "datara_sys_slice_read_u64_le",
      "datara_thread_spawn", "join_timeout", "datara_scratch_alloc", "scratch_alloc",
      "datara_scratch_promote", "scratch_promote"}>>,
    <<<<RI>>, NoReg, {"datara_sys_slice_free", "datara_hw_atomic_fence", "ThreadHandle_free",
      "datara_thread_free", "datara_channel_close", "Channel_close", "channel_close", "datara_channel_free",
      "Channel_free", "datara_scratch_exit", "scratch_exit"}>>,
    <<<<RI, RI, RI>>, NoReg, {"datara_sys_slice_set_byte", "datara_sys_slice_write_u16_be",
      "datara_sys_slice_write_u16_le", "datara_sys_slice_write_u32_be", "datara_sys_slice_write_u32_le",
      "datara_sys_slice_write_u64_be", "datara_sys_slice_write_u64_le"}>>,
    <<<<RI, RI, RI>>, RI, {"datara_sys_slice_subslice"}>>,
    <<<<RI, RI>>, NoReg, {"datara_hw_volatile_write8", "datara_hw_volatile_write16",
      "datara_hw_volatile_write32", "datara_hw_volatile_write64"}>>,
    <<<<>>, NoReg, {"datara_hw_atomic_fence_acquire", "datara_hw_atomic_fence_release",
      "datara_hw_atomic_fence_acq_rel", "datara_hw_atomic_fence_seq_cst"}>>,
    <<<<RI, RI, RI>>, RW, {"datara_thread_join", "datara_channel_recv"}>>,
    <<<<>>, RI, {"channel_new", "datara_scratch_enter", "scratch_enter"}>>,
    <<<<RI, RI>>, RW, {"datara_channel_send", "Channel_send", "channel_send", "datara_channel_try_recv"}>>,
    <<<<RI, RI, RI, RI>>, NoReg, {"datara_parallel_for", "parallel_for"}>> }

SchedulerExterns == {
    <<<<RI, RI, RI>>, RI, {"datara_rt_schedule_run"}>>,
    <<<<RI>>, NoReg, {"datara_rt_schedule_cancel"}>>,
    <<<<>>, RF, {"datara_rt_time_precise_ms", "datara_rt_time_delta_ms"}>> }

RegSystems ==
  [own |-> {
      "datara_sys_hton16", "datara_sys_ntoh16", "datara_sys_hton32", "datara_sys_ntoh32",
      "datara_sys_hton64", "datara_sys_ntoh64", "datara_sys_bswap16", "datara_sys_bswap32",
      "datara_sys_bswap64", "datara_sys_slice_alloc", "datara_sys_slice_from_buffer",
      "datara_sys_slice_free", "datara_sys_slice_len", "datara_sys_slice_get_byte",
      "datara_sys_slice_set_byte", "datara_sys_slice_read_u16_be", "datara_sys_slice_read_u16_le",
      "datara_sys_slice_read_u32_be", "datara_sys_slice_read_u32_le", "datara_sys_slice_read_u64_be",
      "datara_sys_slice_read_u64_le", "datara_sys_slice_write_u16_be", "datara_sys_slice_write_u16_le",
      "datara_sys_slice_write_u32_be", "datara_sys_slice_write_u32_le", "datara_sys_slice_write_u64_be",
      "datara_sys_slice_write_u64_le", "datara_sys_slice_subslice", "datara_hw_volatile_read8",
      "datara_hw_volatile_read16", "datara_hw_volatile_read32", "datara_hw_volatile_read64",
      "datara_hw_volatile_write8", "datara_hw_volatile_write16", "datara_hw_volatile_write32",
      "datara_hw_volatile_write64", "datara_hw_volatile_ptr", "datara_hw_typed_zero_init",
      "datara_hw_atomic_fence_acquire", "datara_hw_atomic_fence_release", "datara_hw_atomic_fence_acq_rel",
      "datara_hw_atomic_fence_seq_cst", "datara_hw_atomic_fence", "spawn", "join", "ThreadHandle_join",
      "join_timeout", "ThreadHandle_free", "datara_thread_free", "channel_create", "datara_channel_create",
      "channel_new", "channel_send"},
   also |-> {
      <<"hton16", "datara_sys_hton16">>, <<"ntoh16", "datara_sys_ntoh16">>,
      <<"hton32", "datara_sys_hton32">>, <<"ntoh32", "datara_sys_ntoh32">>,
      <<"hton64", "datara_sys_hton64">>, <<"ntoh64", "datara_sys_ntoh64">>,
      <<"bswap16", "datara_sys_bswap16">>, <<"bswap32", "datara_sys_bswap32">>,
      <<"bswap64", "datara_sys_bswap64">>, <<"slice_alloc", "datara_sys_slice_alloc">>,
      <<"slice_from_buffer", "datara_sys_slice_from_buffer">>, <<"slice_free", "datara_sys_slice_free">>,
      <<"SliceView_free", "datara_sys_slice_free">>, <<"SliceView_len", "datara_sys_slice_len">>,
      <<"SliceView_get_byte", "datara_sys_slice_get_byte">>,
      <<"SliceView_set_byte", "datara_sys_slice_set_byte">>,
      <<"SliceView_read_u16_be", "datara_sys_slice_read_u16_be">>,
      <<"SliceView_read_u16_le", "datara_sys_slice_read_u16_le">>,
      <<"SliceView_read_u32_be", "datara_sys_slice_read_u32_be">>,
      <<"SliceView_read_u32_le", "datara_sys_slice_read_u32_le">>,
      <<"SliceView_read_u64_be", "datara_sys_slice_read_u64_be">>,
      <<"SliceView_read_u64_le", "datara_sys_slice_read_u64_le">>,
      <<"SliceView_write_u16_be", "datara_sys_slice_write_u16_be">>,
      <<"SliceView_write_u16_le", "datara_sys_slice_write_u16_le">>,
      <<"SliceView_write_u32_be", "datara_sys_slice_write_u32_be">>,
      <<"SliceView_write_u32_le", "datara_sys_slice_write_u32_le">>,
      <<"SliceView_write_u64_be", "datara_sys_slice_write_u64_be">>,
      <<"SliceView_write_u64_le", "datara_sys_slice_write_u64_le">>,
      <<"SliceView_subslice", "datara_sys_slice_subslice">>,
      <<"volatile_read8", "datara_hw_volatile_read8">>, <<"VolatilePtr_read8", "datara_hw_volatile_read8">>,
      <<"volatile_read16", "datara_hw_volatile_read16">>,
      <<"VolatilePtr_read16", "datara_hw_volatile_read16">>,
      <<"volatile_read32", "datara_hw_volatile_read32">>,
      <<"VolatilePtr_read32", "datara_hw_volatile_read32">>,
      <<"volatile_read64", "datara_hw_volatile_read64">>,
      <<"VolatilePtr_read64", "datara_hw_volatile_read64">>,
      <<"volatile_write8", "datara_hw_volatile_write8">>,
      <<"VolatilePtr_write8", "datara_hw_volatile_write8">>,
      <<"volatile_write16", "datara_hw_volatile_write16">>,
      <<"VolatilePtr_write16", "datara_hw_volatile_write16">>,
      <<"volatile_write32", "datara_hw_volatile_write32">>,
      <<"VolatilePtr_write32", "datara_hw_volatile_write32">>,
      <<"volatile_write64", "datara_hw_volatile_write64">>,
      <<"VolatilePtr_write64", "datara_hw_volatile_write64">>, <<"volatile_ptr", "datara_hw_volatile_ptr">>,
      <<"typed_zero_init", "datara_hw_typed_zero_init">>,
      <<"atomic_fence_acquire", "datara_hw_atomic_fence_acquire">>,
      <<"atomic_fence_release", "datara_hw_atomic_fence_release">>,
      <<"atomic_fence_acq_rel", "datara_hw_atomic_fence_acq_rel">>,
      <<"atomic_fence_seq_cst", "datara_hw_atomic_fence_seq_cst">>,
      <<"atomic_fence", "datara_hw_atomic_fence">>, <<"datara_thread_spawn_wrap", "spawn">>,
      <<"ThreadHandle_join_timeout", "join_timeout">>, <<"Channel_new", "channel_new">>}]

RegThreads ==
  [own |-> {
      "Channel_send", "channel_recv", "Channel_recv", "channel_try_recv", "Channel_try_recv",
      "channel_close", "Channel_close", "channel_len", "Channel_len", "Channel_free", "datara_channel_free",
      "parallel_for", "datara_parallel_for", "scratch_enter", "datara_scratch_enter", "scratch_alloc",
      "datara_scratch_alloc", "scratch_exit", "datara_scratch_exit", "scratch_promote",
      "datara_scratch_promote"},
   also |-> {
      <<"datara_channel_send_wrap", "Channel_send">>}]

RegOutput ==
  [own |-> {
      "malloc", "free", "datara_rt_overflow_panic", "datara_rt_div_zero_panic", "datara_rt_checked_add",
      "datara_rt_checked_sub", "datara_rt_checked_mul", "datara_rt_checked_div", "datara_rt_checked_rem",
      "datara_rt_saturating_add", "datara_rt_saturating_sub", "datara_rt_saturating_mul",
      "datara_rt_wrapping_add", "datara_rt_wrapping_sub", "datara_rt_wrapping_mul", "datara_rt_out_int",
      "datara_rt_out_bool", "datara_rt_bool_to_str", "datara_rt_out_float", "datara_rt_out_f32",
      "datara_rt_float_to_str", "datara_rt_out_str", "datara_rt_out_dec64", "datara_rt_err",
      "datara_rt_exit", "datara_rt_pgo_hit_func", "datara_rt_pgo_hit_branch", "datara_rt_pgo_hit_loop",
      "datara_rt_pgo_set_output_file", "datara_rt_pgo_flush", "datara_rt_pgo_reset",
      "datara_rt_cap_set_mask", "datara_rt_cap_get_mask", "datara_rt_cap_revoke", "datara_rt_cap_grant",
      "datara_rt_cap_require", "datara_rt_input", "datara_rt_input_int", "datara_rt_input_float",
      "datara_rt_fast_read_int", "datara_rt_fast_read_float", "datara_rt_print_str", "datara_rt_print_int",
      "datara_rt_print_float", "datara_rt_print_f32", "datara_rt_print_dec64", "datara_rt_out_dec64",
      "datara_rt_print_bool", "datara_rt_print_space", "datara_rt_print_newline", "datara_rt_flush",
      "datara_rt_print_list", "datara_rt_print", "datara_rt_eprintln", "datara_rt_err_print_str",
      "datara_rt_err_print_int", "datara_rt_err_print_dec64_str", "datara_rt_err_print_float",
      "datara_rt_err_print_bool", "datara_rt_err_print_newline", "datara_rt_panic",
      "datara_rt_print_backtrace", "datara_rt_assert", "datara_rt_int_fits", "datara_rt_cast_overflow",
      "datara_rt_len", "datara_rt_set_capture", "datara_rt_get_capture", "datara_rt_get_err_capture",
      "datara_rt_clear_capture", "datara_rt_int_to_str", "datara_rt_dec_to_str",
      "datara_rt_float_to_str_prec", "datara_rt_int_to_str_radix", "datara_rt_dec64_to_str_prec",
      "datara_rt_str_concat", "datara_rt_str_concat_mut", "datara_rt_str_concat_3", "datara_rt_str_concat_4",
      "datara_rt_str_concat_5", "datara_rt_format_str_i64_str_i64", "datara_rt_str_eq", "datara_rt_str_cmp",
      "datara_rt_env_set", "datara_rt_str_from_byte", "datara_rt_str_from_bytes", "datara_rt_str_bytes",
      "datara_rt_str_len", "datara_rt_byte_len", "datara_rt_str_chars"},
   also |-> {
      <<"wrapping_add", "datara_rt_wrapping_add">>, <<"wrapping_sub", "datara_rt_wrapping_sub">>,
      <<"wrapping_mul", "datara_rt_wrapping_mul">>, <<"saturating_add", "datara_rt_saturating_add">>,
      <<"saturating_sub", "datara_rt_saturating_sub">>, <<"saturating_mul", "datara_rt_saturating_mul">>,
      <<"bool_to_str", "datara_rt_bool_to_str">>, <<"float_to_str", "datara_rt_float_to_str">>,
      <<"cap_set_mask", "datara_rt_cap_set_mask">>, <<"cap_get_mask", "datara_rt_cap_get_mask">>,
      <<"cap_revoke", "datara_rt_cap_revoke">>, <<"cap_grant", "datara_rt_cap_grant">>,
      <<"cap_require", "datara_rt_cap_require">>, <<"input", "datara_rt_input">>,
      <<"read_line", "datara_rt_input">>, <<"input_int", "datara_rt_input_int">>,
      <<"input_float", "datara_rt_input_float">>, <<"fast_read_int", "datara_rt_fast_read_int">>,
      <<"read_int", "datara_rt_fast_read_int">>, <<"fast_read_float", "datara_rt_fast_read_float">>,
      <<"read_float", "datara_rt_fast_read_float">>, <<"print", "datara_rt_print">>,
      <<"eprintln", "datara_rt_eprintln">>, <<"panic", "datara_rt_panic">>,
      <<"print_backtrace", "datara_rt_print_backtrace">>, <<"assert", "datara_rt_assert">>,
      <<"int_to_str", "datara_rt_int_to_str">>, <<"float_to_str_prec", "datara_rt_float_to_str_prec">>,
      <<"int_to_str_radix", "datara_rt_int_to_str_radix">>,
      <<"dec64_to_str_prec", "datara_rt_dec64_to_str_prec">>, <<"str_concat", "datara_rt_str_concat">>,
      <<"str_concat_mut", "datara_rt_str_concat_mut">>, <<"str_eq", "datara_rt_str_eq">>,
      <<"str_cmp", "datara_rt_str_cmp">>, <<"env_set", "datara_rt_env_set">>,
      <<"str_from_byte", "datara_rt_str_from_byte">>, <<"str_from_bytes", "datara_rt_str_from_bytes">>,
      <<"str_bytes", "datara_rt_str_bytes">>, <<"str_len", "datara_rt_str_len">>,
      <<"len", "datara_rt_str_len">>, <<"byte_len", "datara_rt_byte_len">>}]

RegStrings ==
  [own |-> {
      "datara_rt_char_len", "datara_rt_validate_utf8", "datara_rt_str_sanitize_utf8",
      "datara_rt_str_next_scalar", "datara_rt_str_scalar_at", "datara_rt_str_scalar_at_cp",
      "datara_rt_str_byte_at", "datara_rt_str_next_offset", "datara_rt_str_contains",
      "datara_rt_str_starts_with", "datara_rt_str_ends_with", "datara_rt_str_index_of", "datara_rt_str_trim",
      "datara_rt_str_to_int", "datara_rt_str_to_float", "datara_rt_str_substring", "datara_rt_str_char_at",
      "datara_rt_str_repeat", "datara_rt_str_pad_left", "datara_rt_str_pad_right", "datara_rt_str_replace",
      "datara_rt_str_to_upper", "datara_rt_str_to_lower", "datara_rt_str_split", "datara_rt_str_join",
      "datara_rt_map_keys_str", "datara_rt_fiber_is_done", "datara_rt_mutex_new", "datara_rt_mutex_lock",
      "datara_rt_mutex_unlock", "datara_rt_map_keys_int", "datara_rt_map_values", "datara_rt_format_percent",
      "datara_rt_format_int_with_commas", "datara_js_eval", "datara_js_eval_int", "datara_js_eval_float",
      "datara_js_require", "datara_js_call", "datara_js_call_0", "datara_js_call_1", "datara_js_call_2",
      "datara_js_set_global", "datara_js_get_global", "datara_py_eval", "datara_py_eval_safe",
      "datara_py_eval_int", "datara_py_eval_float", "datara_py_exec", "datara_py_import", "datara_py_call",
      "datara_py_call_1_str", "datara_py_call_1_float", "datara_py_call_2_float", "datara_py_call_1_int",
      "datara_py_call_2_int", "datara_py_call_list_f64", "datara_py_eval_batch", "datara_py_last_error",
      "datara_py_clear_error", "datara_py_is_available", "datara_py_export_list_f64",
      "datara_py_assert_same_ptr", "datara_zig_eval_int", "datara_zig_call", "datara_csharp_invoke_i64",
      "datara_csharp_invoke_f64", "datara_lua_eval_int", "datara_lua_eval_float"},
   also |-> {
      <<"str_chars", "datara_rt_str_chars">>, <<"char_len", "datara_rt_char_len">>,
      <<"validate_utf8", "datara_rt_validate_utf8">>, <<"str_sanitize_utf8", "datara_rt_str_sanitize_utf8">>,
      <<"str_scalar_at", "datara_rt_str_scalar_at">>, <<"str_byte_at", "datara_rt_str_byte_at">>,
      <<"byte_at", "datara_rt_str_byte_at">>, <<"str_next_offset", "datara_rt_str_next_offset">>,
      <<"str_contains", "datara_rt_str_contains">>, <<"str_starts_with", "datara_rt_str_starts_with">>,
      <<"str_ends_with", "datara_rt_str_ends_with">>, <<"str_index_of", "datara_rt_str_index_of">>,
      <<"str_trim", "datara_rt_str_trim">>, <<"str_to_int", "datara_rt_str_to_int">>,
      <<"str_to_float", "datara_rt_str_to_float">>, <<"str_substring", "datara_rt_str_substring">>,
      <<"str_substr", "datara_rt_str_substring">>, <<"str_char_at", "datara_rt_str_char_at">>,
      <<"str_repeat", "datara_rt_str_repeat">>, <<"str_pad_left", "datara_rt_str_pad_left">>,
      <<"str_pad_right", "datara_rt_str_pad_right">>, <<"str_replace", "datara_rt_str_replace">>,
      <<"str_to_upper", "datara_rt_str_to_upper">>, <<"str_to_lower", "datara_rt_str_to_lower">>,
      <<"str_split", "datara_rt_str_split">>, <<"split", "datara_rt_str_split">>,
      <<"str_join", "datara_rt_str_join">>, <<"map_keys", "datara_rt_map_keys_str">>,
      <<"map_keys_int", "datara_rt_map_keys_int">>, <<"map_values", "datara_rt_map_values">>,
      <<"map_values_str", "datara_rt_map_values">>, <<"fiber_is_done", "datara_rt_fiber_is_done">>,
      <<"mutex_new", "datara_rt_mutex_new">>, <<"mutex_lock", "datara_rt_mutex_lock">>,
      <<"mutex_unlock", "datara_rt_mutex_unlock">>, <<"join", "datara_rt_str_join">>,
      <<"format_percent", "datara_rt_format_percent">>,
      <<"format_int_with_commas", "datara_rt_format_int_with_commas">>, <<"js_eval", "datara_js_eval">>,
      <<"js_eval_int", "datara_js_eval_int">>, <<"js_eval_float", "datara_js_eval_float">>,
      <<"js_require", "datara_js_require">>, <<"js_call", "datara_js_call">>,
      <<"js_call_0", "datara_js_call_0">>, <<"js_call_1", "datara_js_call_1">>,
      <<"js_call_2", "datara_js_call_2">>, <<"js_set_global", "datara_js_set_global">>,
      <<"js_get_global", "datara_js_get_global">>, <<"py_eval", "datara_py_eval">>,
      <<"py_eval_safe", "datara_py_eval_safe">>, <<"py_eval_int", "datara_py_eval_int">>,
      <<"py_eval_float", "datara_py_eval_float">>, <<"py_exec", "datara_py_exec">>,
      <<"py_import", "datara_py_import">>, <<"py_call", "datara_py_call">>,
      <<"py_call_1_str", "datara_py_call_1_str">>, <<"py_call_1_float", "datara_py_call_1_float">>,
      <<"py_call_2_float", "datara_py_call_2_float">>, <<"py_call_1_int", "datara_py_call_1_int">>,
      <<"py_call_2_int", "datara_py_call_2_int">>, <<"py_call_list_f64", "datara_py_call_list_f64">>,
      <<"py_eval_batch", "datara_py_eval_batch">>, <<"py_last_error", "datara_py_last_error">>,
      <<"py_clear_error", "datara_py_clear_error">>, <<"py_is_available", "datara_py_is_available">>,
      <<"zig_eval_int", "datara_zig_eval_int">>, <<"zig_call", "datara_zig_call">>,
      <<"csharp_invoke_i64", "datara_csharp_invoke_i64">>,
      <<"csharp_invoke_f64", "datara_csharp_invoke_f64">>, <<"lua_eval_int", "datara_lua_eval_int">>,
      <<"lua_eval_float", "datara_lua_eval_float">>}]

RegFiles ==
  [own |-> {
      "datara_lua_exec", "datara_polyglot_parallel_exec", "datara_rt_arena_alloc", "datara_rt_arena_reset",
      "datara_rt_arena_used", "datara_rt_arena_clear", "datara_rt_mem_alloc", "datara_rt_mem_free",
      "datara_rt_mem_copy", "datara_rt_ptr_read_i64", "datara_rt_ptr_write_i64", "datara_rt_ptr_read_f64",
      "datara_rt_ptr_write_f64", "datara_rt_ptr_read_u8", "datara_rt_ptr_write_u8", "datara_rt_cpu_fence",
      "datara_rt_cpu_prefetch", "datara_rt_global_set", "datara_rt_global_get", "datara_rt_file_read",
      "datara_rt_file_read_bytes", "datara_rt_file_write_bytes", "datara_rt_file_write",
      "datara_rt_file_append", "datara_rt_file_exists", "datara_rt_sys_caps_create",
      "datara_rt_file_read_checked", "datara_rt_str_to_int_checked", "datara_rt_str_cp_to_byte",
      "datara_rt_str_byte_to_cp", "datara_rt_str_substring_cp", "datara_rt_str_to_float_checked",
      "datara_rt_env_get_checked", "datara_rt_dir_list", "datara_rt_path_exists", "datara_rt_sleep",
      "datara_rt_now_ms", "datara_rt_now_unix_ms", "datara_rt_now_precise_ms", "datara_rt_time_precise_ms",
      "datara_rt_time_delta_ms", "datara_rt_now_ns", "datara_rt_env_get", "datara_rt_path_join",
      "datara_rt_set_args", "datara_rt_args_count", "datara_rt_args_get", "datara_rt_list_create",
      "datara_rt_list_create_capacity", "datara_rt_list_create_repeat", "datara_rt_list_append",
      "datara_rt_list_len", "datara_rt_list_get", "datara_rt_list_set", "datara_rt_list_pop_outcome",
      "datara_rt_checked_add_outcome", "datara_rt_checked_sub_outcome", "datara_rt_checked_mul_outcome",
      "datara_rt_list_first", "datara_rt_list_last", "datara_rt_list_sort", "datara_rt_list_remove_at",
      "datara_rt_list_remove_value", "datara_rt_list_insert_at", "datara_rt_list_contains",
      "datara_rt_list_index_of", "datara_rt_list_reverse", "datara_rt_list_clear", "datara_rt_list_is_empty",
      "datara_rt_list_slice", "datara_rt_exec_utf8", "datara_rt_proc_spawn", "datara_rt_proc_run_input"},
   also |-> {
      <<"lua_exec", "datara_lua_exec">>, <<"polyglot_parallel_exec", "datara_polyglot_parallel_exec">>,
      <<"arena_alloc", "datara_rt_arena_alloc">>, <<"datara_rt_stack_alloc", "datara_rt_arena_alloc">>,
      <<"stack_alloc", "datara_rt_arena_alloc">>, <<"arena_reset", "datara_rt_arena_reset">>,
      <<"arena_used", "datara_rt_arena_used">>, <<"arena_clear", "datara_rt_arena_clear">>,
      <<"mem_alloc", "datara_rt_mem_alloc">>, <<"mem_free", "datara_rt_mem_free">>,
      <<"mem_copy", "datara_rt_mem_copy">>, <<"ptr_read_i64", "datara_rt_ptr_read_i64">>,
      <<"ptr_write_i64", "datara_rt_ptr_write_i64">>, <<"ptr_read_f64", "datara_rt_ptr_read_f64">>,
      <<"ptr_write_f64", "datara_rt_ptr_write_f64">>, <<"ptr_read_u8", "datara_rt_ptr_read_u8">>,
      <<"ptr_write_u8", "datara_rt_ptr_write_u8">>, <<"cpu_fence", "datara_rt_cpu_fence">>,
      <<"cpu_prefetch", "datara_rt_cpu_prefetch">>, <<"file_read", "datara_rt_file_read">>,
      <<"read", "datara_rt_file_read">>, <<"file_read_bytes", "datara_rt_file_read_bytes">>,
      <<"file_write_bytes", "datara_rt_file_write_bytes">>, <<"file_write", "datara_rt_file_write">>,
      <<"write", "datara_rt_file_write">>, <<"file_append", "datara_rt_file_append">>,
      <<"append", "datara_rt_file_append">>, <<"file_exists", "datara_rt_file_exists">>,
      <<"exists", "datara_rt_file_exists">>, <<"file_read_checked", "datara_rt_file_read_checked">>,
      <<"str_cp_to_byte", "datara_rt_str_cp_to_byte">>, <<"str_byte_to_cp", "datara_rt_str_byte_to_cp">>,
      <<"str_substring_cp", "datara_rt_str_substring_cp">>, <<"parse_int", "datara_rt_str_to_int_checked">>,
      <<"parse_float", "datara_rt_str_to_float_checked">>,
      <<"env_get_checked", "datara_rt_env_get_checked">>, <<"dir_list", "datara_rt_dir_list">>,
      <<"path_exists", "datara_rt_path_exists">>, <<"sleep", "datara_rt_sleep">>,
      <<"now_ms", "datara_rt_now_ms">>, <<"now", "datara_rt_now_ms">>,
      <<"now_precise_ms", "datara_rt_now_precise_ms">>, <<"time_precise_ms", "datara_rt_time_precise_ms">>,
      <<"time_delta_ms", "datara_rt_time_delta_ms">>, <<"now_ns", "datara_rt_now_ns">>,
      <<"env_get", "datara_rt_env_get">>, <<"path_join", "datara_rt_path_join">>,
      <<"args_count", "datara_rt_args_count">>, <<"args_get", "datara_rt_args_get">>,
      <<"datara_rt_list_append_unchecked", "datara_rt_list_append">>, <<"exec_utf8", "datara_rt_exec_utf8">>,
      <<"proc_spawn", "datara_rt_proc_spawn">>}]

RegLists ==
  [own |-> {
      "datara_rt_proc_wait", "datara_rt_range_str", "datara_rt_map_create", "datara_rt_map_create_2",
      "datara_rt_map_create_1", "datara_rt_map_create_3", "datara_rt_map_create_4", "datara_rt_map_create_5",
      "datara_rt_map_insert", "datara_rt_map_insert_i64", "datara_rt_map_get", "datara_rt_map_get_i64",
      "datara_rt_map_get_outcome", "datara_rt_map_get_outcome_i64", "datara_rt_map_contains",
      "datara_rt_map_contains_i64", "datara_rt_map_create_i64_1", "datara_rt_map_create_i64_2",
      "datara_rt_map_create_i64_3", "datara_rt_map_create_i64_4", "datara_rt_map_create_i64_5",
      "datara_rt_map_len", "datara_rt_map_free", "datara_rt_socket_create", "datara_rt_socket_bind",
      "datara_rt_socket_listen", "datara_rt_socket_accept", "datara_rt_socket_connect",
      "datara_rt_socket_send", "datara_rt_socket_recv", "datara_rt_socket_recv_outcome",
      "datara_rt_socket_set_timeout", "datara_rt_socket_nonblocking", "datara_rt_socket_close",
      "datara_rt_input_int", "datara_rt_input_float", "datara_rt_fast_read_int", "datara_rt_fast_read_float",
      "datara_rt_http_get", "datara_rt_sha256", "datara_rt_base64_encode", "datara_rt_base64_decode",
      "datara_rt_random_bytes", "datara_rt_uuid_v4", "datara_rt_dialog_info", "datara_rt_dialog_alert",
      "datara_rt_dialog_confirm", "datara_rt_system", "datara_rt_exec", "datara_rt_math_sqrt",
      "datara_rt_math_pow", "datara_rt_math_abs", "datara_rt_math_sin", "datara_rt_math_cos",
      "datara_rt_math_tan", "datara_rt_math_floor", "datara_rt_math_ceil", "datara_rt_math_round",
      "datara_rt_math_min", "datara_rt_math_max", "datara_rt_math_clamp", "datara_rt_math_hypot",
      "datara_rt_math_log", "datara_rt_math_exp", "datara_rt_math_min_int", "datara_rt_math_max_int",
      "datara_rt_math_clamp_int", "datara_rt_math_abs_int", "datara_rt_atomic_new", "datara_rt_atomic_load",
      "datara_rt_atomic_store", "datara_rt_atomic_fetch_add", "datara_rt_atomic_cas",
      "datara_rt_fiber_net_recv", "datara_rt_math_ctz", "datara_rt_math_shr", "datara_rt_math_shl"},
   also |-> {
      <<"proc_run_input", "datara_rt_proc_run_input">>, <<"proc_wait", "datara_rt_proc_wait">>,
      <<"socket_create", "datara_rt_socket_create">>, <<"socket_bind", "datara_rt_socket_bind">>,
      <<"socket_listen", "datara_rt_socket_listen">>, <<"socket_accept", "datara_rt_socket_accept">>,
      <<"socket_connect", "datara_rt_socket_connect">>, <<"socket_send", "datara_rt_socket_send">>,
      <<"socket_recv", "datara_rt_socket_recv">>, <<"socket_recv_outcome", "datara_rt_socket_recv_outcome">>,
      <<"socket_set_timeout", "datara_rt_socket_set_timeout">>,
      <<"socket_nonblocking", "datara_rt_socket_nonblocking">>, <<"socket_close", "datara_rt_socket_close">>,
      <<"input_int", "datara_rt_input_int">>, <<"input_float", "datara_rt_input_float">>,
      <<"read_int", "datara_rt_fast_read_int">>, <<"fast_read_int", "datara_rt_fast_read_int">>,
      <<"read_float", "datara_rt_fast_read_float">>, <<"fast_read_float", "datara_rt_fast_read_float">>,
      <<"sha256", "datara_rt_sha256">>, <<"base64_encode", "datara_rt_base64_encode">>,
      <<"base64_decode", "datara_rt_base64_decode">>, <<"uuid_v4", "datara_rt_uuid_v4">>,
      <<"system", "datara_rt_system">>, <<"exec", "datara_rt_exec">>, <<"process_output", "datara_rt_exec">>,
      <<"math_sqrt", "datara_rt_math_sqrt">>, <<"sqrt", "datara_rt_math_sqrt">>,
      <<"math_pow", "datara_rt_math_pow">>, <<"pow", "datara_rt_math_pow">>,
      <<"math_abs", "datara_rt_math_abs">>, <<"math_sin", "datara_rt_math_sin">>,
      <<"sin", "datara_rt_math_sin">>, <<"math_cos", "datara_rt_math_cos">>, <<"cos", "datara_rt_math_cos">>,
      <<"math_tan", "datara_rt_math_tan">>, <<"tan", "datara_rt_math_tan">>,
      <<"math_floor", "datara_rt_math_floor">>, <<"floor", "datara_rt_math_floor">>,
      <<"math_ceil", "datara_rt_math_ceil">>, <<"ceil", "datara_rt_math_ceil">>,
      <<"math_round", "datara_rt_math_round">>, <<"round", "datara_rt_math_round">>,
      <<"math_min", "datara_rt_math_min">>, <<"math_max", "datara_rt_math_max">>,
      <<"math_clamp", "datara_rt_math_clamp">>, <<"clamp", "datara_rt_math_clamp">>,
      <<"math_hypot", "datara_rt_math_hypot">>, <<"hypot", "datara_rt_math_hypot">>,
      <<"math_log", "datara_rt_math_log">>, <<"log", "datara_rt_math_log">>,
      <<"math_exp", "datara_rt_math_exp">>, <<"exp", "datara_rt_math_exp">>,
      <<"math_min_int", "datara_rt_math_min_int">>, <<"math_max_int", "datara_rt_math_max_int">>,
      <<"math_clamp_int", "datara_rt_math_clamp_int">>, <<"math_abs_int", "datara_rt_math_abs_int">>,
      <<"math_ctz", "datara_rt_math_ctz">>, <<"math_shr", "datara_rt_math_shr">>,
      <<"math_shl", "datara_rt_math_shl">>}]

RegNumbers ==
  [own |-> {
      "datara_rt_math_xor", "datara_rt_math_and", "datara_rt_math_or", "datara_rt_slice",
      "datara_rt_out_val", "datara_val_from_int", "datara_rt_val_from_f64_bits", "datara_val_from_bool",
      "datara_val_from_str", "datara_val_is_int", "datara_val_is_float", "datara_val_is_bool",
      "datara_val_is_str", "datara_val_to_int", "datara_val_to_float", "datara_val_to_bool",
      "datara_val_to_str", "datara_rt_val_as_int_outcome", "datara_rt_val_as_float_outcome",
      "datara_rt_val_to_int_checked", "datara_rt_val_to_f64_bits_checked", "datara_rt_val_to_str_tagged",
      "datara_rt_parallel_for", "datara_rt_parallel_invoke", "datara_rt_fiber_spawn",
      "datara_rt_fiber_yield", "datara_rt_fiber_sleep_ms", "datara_rt_fiber_join",
      "datara_rt_fiber_run_until_done", "datara_rt_fiber_count", "datara_rt_fiber_done_count",
      "datara_rt_fiber_reset", "datara_rt_fiber_chan_create", "datara_rt_fiber_chan_send",
      "datara_rt_fiber_chan_recv", "datara_rt_fiber_now_ms", "datara_rt_fiber_mt_start",
      "datara_rt_fiber_mt_spawn", "datara_rt_fiber_mt_join", "datara_rt_fiber_mt_done_count",
      "datara_rt_fiber_mt_spawned", "datara_rt_fiber_mt_wait_idle", "datara_rt_fiber_mt_shutdown",
      "datara_rt_num_workers", "datara_rt_schedule_run", "datara_rt_schedule_cancel",
      "datara_rt_arena_alloc", "datara_rt_arena_checkpoint", "datara_rt_arena_reset", "datara_rt_strbuf_new",
      "datara_rt_strbuf_push", "datara_rt_strbuf_push_int", "datara_rt_strbuf_join", "datara_rt_strbuf_len",
      "datara_rt_heap_live", "datara_rt_free", "datara_rt_str_free", "datara_rt_list_free",
      "datara_rt_own_acquire", "datara_rt_own_release", "datara_rt_arc_init", "datara_rt_arc_acquire",
      "datara_rt_arc_release", "datara_rt_arc_count", "datara_rt_weak_create", "datara_rt_weak_upgrade",
      "datara_rt_weak_drop", "datara_rt_pool_alloc", "datara_rt_pool_free", "datara_rt_box_alloc",
      "datara_rt_box_get", "datara_rt_box_free", "datara_rt_str_sso", "datara_rt_str_is_sso",
      "datara_rt_heap_alloc_count", "datara_rt_reset_heap_alloc_count", "datara_rt_list_init_stack",
      "datara_rt_list_is_small_vec", "datara_rt_chase_lev_create", "datara_rt_chase_lev_destroy",
      "datara_rt_chase_lev_push", "datara_rt_chase_lev_pop", "datara_rt_chase_lev_steal",
      "datara_rt_chase_lev_size", "datara_rt_fast_memcpy", "datara_rt_fast_memset", "datara_rt_fast_strncmp",
      "datara_rt_fast_memcmp", "datara_rt_pin_thread", "datara_rt_get_current_core",
      "datara_rt_pin_worker_threads"},
   also |-> {
      <<"math_xor", "datara_rt_math_xor">>, <<"math_and", "datara_rt_math_and">>,
      <<"math_or", "datara_rt_math_or">>, <<"parallel_for", "datara_rt_parallel_for">>,
      <<"fiber_spawn", "datara_rt_fiber_spawn">>, <<"fiber_yield", "datara_rt_fiber_yield">>,
      <<"fiber_sleep_ms", "datara_rt_fiber_sleep_ms">>, <<"fiber_join", "datara_rt_fiber_join">>,
      <<"fiber_run_until_done", "datara_rt_fiber_run_until_done">>,
      <<"fiber_chan_create", "datara_rt_fiber_chan_create">>,
      <<"fiber_chan_send", "datara_rt_fiber_chan_send">>, <<"fiber_chan_recv", "datara_rt_fiber_chan_recv">>,
      <<"fiber_mt_start", "datara_rt_fiber_mt_start">>, <<"fiber_mt_spawn", "datara_rt_fiber_mt_spawn">>,
      <<"fiber_mt_join", "datara_rt_fiber_mt_join">>,
      <<"fiber_mt_done_count", "datara_rt_fiber_mt_done_count">>,
      <<"fiber_mt_spawned", "datara_rt_fiber_mt_spawned">>,
      <<"fiber_mt_wait_idle", "datara_rt_fiber_mt_wait_idle">>,
      <<"fiber_mt_shutdown", "datara_rt_fiber_mt_shutdown">>,
      <<"parallel_invoke", "datara_rt_parallel_invoke">>, <<"num_workers", "datara_rt_num_workers">>,
      <<"schedule_run", "datara_rt_schedule_run">>, <<"schedule_cancel", "datara_rt_schedule_cancel">>,
      <<"datara_rt_stack_alloc", "datara_rt_arena_alloc">>, <<"stack_alloc", "datara_rt_arena_alloc">>,
      <<"arc_init", "datara_rt_arc_init">>, <<"arc_acquire", "datara_rt_arc_acquire">>,
      <<"arc_release", "datara_rt_arc_release">>, <<"arc_count", "datara_rt_arc_count">>,
      <<"weak_create", "datara_rt_weak_create">>, <<"weak_upgrade", "datara_rt_weak_upgrade">>,
      <<"weak_drop", "datara_rt_weak_drop">>}]

-----------------------------------------------------------------------------
(* What the front end believes of the runtime's functions: the signatures of   *)
(* the type checker's prelude, << parameter types, result type, names >>, and  *)
(* the result types that the lowering gives to calls, << type, names >>.       *)

SigCore == {
    <<<<"String">>, "Class", {"fs_open"}>>,
    <<<<"Class">>, "String", {"fs_read"}>>,
    <<<<"String", "String">>, "Int", {"fs_write"}>>,
    <<<<"String", "Int">>, "Int", {"net_connect"}>>,
    <<<<"Int">>, "Int", {"net_listen", "math_ctz", "ctz", "wrapping", "saturating"}>>,
    <<<<"String">>, "Int", {"proc_spawn", "len", "length"}>>,
    <<<<"String">>, "Unit", {"println", "print", "eprintln"}>>,
    <<<<"String">>, "Never", {"panic"}>>,
    <<<<"Bool", "String">>, "Unit", {"assert"}>>,
    <<<<>>, "Int", {"now", "now_ms", "now_ns", "datara_rt_now_ns", "now_precise_ms"}>>,
    <<<<>>, "Float", {"time_precise_ms", "datara_rt_time_precise_ms", "time_delta_ms",
      "datara_rt_time_delta_ms"}>>,
    <<<<"String", "String">>, "String", {"path_join", "datara_rt_path_join"}>>,
    <<<<"Int", "Int">>, "Int", {"math_shr", "shr", "math_shl", "shl", "math_xor", "xor", "math_and", "and",
      "math_or", "or", "wrapping_add", "wrapping_sub", "wrapping_mul", "saturating_add", "saturating_sub",
      "saturating_mul"}>>,
    <<<<"Int">>, "Never", {"exit"}>> }

SigChecked == {
    <<<<"String">>, "String", {"input", "file_read", "read_file"}>>,
    <<<<"Int">>, "Unit", {"sleep", "cap_set_mask", "datara_rt_cap_set_mask"}>>,
    <<<<"String">>, "List", {"file_read_bytes", "dir_list"}>>,
    <<<<"String", "List">>, "Int", {"file_write_bytes"}>>,
    <<<<"String", "String">>, "Int", {"file_write", "write_file", "file_append"}>>,
    <<<<"String">>, "Bool", {"file_exists", "path_exists"}>>,
    <<<<"Int", "Int">>, "Result", {"checked_add", "checked_sub", "checked_mul"}>>,
    <<<<"String">>, "Result", {"file_read_checked", "parse_int", "parse_float", "env_get_checked"}>>,
    <<<<>>, "Int", {"cap_get_mask", "datara_rt_cap_get_mask"}>> }

SigCapabilities == {
    <<<<"Int">>, "Unit", {"cap_revoke", "datara_rt_cap_revoke", "cap_grant", "datara_rt_cap_grant"}>>,
    <<<<"Int", "String">>, "Unit", {"cap_require", "datara_rt_cap_require"}>>,
    <<<<"String">>, "String", {"env_get"}>>,
    <<<<"String", "String">>, "Int", {"env_set", "datara_rt_env_set", "str_cmp", "datara_rt_str_cmp",
      "str_index_of"}>>,
    <<<<"Int">>, "String", {"str_from_byte", "datara_rt_str_from_byte", "args_get"}>>,
    <<<<"List">>, "String", {"str_from_bytes", "datara_rt_str_from_bytes"}>>,
    <<<<"String">>, "List", {"str_bytes", "datara_rt_str_bytes"}>>,
    <<<<>>, "Int", {"args_count"}>>,
    <<<<"String", "String">>, "Bool", {"str_contains", "str_starts_with", "str_ends_with"}>> }

SigSubstrings == {
    <<<<"String", "Int">>, "Int", {"str_cp_to_byte", "datara_rt_str_cp_to_byte", "str_byte_to_cp",
      "datara_rt_str_byte_to_cp", "str_byte_at", "datara_rt_str_byte_at", "byte_at", "str_next_offset",
      "datara_rt_str_next_offset"}>>,
    <<<<"String", "Int", "Int">>, "String", {"str_substring_cp", "datara_rt_str_substring_cp",
      "str_substring", "substring", "substr", "str_substr", "datara_rt_str_substring"}>>,
    <<<<"String">>, "Int", {"str_len", "datara_rt_str_len", "byte_len", "datara_rt_byte_len", "str_chars",
      "datara_rt_str_chars", "char_len", "datara_rt_char_len", "str_to_int"}>>,
    <<<<"String">>, "String", {"str_sanitize_utf8", "datara_rt_str_sanitize_utf8", "str_trim"}>>,
    <<<<"String">>, "Bool", {"validate_utf8", "datara_rt_validate_utf8"}>>,
    <<<<"String", "Int">>, "String", {"str_scalar_at", "datara_rt_str_scalar_at", "str_scalar_at_cp",
      "datara_rt_str_scalar_at_cp", "str_char_at", "str_repeat", "repeat", "datara_rt_str_repeat"}>>,
    <<<<"String">>, "Float", {"str_to_float"}>>,
    <<<<"String", "Int", "String">>, "String", {"str_pad_left", "pad_left", "datara_rt_str_pad_left",
      "str_pad_right", "pad_right", "datara_rt_str_pad_right"}>> }

SigFormat == {
    <<<<"String", "String", "String">>, "String", {"str_replace", "replace", "datara_rt_str_replace"}>>,
    <<<<"String">>, "String", {"str_to_upper", "to_upper", "datara_rt_str_to_upper", "str_to_lower",
      "to_lower", "datara_rt_str_to_lower", "js_eval", "datara_js_eval"}>>,
    <<<<"String", "String">>, "List", {"str_split", "split", "datara_rt_str_split"}>>,
    <<<<"List", "String">>, "String", {"str_join", "join", "datara_rt_str_join"}>>,
    <<<<"Int">>, "Bool", {"fiber_is_done"}>>,
    <<<<>>, "Int", {"mutex_new"}>>,
    <<<<"Int", "Int">>, "Result", {"mutex_lock"}>>,
    <<<<"Int">>, "Unit", {"mutex_unlock"}>>,
    <<<<"Class">>, "List", {"map_keys", "datara_rt_map_keys_str", "map_keys_int", "datara_rt_map_keys_int",
      "map_values", "map_values_str"}>>,
    <<<<"Float", "Int">>, "String", {"format_percent", "datara_rt_format_percent"}>>,
    <<<<"Int">>, "String", {"format_int_with_commas", "datara_rt_format_int_with_commas"}>>,
    <<<<"String">>, "Int", {"js_eval_int", "datara_js_eval_int"}>>,
    <<<<"String">>, "Float", {"js_eval_float", "datara_js_eval_float"}>> }

SigScripts == {
    <<<<"String">>, "Int", {"js_require", "datara_js_require", "py_eval_int", "datara_py_eval_int",
      "zig_eval_int", "datara_zig_eval_int", "lua_eval_int", "datara_lua_eval_int", "lua_exec",
      "datara_lua_exec"}>>,
    <<<<"String", "String">>, "String", {"js_call", "datara_js_call", "js_call_1", "datara_js_call_1"}>>,
    <<<<"String">>, "String", {"js_call_0", "datara_js_call_0", "js_get_global", "datara_js_get_global",
      "py_eval", "datara_py_eval", "py_eval_safe", "datara_py_eval_safe"}>>,
    <<<<"String", "String", "String">>, "String", {"js_call_2", "datara_js_call_2"}>>,
    <<<<"String", "String">>, "Int", {"js_set_global", "datara_js_set_global", "polyglot_parallel_exec",
      "datara_polyglot_parallel_exec"}>>,
    <<<<"String">>, "Float", {"py_eval_float", "datara_py_eval_float", "lua_eval_float",
      "datara_lua_eval_float"}>>,
    <<<<"String", "Int">>, "Int", {"zig_call", "datara_zig_call"}>>,
    <<<<"String", "String", "Int">>, "Int", {"csharp_invoke_i64", "datara_csharp_invoke_i64"}>>,
    <<<<"String", "String", "Float">>, "Float", {"csharp_invoke_f64", "datara_csharp_invoke_f64"}>> }

SigMemory == {
    <<<<"String", "String">>, "String", {"py_call", "datara_py_call", "py_call_1_str",
      "datara_py_call_1_str"}>>,
    <<<<"String", "Float">>, "Float", {"py_call_1_float", "datara_py_call_1_float"}>>,
    <<<<"Int">>, "RawPtr", {"arena_alloc", "datara_rt_arena_alloc", "mem_alloc", "datara_rt_mem_alloc",
      "stack_alloc", "datara_rt_stack_alloc"}>>,
    <<<<"Int">>, "Unit", {"arena_reset", "datara_rt_arena_reset"}>>,
    <<<<>>, "Int", {"arena_used", "datara_rt_arena_used"}>>,
    <<<<>>, "Unit", {"arena_clear", "datara_rt_arena_clear"}>>,
    <<<<"RawPtr">>, "Unit", {"mem_free", "datara_rt_mem_free", "arc_release", "datara_rt_arc_release",
      "weak_drop", "datara_rt_weak_drop"}>>,
    <<<<"RawPtr", "RawPtr", "Int">>, "Unit", {"mem_copy", "datara_rt_mem_copy"}>>,
    <<<<"RawPtr">>, "RawPtr", {"arc_init", "datara_rt_arc_init", "arc_acquire", "datara_rt_arc_acquire",
      "weak_create", "datara_rt_weak_create"}>>,
    <<<<"RawPtr">>, "Int", {"arc_count", "datara_rt_arc_count"}>>,
    <<<<"RawPtr">>, "GenericInstance", {"weak_upgrade", "datara_rt_weak_upgrade"}>>,
    <<<<"RawPtr", "Int">>, "Int", {"ptr_read_i64", "datara_rt_ptr_read_i64", "ptr_read_u8",
      "datara_rt_ptr_read_u8"}>> }

SigPointers == {
    <<<<"RawPtr", "Int", "Int">>, "Unit", {"ptr_write_i64", "datara_rt_ptr_write_i64", "ptr_write_u8",
      "datara_rt_ptr_write_u8"}>>,
    <<<<"RawPtr", "Int">>, "Float", {"ptr_read_f64", "datara_rt_ptr_read_f64"}>>,
    <<<<"RawPtr", "Int", "Float">>, "Unit", {"ptr_write_f64", "datara_rt_ptr_write_f64"}>>,
    <<<<>>, "Unit", {"cpu_fence", "datara_rt_cpu_fence", "py_clear_error", "datara_py_clear_error"}>>,
    <<<<"RawPtr">>, "Unit", {"cpu_prefetch", "datara_rt_cpu_prefetch"}>>,
    <<<<"String">>, "Int", {"py_import", "datara_py_import", "py_exec", "datara_py_exec"}>>,
    <<<<>>, "String", {"py_last_error", "datara_py_last_error"}>>,
    <<<<"String", "List">>, "Int", {"datara_py_export_list_f64", "datara_py_assert_same_ptr",
      "datara_js_export_list_f64", "datara_js_assert_same_ptr"}>>,
    <<<<"Float">>, "Float", {"math_sqrt", "datara_rt_math_sqrt", "sqrt", "math_abs", "datara_rt_math_abs",
      "math_sin", "datara_rt_math_sin", "sin", "math_cos", "datara_rt_math_cos", "cos", "math_tan",
      "datara_rt_math_tan", "tan", "math_floor", "datara_rt_math_floor", "floor", "math_ceil",
      "datara_rt_math_ceil", "ceil", "math_round", "datara_rt_math_round", "round", "math_log",
      "datara_rt_math_log", "log", "math_exp", "datara_rt_math_exp", "exp"}>>,
    <<<<"Float", "Float", "Float">>, "Float", {"math_clamp", "datara_rt_math_clamp", "clamp"}>>,
    <<<<"Int", "Int", "Int">>, "Int", {"math_clamp_int", "datara_rt_math_clamp_int", "clamp_int"}>> }

SigSockets == {
    <<<<"Float", "Float">>, "Float", {"math_pow", "datara_rt_math_pow", "pow", "math_min",
      "datara_rt_math_min", "math_max", "datara_rt_math_max", "math_hypot", "datara_rt_math_hypot",
      "hypot"}>>,
    <<<<"Int", "Int">>, "Int", {"math_min_int", "datara_rt_math_min_int", "math_max_int",
      "datara_rt_math_max_int", "math_shr", "datara_rt_math_shr", "shr", "math_shl", "datara_rt_math_shl",
      "shl", "math_xor", "datara_rt_math_xor", "xor", "math_and", "datara_rt_math_and", "and", "math_or",
      "datara_rt_math_or", "or", "math_bitwise_and", "math_bitwise_or", "math_bitwise_xor",
      "socket_listen"}>>,
    <<<<"Int">>, "Int", {"math_abs_int", "datara_rt_math_abs_int", "math_ctz", "datara_rt_math_ctz", "ctz",
      "math_clz", "clz", "math_popcnt", "popcnt", "math_bitwise_not", "socket_create", "socket_accept"}>>,
    <<<<>>, "String", {"read_line"}>>,
    <<<<>>, "Int", {"read_int"}>>,
    <<<<>>, "Float", {"read_float"}>>,
    <<<<"String">>, "String", {"py_eval_batch", "datara_py_eval_batch"}>>,
    <<<<"Int", "String", "Int">>, "Int", {"socket_bind", "socket_connect"}>>,
    <<<<"Int", "String">>, "Int", {"socket_send"}>>,
    <<<<"Int", "Int">>, "String", {"socket_recv"}>>,
    <<<<"Int", "Int">>, "GenericInstance", {"socket_set_timeout"}>>,
    <<<<"Int", "Bool">>, "GenericInstance", {"socket_nonblocking"}>> }

SigBytes == {
    <<<<"Int", "Int">>, "GenericInstance", {"socket_recv_outcome"}>>,
    <<<<"Int">>, "Unit", {"socket_close"}>>,
    <<<<"String">>, "String", {"sha256", "base64_encode", "base64_decode", "str_sanitize_utf8",
      "datara_rt_str_sanitize_utf8"}>>,
    <<<<"String">>, "Int", {"str_len", "datara_rt_str_len", "byte_len", "datara_rt_byte_len", "str_chars",
      "datara_rt_str_chars", "char_len", "datara_rt_char_len"}>>,
    <<<<"String", "Int">>, "Int", {"str_byte_at", "byte_at", "datara_rt_str_byte_at",
      "datara_rt_str_next_offset"}>>,
    <<<<"String">>, "Bool", {"validate_utf8", "datara_rt_validate_utf8"}>>,
    <<<<"String", "Int">>, "String", {"datara_rt_str_scalar_at"}>>,
    <<<<"Int">>, "String", {"int_to_str", "datara_rt_int_to_str"}>>,
    <<<<"Float">>, "String", {"float_to_str", "datara_rt_float_to_str"}>>,
    <<<<"Int">>, "Int", {"atomic_new", "datara_rt_atomic_new", "atomic_load", "datara_rt_atomic_load"}>> }

SigAtomics == {
    <<<<"Int", "Int">>, "Int", {"atomic_store", "datara_rt_atomic_store", "atomic_fetch_add",
      "datara_rt_atomic_fetch_add"}>>,
    <<<<"Int", "Int", "Int">>, "Int", {"atomic_cas", "datara_rt_atomic_cas"}>>,
    <<<<"Int", "Int", "Int">>, "Result", {"fiber_net_recv", "datara_rt_fiber_net_recv"}>>,
    <<<<"Float", "Int">>, "String", {"float_to_str_prec", "datara_rt_float_to_str_prec"}>>,
    <<<<"Bool">>, "String", {"bool_to_str", "datara_rt_bool_to_str"}>>,
    <<<<>>, "String", {"uuid_v4", "datara_rt_uuid_v4"}>>,
    <<<<"String", "String">>, "Int", {"datara_rt_dialog_info", "datara_rt_dialog_alert",
      "datara_rt_dialog_confirm"}>>,
    <<<<"String">>, "Int", {"process_run", "system"}>>,
    <<<<"String">>, "String", {"process_output", "exec"}>> }

SigProcess == {
    <<<<"String">>, "Result", {"exec_utf8", "datara_rt_exec_utf8", "proc_spawn", "datara_rt_proc_spawn"}>>,
    <<<<"String", "String">>, "Result", {"proc_run_input", "datara_rt_proc_run_input"}>>,
    <<<<"Int">>, "Result", {"proc_wait", "datara_rt_proc_wait"}>> }

SigThreads == {
    <<<<"Val">>, "Class", {"spawn"}>>,
    <<<<"Class">>, "Int", {"join", "channel_recv", "channel_try_recv", "channel_len"}>>,
    <<<<"Class", "Int">>, "Int", {"join_timeout"}>>,
    <<<<"Int">>, "Class", {"channel_create"}>>,
    <<<<>>, "Class", {"channel_new"}>>,
    <<<<"Class", "Int">>, "Bool", {"channel_send"}>>,
    <<<<"Class">>, "Unit", {"channel_close"}>>,
    <<<<"Int", "Int", "Val">>, "Unit", {"parallel_for"}>>,
    <<<<>>, "Int", {"scratch_enter"}>>,
    <<<<"Int", "Int">>, "RawPtr", {"scratch_alloc"}>>,
    <<<<"Int">>, "Unit", {"scratch_exit"}>>,
    <<<<"RawPtr", "Int">>, "RawPtr", {"scratch_promote"}>> }

SigSystems == {
    <<<<"Int">>, "Int", {"hton16", "ntoh16", "hton32", "ntoh32", "hton64", "ntoh64", "bswap16", "bswap32",
      "bswap64"}>>,
    <<<<"Int">>, "Class", {"slice_alloc"}>>,
    <<<<"RawPtr", "Int">>, "Class", {"slice_from_buffer"}>>,
    <<<<"Class">>, "Unit", {"slice_free"}>>,
    <<<<"RawPtr">>, "Class", {"volatile_ptr"}>>,
    <<<<"RawPtr">>, "Int", {"volatile_read8", "volatile_read16", "volatile_read32", "volatile_read64"}>>,
    <<<<"RawPtr", "Int">>, "Unit", {"volatile_write8", "volatile_write16", "volatile_write32",
      "volatile_write64"}>>,
    <<<<>>, "Unit", {"atomic_fence_acquire", "atomic_fence_release", "atomic_fence_acq_rel"}>> }

SigVolatile == {
    <<<<>>, "Unit", {"atomic_fence_seq_cst"}>>,
    <<<<"String">>, "Unit", {"atomic_fence"}>>,
    <<<<"Int">>, "RawPtr", {"typed_zero_init"}>> }

SigFibers == {
    <<<<"RawPtr", "Int", "Int">>, "Int", {"fiber_spawn", "datara_rt_fiber_spawn"}>>,
    <<<<>>, "Unit", {"fiber_yield", "datara_rt_fiber_yield", "fiber_mt_wait_idle",
      "datara_rt_fiber_mt_wait_idle"}>>,
    <<<<"Int">>, "Unit", {"fiber_sleep_ms", "datara_rt_fiber_sleep_ms"}>>,
    <<<<"Int", "Int">>, "Unit", {"fiber_chan_send", "datara_rt_fiber_chan_send"}>>,
    <<<<>>, "Int", {"fiber_run_until_done", "datara_rt_fiber_run_until_done", "fiber_count",
      "datara_rt_fiber_count", "fiber_done_count", "datara_rt_fiber_done_count", "fiber_chan_create",
      "datara_rt_fiber_chan_create", "fiber_mt_start", "datara_rt_fiber_mt_start", "fiber_mt_done_count",
      "datara_rt_fiber_mt_done_count", "fiber_mt_spawned", "datara_rt_fiber_mt_spawned"}>>,
    <<<<"Int">>, "Int", {"fiber_mt_join", "datara_rt_fiber_mt_join", "fiber_join", "datara_rt_fiber_join",
      "fiber_chan_recv", "datara_rt_fiber_chan_recv"}>>,
    <<<<"RawPtr", "Int">>, "Int", {"fiber_mt_spawn", "datara_rt_fiber_mt_spawn"}>> }

RetStrings == {
    <<"Int", {"str_to_int", "datara_rt_str_to_int", "str_index_of", "datara_rt_str_index_of", "file_write",
      "write_file", "datara_rt_file_write", "file_write_bytes", "datara_rt_file_write_bytes", "file_append",
      "datara_rt_file_append", "str_cp_to_byte", "datara_rt_str_cp_to_byte", "str_byte_to_cp",
      "datara_rt_str_byte_to_cp", "args_count", "datara_rt_args_count", "env_set", "datara_rt_env_set",
      "str_cmp", "datara_rt_str_cmp", "now", "now_ms", "now_ns", "datara_rt_now_ns", "now_precise_ms",
      "length", "count", "reduce", "find", "str_len", "datara_rt_str_len", "atomic_new",
      "datara_rt_atomic_new", "atomic_load", "datara_rt_atomic_load", "atomic_store",
      "datara_rt_atomic_store", "atomic_fetch_add", "datara_rt_atomic_fetch_add", "atomic_cas",
      "datara_rt_atomic_cas"}>>,
    <<"Float", {"str_to_float", "datara_rt_str_to_float", "time_precise_ms", "datara_rt_time_precise_ms",
      "time_delta_ms", "datara_rt_time_delta_ms"}>>,
    <<"Bool", {"str_contains", "datara_rt_str_contains", "str_starts_with", "datara_rt_str_starts_with",
      "str_ends_with", "datara_rt_str_ends_with", "file_exists", "datara_rt_file_exists", "path_exists",
      "datara_rt_path_exists", "any", "all"}>>,
    <<"String", {"str_trim", "datara_rt_str_trim", "input", "read_line", "datara_rt_input", "http_get",
      "datara_rt_http_get", "file_read", "read_file", "datara_rt_file_read", "str_substring_cp",
      "datara_rt_str_substring_cp", "str_scalar_at", "datara_rt_str_scalar_at", "str_scalar_at_cp",
      "datara_rt_str_scalar_at_cp", "args_get", "datara_rt_args_get", "env_get", "datara_rt_env_get",
      "str_from_byte", "datara_rt_str_from_byte", "str_from_bytes", "datara_rt_str_from_bytes", "path_join",
      "datara_rt_path_join", "int_to_str", "datara_rt_int_to_str", "float_to_str", "datara_rt_float_to_str",
      "float_to_str_prec"}>>,
    <<"List", {"file_read_bytes", "datara_rt_file_read_bytes", "dir_list", "datara_rt_dir_list",
      "str_bytes", "datara_rt_str_bytes", "map", "filter"}>>,
    <<"SystemCapabilities", {"datara_rt_sys_caps_create"}>>,
    <<"Outcome", {"file_read_checked", "datara_rt_file_read_checked", "parse_int",
      "datara_rt_str_to_int_checked", "parse_float", "datara_rt_str_to_float_checked", "env_get_checked",
      "datara_rt_env_get_checked", "proc_spawn", "datara_rt_proc_spawn", "proc_run_input",
      "datara_rt_proc_run_input", "proc_wait", "datara_rt_proc_wait", "fiber_net_recv"}>> }

RetNumbers == {
    <<"Bool", {"fiber_is_done", "datara_rt_fiber_is_done"}>>,
    <<"Int", {"mutex_new", "datara_rt_mutex_new", "socket_create", "socket_bind", "socket_listen",
      "socket_accept", "socket_connect", "socket_send", "datara_rt_dialog_info", "datara_rt_dialog_alert",
      "datara_rt_dialog_confirm", "process_run", "system"}>>,
    <<"Result", {"mutex_lock", "datara_rt_mutex_lock"}>>,
    <<"Unit", {"mutex_unlock", "datara_rt_mutex_unlock", "socket_close"}>>,
    <<"List", {"map_keys", "datara_rt_map_keys_str", "map_keys_int", "datara_rt_map_keys_int", "map_values",
      "map_values_str", "split", "str_split", "datara_rt_str_split"}>>,
    <<"Outcome", {"datara_rt_fiber_net_recv", "exec_utf8", "datara_rt_exec_utf8"}>>,
    <<"String", {"datara_rt_float_to_str_prec", "str_join", "datara_rt_str_join", "substring", "substr",
      "str_substring", "str_substr", "datara_rt_str_substring", "repeat", "str_repeat",
      "datara_rt_str_repeat", "pad_left", "str_pad_left", "datara_rt_str_pad_left", "pad_right",
      "str_pad_right", "datara_rt_str_pad_right", "replace", "str_replace", "datara_rt_str_replace",
      "socket_recv", "sha256", "base64_encode", "base64_decode", "uuid_v4", "datara_rt_uuid_v4",
      "process_output", "exec"}>>,
    <<"Float", {"math_sqrt", "datara_rt_math_sqrt", "sqrt", "math_pow", "datara_rt_math_pow", "pow",
      "math_abs", "datara_rt_math_abs", "abs", "math_sin", "datara_rt_math_sin", "sin", "math_cos",
      "datara_rt_math_cos", "cos", "math_tan", "datara_rt_math_tan", "tan", "math_floor",
      "datara_rt_math_floor", "floor", "math_ceil", "datara_rt_math_ceil", "ceil", "math_round",
      "datara_rt_math_round", "round", "math_min", "datara_rt_math_min", "math_max", "datara_rt_math_max",
      "math_hypot", "datara_rt_math_hypot", "hypot", "math_log", "datara_rt_math_log", "log", "math_exp",
      "datara_rt_math_exp", "exp", "math_clamp", "datara_rt_math_clamp", "clamp"}>> }

RetVectors == {
    <<"Int", {"math_min_int", "datara_rt_math_min_int", "math_max_int", "datara_rt_math_max_int",
      "math_clamp_int", "datara_rt_math_clamp_int", "clamp_int", "math_abs_int", "datara_rt_math_abs_int",
      "math_ctz", "datara_rt_math_ctz", "ctz", "math_shr", "datara_rt_math_shr", "shr", "math_shl",
      "datara_rt_math_shl", "shl", "math_xor", "datara_rt_math_xor", "xor", "math_and",
      "datara_rt_math_and", "and", "math_or", "datara_rt_math_or", "or"}>>,
    <<"Int4", {"int4", "datara_rt_int4", "i32x4", "datara_rt_i32x4", "i32x4_add", "i32x4_sub", "i32x4_mul",
      "i32x4_div", "i32x4_min", "i32x4_max"}>>,
    <<"i32x8", {"i32x8", "datara_rt_i32x8", "i32x8_add", "i32x8_sub", "i32x8_mul", "i32x8_div", "i32x8_min",
      "i32x8_max"}>>,
    <<"Float4", {"float4", "datara_rt_float4", "f32x4", "datara_rt_f32x4", "min4", "max4", "f32x4_add",
      "f32x4_sub", "f32x4_mul", "f32x4_div", "f32x4_cross", "f32x4_min", "f32x4_max", "f32x4_lerp",
      "f32x4_normalize"}>>,
    <<"f32x8", {"f32x8", "datara_rt_f32x8", "f32x8_add", "f32x8_sub", "f32x8_mul", "f32x8_div", "f32x8_min",
      "f32x8_max", "f32x8_lerp", "f32x8_normalize"}>>,
    <<"f32x16", {"f32x16", "datara_rt_f32x16", "f32x16_add", "f32x16_sub", "f32x16_mul", "f32x16_div",
      "f32x16_min", "f32x16_max", "f32x16_lerp", "f32x16_normalize"}>>,
    <<"f64x2", {"f64x2", "datara_rt_f64x2", "f64x2_add", "f64x2_sub", "f64x2_mul", "f64x2_div", "f64x2_min",
      "f64x2_max", "f64x2_lerp", "f64x2_normalize"}>>,
    <<"f64x4", {"f64x4", "datara_rt_f64x4", "f64x4_add", "f64x4_sub", "f64x4_mul", "f64x4_div", "f64x4_min",
      "f64x4_max", "f64x4_lerp", "f64x4_normalize"}>> }

RetLanes == {
    <<"Float", {"dot", "datara_rt_float4_dot", "float4_x", "float4_y", "float4_z", "float4_w", "f32x4_dot",
      "f32x4_horizontal_add", "f32x4_distance", "aabb_intersects", "datara_rt_aabb_intersects", "f32x8_dot",
      "f32x8_horizontal_add", "f32x8_distance", "f32x16_dot", "f32x16_horizontal_add", "f32x16_distance",
      "f64x2_dot", "f64x2_horizontal_add", "f64x2_distance", "f64x4_dot", "f64x4_horizontal_add",
      "f64x4_distance", "dot_f32_array", "datara_rt_dot_f32_array", "ray_sphere_intersect_simd",
      "ray_sphere_intersect_scalar", "datara_rt_ray_sphere_intersect_simd",
      "datara_rt_ray_sphere_intersect_scalar", "fma", "fmaf", "datara_rt_fma", "datara_rt_fmaf", "lane0",
      "lane1", "lane2", "lane3", "ptr_read_f64", "datara_rt_ptr_read_f64"}>>,
    <<"Int", {"int4_x", "int4_y", "int4_z", "int4_w", "i32x4_dot", "i32x4_horizontal_add", "i32x8_dot",
      "i32x8_horizontal_add", "arena_alloc", "datara_rt_arena_alloc", "mem_alloc", "datara_rt_mem_alloc",
      "arena_used", "datara_rt_arena_used", "ptr_read_i64", "datara_rt_ptr_read_i64", "ptr_read_u8",
      "datara_rt_ptr_read_u8", "datara_rt_global_get", "arc_count", "datara_rt_arc_count"}>>,
    <<"RawPtr", {"arc_init", "datara_rt_arc_init", "arc_acquire", "datara_rt_arc_acquire", "weak_create",
      "datara_rt_weak_create"}>>,
    <<"Unit", {"arc_release", "datara_rt_arc_release", "weak_drop", "datara_rt_weak_drop", "arena_reset",
      "datara_rt_arena_reset", "arena_clear", "datara_rt_arena_clear", "mem_free", "datara_rt_mem_free",
      "mem_copy", "datara_rt_mem_copy", "ptr_write_i64", "datara_rt_ptr_write_i64", "ptr_write_f64",
      "datara_rt_ptr_write_f64", "ptr_write_u8", "datara_rt_ptr_write_u8", "cpu_fence",
      "datara_rt_cpu_fence", "cpu_prefetch", "datara_rt_cpu_prefetch", "datara_rt_global_set"}>> }

-----------------------------------------------------------------------------
CONSTANT UserFns   \* the program's functions: a set of <<name, params, result>>

ASSUME UserFnsAssumption == \A f \in UserFns : f[1] \in STRING

VARIABLES abiPc,       \* what comes next: "link", "declare", "user" or "call"
          abiImports,  \* symbol -> signature, as the Cranelift module holds it
          abiFuncIds,  \* name -> signature, the backend's func_ids
          abiJit,      \* name -> function, the JIT builder's symbols
          abiErr,      \* the backend gave up
          abiCall      \* the last call that was compiled

abiVars == <<abiPc, abiImports, abiFuncIds, abiJit, abiErr, abiCall>>

-----------------------------------------------------------------------------
(* Signatures.                                                               *)

Sig(row) == [params |-> row[1], ret |-> row[2]]

ShapesOf(rows, names(_)) ==
  [n \in UNION {names(r) : r \in rows} |-> Sig(CHOOSE r \in rows : n \in names(r))]

(* The register file a value travels in: widths within it do not matter to the *)
(* calling convention, the file does.                                          *)
RegFile(r) == IF r \in {RF, RS} THEN "float" ELSE IF r = NoReg THEN NoReg ELSE "int"

SameShape(a, b) ==
  /\ Len(a.params) = Len(b.params)
  /\ \A i \in 1..Len(a.params) : RegFile(a.params[i]) = RegFile(b.params[i])
  /\ RegFile(a.ret) = RegFile(b.ret)

(* mutant: a Float32 or Float value is taken for a machine word *)
ClifType_FloatIsWord(t) == IF t \in {"Unit", "Never"} THEN NoReg ELSE RI

(* clif_type, for the types the prelude mentions *)
ClifType(t) == CASE t \in {"Float", "Float64"} -> RF
                 [] t = "Float32" -> RS
                 [] t \in {"Unit", "Never"} -> NoReg
                 [] OTHER -> RI

-----------------------------------------------------------------------------
(* The order in which the tables are gone through.                            *)

(* mutant: the system and thread symbols are no longer registered *)
JitOrder_NoSystems == <<RegOutput, RegStrings, RegFiles, RegLists, RegNumbers>>

JitOrder == <<RegSystems, RegThreads, RegOutput, RegStrings, RegFiles, RegLists, RegNumbers>>

DeclareOrder ==
  <<CoreOutput, CoreLists, CoreMaps, CoreMapsStr, CoreStrings, CorePrint, CoreInput, CoreListOps,
    CoreValues, CoreFiles, CoreChecked, CoreDeque, CoreArena, MemPointers, ConcThreads, ConcParallel,
    SysSlices, SysVolatile, ExtSearch, ExtSubstring, ExtCase, NatVarImports, ExtScript, ExtSockets,
    ExtHttp, ExtFormat, ExtFibers, ExtSchedule, AtomicImports, ExtMath, ExtStrBuf, MemArc>>

Prelude ==
  UNION {SigCore, SigChecked, SigCapabilities, SigSubstrings, SigFormat, SigScripts, SigMemory,
         SigPointers, SigSockets, SigBytes, SigAtomics, SigProcess, SigThreads, SigSystems,
         SigVolatile, SigFibers}

BuiltinReturns == UNION {RetStrings, RetNumbers, RetVectors, RetLanes}

LlvmDecls == UNION {LlvmFibers, LlvmLists, LlvmStrings, LlvmMaps, LlvmSystems}

JitExterns == UNION {JitPrint, JitStrings, JitCollections, JitFibers, JitSystems, SchedulerExterns}

PreludeNames == UNION {r[3] : r \in Prelude}

(* Symbols that the process itself provides: the C library's, and the two      *)
(* script bridge symbols the JIT finds, if at all, among the process's own.    *)
ProcessSymbols == {"fmin", "fmax", "datara_js_assert_same_ptr", "datara_js_export_list_f64"}

(* Names whose calls the lowering rewrites before the backend sees them.       *)
LoweredApart == {"exit", "panic", "read_line", "parallel_for", "fiber_mt_start",
                 "datara_rt_fiber_mt_start"}

-----------------------------------------------------------------------------
AbiInit ==
  /\ abiPc = "link"
  /\ abiImports = << >>
  /\ abiFuncIds = << >>
  /\ abiJit = << >>
  /\ abiErr = FALSE
  /\ abiCall = [name |-> NoReg]

(* register_runtime_symbols: a later registration of a name replaces the       *)
(* earlier one.                                                                *)
Register(jit, t) ==
  [n \in {p[1] : p \in t.also} |-> (CHOOSE p \in t.also : p[1] = n)[2]] @@ [n \in t.own |-> n] @@ jit

RegisterSymbols ==
  /\ abiPc = "link"
  /\ abiJit' = FoldLeft(Register, << >>, JitOrder)
  /\ abiPc' = "declare"
  /\ UNCHANGED <<abiImports, abiFuncIds, abiErr, abiCall>>

(* Module::declare_function: a symbol that is declared again must have the     *)
(* same signature; the table of names simply takes the later entry.            *)
Declarable(imports, s, sig) == s \notin DOMAIN imports \/ imports[s] = sig

DeclareTable(d, rows) ==
  LET new == ShapesOf(rows, LAMBDA r : r[3])
      ids == ShapesOf(rows, LAMBDA r : r[3] \cup r[4])
  IN IF d.err THEN d
     ELSE IF \A s \in DOMAIN new : Declarable(d.imports, s, new[s])
     THEN [imports |-> new @@ d.imports, ids |-> ids @@ d.ids, err |-> FALSE]
     ELSE [d EXCEPT !.err = TRUE]

(* compile_into_module_opt: the first conflict ends the compilation.           *)
DeclareRuntime ==
  /\ abiPc = "declare"
  /\ LET d == FoldLeft(DeclareTable, [imports |-> abiImports, ids |-> abiFuncIds, err |-> FALSE], DeclareOrder)
     IN abiImports' = d.imports /\ abiFuncIds' = d.ids /\ abiErr' = d.err
  /\ abiPc' = "user"
  /\ UNCHANGED <<abiJit, abiCall>>

Declared == abiPc = "user"

(* declare_module_symbols: a function of the program takes its name in         *)
(* func_ids over from the runtime; if the name is also an imported symbol the  *)
(* signatures have to agree, or the compilation fails.                         *)
DeclareUser ==
  /\ Declared /\ ~abiErr /\ abiCall.name = NoReg
  /\ \E f \in UserFns :
       LET sig == [params |-> f[2], ret |-> f[3]]
       IN IF Declarable(abiImports, f[1], sig)
          THEN /\ abiFuncIds' = f[1] :> sig @@ abiFuncIds
               /\ abiImports' = f[1] :> sig @@ abiImports
               /\ UNCHANGED abiErr
          ELSE /\ abiErr' = TRUE
               /\ UNCHANGED <<abiFuncIds, abiImports>>
  /\ abiPc' = "call"
  /\ UNCHANGED <<abiJit, abiCall>>

-----------------------------------------------------------------------------
(* compile_call.  An argument whose register does not fit is bitcast (F64 to   *)
(* an I64 parameter) or demoted (F64 to F32); anything else is passed as it    *)
(* is.  A one-argument join is the join of a thread.                           *)
(* mutant: a one-argument join is looked up like any other name *)
Callee_NoThreadJoin(n, args) == n

Callee(n, args) ==
  IF n \in {"join", "thread_join"} /\ Len(args) = 1 THEN "ThreadHandle_join" ELSE n

PassAs(reg, want) == IF reg = RF /\ want \in {RI, RS} THEN want ELSE reg

Pass(args, sig) ==
  [i \in 1..Len(args) |-> IF i <= Len(sig.params) THEN PassAs(args[i], sig.params[i]) ELSE args[i]]

(* The result of a call that the lowering typed Float is bitcast when the      *)
(* callee returns an I64.                                                      *)
ResultAs(ty, ret) == IF ty = "Float" /\ ret = RI THEN RF ELSE ret

CompileCall ==
  /\ abiPc \in {"user", "call"} /\ ~abiErr
  /\ abiCall.name = NoReg      \* compiling a call changes no table: one is enough
  /\ \E r \in Prelude : \E n \in r[3] :
       LET args == [i \in 1..Len(r[1]) |-> ClifType(r[1][i])]
           callee == Callee(n, args)
       IN /\ callee \in DOMAIN abiFuncIds
          /\ abiCall' = [name |-> n, callee |-> callee, args |-> Pass(args, abiFuncIds[callee]),
                         ret |-> ResultAs(r[2], abiFuncIds[callee].ret), type |-> r[2]]
  /\ UNCHANGED <<abiPc, abiImports, abiFuncIds, abiJit, abiErr>>

AbiNext == RegisterSymbols \/ DeclareRuntime \/ DeclareUser \/ CompileCall

AbiSpec == AbiInit /\ [][AbiNext]_abiVars

-----------------------------------------------------------------------------
UserNames == {f[1] : f \in UserFns}

(* A call that the checker accepted is passed to the runtime in the registers  *)
(* the callee was declared with, and its result arrives in the register that   *)
(* its type lives in, for every function of the prelude that the backend knows *)
(* by name (compile_call; the tables are kept by hand in five files).          *)
CallMatchesImport ==
  abiCall.name \notin {NoReg} \cup LoweredApart \cup UserNames =>
    LET sig == abiFuncIds[abiCall.callee]
    IN SameShape([params |-> abiCall.args, ret |-> abiCall.ret],
                 [params |-> sig.params, ret |-> ClifType(abiCall.type)])

ExternShape(f) == Sig(CHOOSE r \in JitExterns : f \in r[3])

ResolvesInJit(s) ==
  \/ s \in ProcessSymbols
  \/ s \in DOMAIN abiJit /\ SameShape(ExternShape(abiJit[s]), abiImports[s])

LlvmAgrees(s) ==
  \A r \in LlvmDecls : s \in r[3] => SameShape(Sig(r), abiImports[s])

(* Where the LLVM declarations have drifted: a radix conversion declared       *)
(* without its third parameter, and a cancel that returns nothing in C.        *)
LlvmDrift == {"datara_rt_int_to_str_radix", "datara_rt_schedule_cancel"}

(* Once the runtime is declared, every symbol that the Cranelift backend       *)
(* imports is one the JIT can resolve, to a function of the same shape, and    *)
(* the LLVM backend's declaration of it, where there is one, has the same      *)
(* shape too; join and the two drifted declarations are the exceptions.        *)
BackendsAgree ==
  Declared /\ ~abiErr =>
    /\ \A s \in DOMAIN abiImports \ {"join"} : ResolvesInJit(s)
    /\ \A s \in DOMAIN abiImports \ LlvmDrift : LlvmAgrees(s)

(* What the JIT's table is for: the symbol the backend imports as "join" is    *)
(* the thread join, a function of one argument (declare_concurrency.rs).       *)
JoinIsThreadJoin == Declared /\ ~abiErr => ResolvesInJit("join")

(* The result type that the lowering gives to a call agrees with the register  *)
(* in which the declared function returns it: the parity class of bugs that    *)
(* builtin_returns.rs names.                                                   *)
ReturnParity ==
  Declared /\ ~abiErr =>
    \A r \in BuiltinReturns : \A n \in r[2] \cap DOMAIN abiFuncIds :
      RegFile(ClifType(r[1])) = RegFile(abiFuncIds[n].ret)

AbiTypeOK ==
  /\ abiPc \in {"link", "declare", "user", "call"}
  /\ DOMAIN abiImports \subseteq DOMAIN abiFuncIds
  /\ abiErr \in BOOLEAN

=============================================================================
