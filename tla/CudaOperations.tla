--------------------------- MODULE CudaOperations ---------------------------
(***************************************************************************)
(* The CUDA wrappers (cuda/core.hpp): each owns one resource of the driver *)
(* and cannot be copied.  A context_guard owns one activation of a context.*)
(* Every driver call may fail, and check_cuda_error then throws.           *)
(* device, context_view and function own nothing and are left out.         *)
(***************************************************************************)
EXTENDS IslOperations, IslClasses

context_ops ==
    { Static({"cuCtxCreate"}, <<>>, "context"),
      Query({"cuCtxPushCurrent", "cuCtxPopCurrent"}, "context") }
context_guard_ops == {Static({"cuCtxPushCurrent"}, <<N("context")>>, "context_guard")}
stream_ops ==
    { Static({"cuStreamCreate"}, <<>>, "stream"),
      Query({"cuStreamAddCallback", "cuMemcpyAsync"}, "stream") }
event_ops ==
    { Static({"cuEventRecord"}, <<N("stream")>>, "event"), Query({"cuEventQuery"}, "event"),
      Compare({"cuEventElapsedTime"}, "event") }
module_ops ==
    {Static({"cuModuleLoadDataEx"}, <<>>, "module"), Query({"cuModuleGetFunction"}, "module")}
device_memory_ops ==
    {Static({"cuMemAlloc"}, <<>>, "unique_device_ptr"), Query({"cuMemcpy"}, "unique_device_ptr")}

CudaSignatures ==
    UNION {context_ops, context_guard_ops, stream_ops, event_ops, module_ops, device_memory_ops}

\* The constructors that acquire the resource and then make a second driver
\* call: cuCtxPopCurrent and cuEventRecord.  If that one throws the destructor
\* of the wrapper does not run.
TwoStepConstructors == {"context", "event"}

context == MoveOnly("context", "release", "free_null")
\* operator=(context_guard&&) overwrites ctx_ without deactivating it.
context_guard == MoveOnly("context_guard", "release", "overwrite")
stream == MoveOnly("stream", "release", "free_null")
event == MoveOnly("event", "release", "free_null")
module == MoveOnly("module", "release", "free_null")
unique_device_ptr == MoveOnly("unique_device_ptr", "release", "free_null")

CudaMembers == {context, context_guard, stream, event, module, unique_device_ptr}
=============================================================================
