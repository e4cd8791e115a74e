------------------------------ MODULE Selectors ------------------------------
(***************************************************************************)
(* Event selectors have two readers.  core/src/validate.rs resolves a pair *)
(* of selectors against the target before anything is attached; the        *)
(* correlator (correlator/src/lib.rs) parses the same texts again to pick  *)
(* the endpoints out of the captured events.  This module has both, and    *)
(* the events that the collectors make for a validated endpoint.           *)
(*                                                                         *)
(* A text is a record: scheme, the fields between the colons after it, and *)
(* the regular expression after "name~".  The target field of a uprobe is  *)
(* a token that TargetOf classifies as a symbol, an offset, or malformed.  *)
(***************************************************************************)
EXTENDS NameFilters, Resolve

CONSTANTS
    Process,        \* the target, as in Resolve, with its capabilities
    TargetOf,       \* target fields to [form, name, offset]
    Syscalls        \* the names with a number in syscall_number

NoFilter == [match |-> "none"]
Invalid == Fails("InvalidEventSelector")
Ok(kind, event, arg) == [ok |-> TRUE, kind |-> kind, event |-> event, arg |-> arg]

MemcpyKinds == {"HtoD", "DtoH", "DtoD", "HtoH", "PtoP"}

\* Letters, digits and underscores, at least one; "a-b" stands for the others.
valid_component(field) == field \notin {"", "a-b"}

\* regex::Regex::new accepts everything here but a star that repeats nothing
\* and a backslash that quotes nothing.
regex_new(pattern) ==
    LET quotes[i \in 0..Len(pattern)] ==
          i > 0 /\ pattern[i] = "\\" /\ ~quotes[i - 1]
    IN  ~quotes[Len(pattern)] /\ (pattern = <<>> \/ pattern[1] # "*")

-----------------------------------------------------------------------------
(* validate.rs.  An endpoint has a kind, an event type and an argument.    *)

\* resolve.rs parse_selector: [binary, target, event] or an error.
parse_selector(text) ==
    LET n == Len(text.parts)
        boundary == text.parts[n]
        target == TargetOf[text.parts[n - 1]]
    IN  IF \/ n < 3
           \/ boundary \notin {"entry", "return"}
           \/ text.parts[1] = "" \/ text.parts[n - 1] = ""
           \/ target.form = "malformed"
        THEN Invalid
        ELSE [ok |-> TRUE, binary |-> text.parts[1], target |-> target,
              event |-> IF boundary = "entry" THEN "HostFunctionEntry" ELSE "HostFunctionExit"]

parse_linux_selector(text) ==
    LET p == text.parts
    IN  CASE /\ text.scheme = "syscall" /\ Len(p) = 2
             /\ valid_component(p[1]) /\ p[1] \in Syscalls /\ p[2] \in {"entry", "exit"} ->
               IF p[2] = "entry" THEN Ok("SyscallEntry", "SyscallEntry", p[1])
                                 ELSE Ok("SyscallExit", "SyscallExit", p[1])
          [] text.scheme = "tracepoint" /\ Len(p) = 2 /\ valid_component(p[1]) /\ valid_component(p[2]) ->
               Ok("Tracepoint", "Tracepoint", p)
          [] OTHER -> Invalid

parse_python_selector(text) ==
    CASE text.parts = <<"gc_start">> -> Ok("PythonGcStart", "PythonGcStart", "gc__start")
      [] text.parts = <<"gc_end">>   -> Ok("PythonGcEnd", "PythonGcEnd", "gc__done")
      [] OTHER -> Invalid

\* kernel_start, kernel_end: an optional non-empty expression.
parse_kernel_selector(text, event) ==
    CASE Len(text.parts) = 1 -> Ok("Kernel", event, NoFilter)
      [] Len(text.parts) > 1 /\ text.parts[2] = "name~" /\ text.pattern # <<>> /\ regex_new(text.pattern) ->
           Ok("Kernel", event, [match |-> "regex", pattern |-> text.pattern])
      [] OTHER -> Invalid

\* kind=<k> is the field <k> here.
parse_memcpy_selector(text, event) ==
    CASE Len(text.parts) = 1 -> Ok("Memcpy", event, NoFilter)
      [] Len(text.parts) = 2 /\ text.parts[2] \in MemcpyKinds ->
           Ok("Memcpy", event, [match |-> text.parts[2]])
      [] OTHER -> Invalid

parse_memset_selector(text, event) ==
    IF Len(text.parts) = 1 THEN Ok("Memset", event, NoFilter) ELSE Invalid

parse_nvtx_selector(text, event) ==
    IF /\ Len(text.parts) > 1 /\ text.parts[2] = "name~"
       /\ regex_new(text.pattern) /\ is_bounded_name_regex(text.pattern)
    THEN Ok("NvtxRange", event, [match |-> "regex", pattern |-> text.pattern])
    ELSE Invalid

parse_api_selector(text) ==
    LET p == text.parts
    IN  IF Len(p) = 3 /\ p[2] # "" /\ p[3] \in {"entry", "exit"}
        THEN Ok("CudaApi", IF p[3] = "entry" THEN "CudaApiEntry" ELSE "CudaApiExit",
                <<p[1], p[2]>>)
        ELSE Invalid

parse_cuda_selector(text) ==
    IF text.scheme # "cuda" \/ text.parts = <<>> THEN Invalid
    ELSE LET event == text.parts[1]
         IN  CASE event = "kernel_start" -> parse_kernel_selector(text, "GpuKernelStart")
               [] event = "kernel_end"   -> parse_kernel_selector(text, "GpuKernelEnd")
               [] event = "memcpy_start" -> parse_memcpy_selector(text, "GpuMemcpyStart")
               [] event = "memcpy_end"   -> parse_memcpy_selector(text, "GpuMemcpyEnd")
               [] event = "memset_start" -> parse_memset_selector(text, "GpuMemsetStart")
               [] event = "memset_end"   -> parse_memset_selector(text, "GpuMemsetEnd")
               [] event = "nvtx_range_start" -> parse_nvtx_selector(text, "NvtxRangeStart")
               [] event = "nvtx_range_end"   -> parse_nvtx_selector(text, "NvtxRangeEnd")
               [] event \in {"runtime_api", "driver_api"} -> parse_api_selector(text)
               [] OTHER -> Invalid

ResolvedHost(event, r) ==
    IF ~r.ok THEN r
    ELSE Ok(IF event = "HostFunctionEntry" THEN "HostEntry" ELSE "HostReturn", event,
            [binary |-> r.binary, symbol |-> r.symbol, demangled |-> r.demangled, offset |-> r.offset])

HostEndpoint(s) ==
    IF ~s.ok THEN s ELSE ResolvedHost(s.event, resolve_run(Process, s.binary, s.target))

resolve_endpoint(text) ==
    CASE text.scheme = "uprobe" -> HostEndpoint(parse_selector(text))
      [] text.scheme \in {"syscall", "tracepoint"} -> parse_linux_selector(text)
      [] text.scheme = "python" -> parse_python_selector(text)
      [] OTHER -> parse_cuda_selector(text)

\* Every endpoint but a Python one in a target without USDT probes.
Collectable(e) == e.kind \in {"PythonGcStart", "PythonGcEnd"} => Process.usdt

IsHost(e) == e.kind \in {"HostEntry", "HostReturn", "SyscallEntry", "SyscallExit",
                         "Tracepoint", "PythonGcStart", "PythonGcEnd"}
NeedsCallback(e) == e.kind \in {"CudaApi", "NvtxRange"}
NeedsActivity(e) == e.kind \in {"Kernel", "Memcpy", "Memset"}

supports_exact(start, end) ==
    LET k == <<start.kind, end.kind>>
        launch(api) == api \in {<<"runtime_api", "cudaLaunchKernel">>, <<"driver_api", "cuLaunchKernel">>}
    IN  CASE k = <<"CudaApi", "CudaApi">> -> start.arg = end.arg
          [] k \in {<<"Kernel", "Kernel">>, <<"Memcpy", "Memcpy">>,
                    <<"Memset", "Memset">>, <<"PythonGcStart", "PythonGcEnd">>} -> TRUE
          [] k \in {<<"NvtxRange", "NvtxRange">>, <<"SyscallEntry", "SyscallExit">>} -> start.arg = end.arg
          [] k = <<"CudaApi", "Kernel">> -> launch(start.arg)
          [] k = <<"Kernel", "CudaApi">> -> launch(end.arg)
          [] OTHER -> FALSE

supports_stack_nested(start, end) ==
    /\ start.kind = "HostEntry" /\ end.kind = "HostReturn"
    /\ start.arg.binary = end.arg.binary /\ start.arg.offset = end.arg.offset

supports_stream_order(start, end) == NeedsActivity(start) /\ NeedsActivity(end)

Policies == {"exact", "first-after", "nearest", "stack-nested", "stream-order"}

\* check_policy adds an issue; the two temporal policies only warn.
check_policy(start, end, policy) ==
    CASE policy = "exact"        -> supports_exact(start, end)
      [] policy = "stack-nested" -> supports_stack_nested(start, end)
      [] policy = "stream-order" -> supports_stream_order(start, end)
      [] OTHER -> TRUE

recommend_policy(start, end) ==
    CASE supports_stack_nested(start, end) -> "stack-nested"
      [] ~supports_stack_nested(start, end) /\ supports_exact(start, end) -> "exact"
      [] ~supports_stack_nested(start, end) /\ ~supports_exact(start, end)
           /\ supports_stream_order(start, end) -> "stream-order"
      [] OTHER -> "first-after"

\* agent_activation: how CUPTI collection will be reached.
agent_activation(start, end) ==
    LET cupti == \E e \in {start, end} : NeedsCallback(e) \/ NeedsActivity(e)
    IN  CASE ~cupti -> "NotRequired"
          [] cupti /\ Process.agent_loaded -> "AlreadyLoaded"
          [] cupti /\ ~Process.agent_loaded
               /\ \E e \in {start, end} : e.kind = "NvtxRange" -> "StartupRequired"
          [] OTHER -> "InjectionRequired"

\* check_capabilities and check_cupti_compatibility.
check_capabilities(start, end) ==
    LET Some(kinds) == \E e \in {start, end} : e.kind \in kinds
        activation  == agent_activation(start, end)
        cap         == Process.capabilities
    IN  /\ Some({"HostEntry", "PythonGcStart", "PythonGcEnd"}) => "uprobe" \in cap
        /\ Some({"HostReturn"}) => "uretprobe" \in cap
        /\ Some({"SyscallEntry", "SyscallExit", "Tracepoint"}) => "tracepoint" \in cap
        /\ activation # "StartupRequired"
        /\ activation \in {"NotRequired", "AlreadyLoaded"} =>
             /\ (\E e \in {start, end} : NeedsCallback(e)) => "cuda_callback" \in cap
             /\ (\E e \in {start, end} : NeedsActivity(e)) => "cuda_activity" \in cap
        /\ activation # "NotRequired" => Process.cuda_supported

\* run: an error, or whether the list of issues is empty.
Validation(start, end, policy) ==
    IF ~start.ok THEN start
    ELSE IF ~end.ok THEN end
    ELSE [ok |-> TRUE, start |-> start, end |-> end,
          valid |-> /\ Collectable(start) /\ Collectable(end)
                    /\ check_capabilities(start, end)
                    /\ check_policy(start, end, policy),
          recommended |-> recommend_policy(start, end)]

validate_run(from, to, policy) == Validation(resolve_endpoint(from), resolve_endpoint(to), policy)
=============================================================================
