--------------------------- MODULE MeasureSelectors ---------------------------
(***************************************************************************)
(* The correlator's own reading of the selectors: Selector::parse, the     *)
(* policies a pair supports, and which captured events a selector matches. *)
(* An event is a record with its type and a payload `what`; the payload is *)
(* the one that the collectors give to an event of a validated endpoint.   *)
(***************************************************************************)
EXTENDS Selectors

\* parse_host
parse_host(text) ==
    LET n == Len(text.parts)
        target == TargetOf[text.parts[n - 1]]
    IN  IF n < 3 \/ text.parts[n] \notin {"entry", "return"} THEN Invalid
        ELSE IF text.parts[1] = "" \/ text.parts[n - 1] = "" \/ target.form = "malformed" THEN Invalid
        ELSE Ok("Host", IF text.parts[n] = "entry" THEN "HostFunctionEntry" ELSE "HostFunctionExit",
                [binary |-> text.parts[1], target |-> target])

parse_syscall(text) ==
    LET p == text.parts
    IN  IF Len(p) # 2 \/ ~valid_component(p[1]) \/ p[2] \notin {"entry", "exit"} THEN Invalid
        ELSE Ok("Syscall", IF p[2] = "entry" THEN "SyscallEntry" ELSE "SyscallExit", p[1])

parse_tracepoint(text) ==
    LET p == text.parts
    IN  IF Len(p) # 2 \/ ~valid_component(p[1]) \/ ~valid_component(p[2]) THEN Invalid
        ELSE Ok("Tracepoint", "Tracepoint", p)

parse_python(text) ==
    CASE text.parts = <<"gc_start">> -> Ok("PythonGc", "PythonGcStart", "gc__start")
      [] text.parts = <<"gc_end">>   -> Ok("PythonGc", "PythonGcEnd", "gc__done")
      [] OTHER -> Invalid

parse_api(text) ==
    LET p == text.parts
    IN  IF Len(p) # 3 \/ p[2] = "" \/ p[3] \notin {"entry", "exit"} THEN Invalid
        ELSE Ok("Api", IF p[3] = "entry" THEN "CudaApiEntry" ELSE "CudaApiExit", <<p[1], p[2]>>)

parse_kernel(text, event) ==
    IF Len(text.parts) = 1 THEN Ok("Kernel", event, NoFilter)
    ELSE IF text.parts[2] # "name~" \/ text.pattern = <<>> \/ ~regex_new(text.pattern) THEN Invalid
    ELSE Ok("Kernel", event, [match |-> "regex", pattern |-> text.pattern])

parse_memcpy(text, event) ==
    IF Len(text.parts) = 1 THEN Ok("Memcpy", event, NoFilter)
    ELSE IF text.parts[2] \notin MemcpyKinds THEN Invalid
    ELSE Ok("Memcpy", event, [match |-> text.parts[2]])

parse_memset(text, event) ==
    IF Len(text.parts) # 1 THEN Invalid ELSE Ok("Memset", event, NoFilter)

\* The correlator's copy of the candidate forms.
bounded_name(pattern) ==
    \E i \in DOMAIN Candidates : Bounded(Literal(pattern, Candidates[i]))

parse_nvtx(text, event) ==
    IF \/ Len(text.parts) = 1
       \/ text.parts[2] # "name~"
       \/ ~bounded_name(text.pattern)
       \/ ~regex_new(text.pattern)
    THEN Invalid
    ELSE Ok("Nvtx", event, [match |-> "regex", pattern |-> text.pattern])

parse(text) ==
    CASE text.scheme = "uprobe"     -> parse_host(text)
      [] text.scheme = "syscall"    -> parse_syscall(text)
      [] text.scheme = "tracepoint" -> parse_tracepoint(text)
      [] text.scheme = "python"     -> parse_python(text)
      [] text.scheme = "cuda" /\ text.parts # <<>> ->
           LET event == text.parts[1]
           IN  CASE event \in {"runtime_api", "driver_api"} -> parse_api(text)
                 [] event = "kernel_start" -> parse_kernel(text, "GpuKernelStart")
                 [] event = "kernel_end"   -> parse_kernel(text, "GpuKernelEnd")
                 [] event = "memcpy_start" -> parse_memcpy(text, "GpuMemcpyStart")
                 [] event = "memcpy_end"   -> parse_memcpy(text, "GpuMemcpyEnd")
                 [] event = "memset_start" -> parse_memset(text, "GpuMemsetStart")
                 [] event = "memset_end"   -> parse_memset(text, "GpuMemsetEnd")
                 [] event = "nvtx_range_start" -> parse_nvtx(text, "NvtxRangeStart")
                 [] event = "nvtx_range_end"   -> parse_nvtx(text, "NvtxRangeEnd")
                 [] OTHER -> Invalid
      [] OTHER -> Invalid

matches(selector, event) ==
    /\ event.type = selector.event
    /\ CASE selector.kind = "Host" ->
              /\ event.what.binary = selector.arg.binary
              /\ IF selector.arg.target.form = "symbol"
                 THEN selector.arg.target.name \in {event.what.symbol, event.what.demangled}
                 ELSE event.what.offset = <<selector.arg.target.offset>>
         [] selector.kind \in {"Syscall", "Tracepoint", "PythonGc", "Api"} -> event.what = selector.arg
         [] selector.kind \in {"Kernel", "Nvtx"} ->
              selector.arg.match = "none" \/ regex_match(selector.arg.pattern, event.what)
         [] selector.kind = "Memcpy" -> selector.arg.match \in {"none", event.what}
         [] selector.kind = "Memset" -> TRUE

-----------------------------------------------------------------------------
IsLifecycle(start, end, kind, first, last) ==
    /\ start.kind = kind /\ end.kind = kind
    /\ start.event = first /\ end.event = last

is_syscall_lifecycle(start, end) ==
    IsLifecycle(start, end, "Syscall", "SyscallEntry", "SyscallExit") /\ start.arg = end.arg
is_nvtx_lifecycle(start, end) ==
    IsLifecycle(start, end, "Nvtx", "NvtxRangeStart", "NvtxRangeEnd") /\ start.arg = end.arg
is_python_gc_lifecycle(start, end) ==
    IsLifecycle(start, end, "PythonGc", "PythonGcStart", "PythonGcEnd")

\* Any two of the remaining kinds (Syscall, Api, Kernel, Memcpy, Memset) pass.
selector_supports_exact(start, end) ==
    CASE IsLifecycle(start, end, "Syscall", "SyscallEntry", "SyscallExit") -> start.arg = end.arg
      [] IsLifecycle(start, end, "Nvtx", "NvtxRangeStart", "NvtxRangeEnd") -> start.arg = end.arg
      [] is_python_gc_lifecycle(start, end) -> TRUE
      [] OTHER -> {start.kind, end.kind} \cap {"Host", "Tracepoint", "Nvtx", "PythonGc"} = {}

selector_supports_stack_nested(start, end) ==
    /\ IsLifecycle(start, end, "Host", "HostFunctionEntry", "HostFunctionExit")
    /\ start.arg = end.arg

is_gpu_activity(s) == s.kind \in {"Kernel", "Memcpy", "Memset"}

validate_policy(start, end, policy) ==
    CASE policy = "exact"        -> selector_supports_exact(start, end)
      [] policy = "stack-nested" -> selector_supports_stack_nested(start, end)
      [] policy = "stream-order" -> is_gpu_activity(start) /\ is_gpu_activity(end)
      [] OTHER -> TRUE

-----------------------------------------------------------------------------
(* What the collectors deliver.                                            *)

(* Mutant: the offset is left out for every probe. *)
normalize_uprobeBare(e) ==
    [type |-> e.event,
     what |-> [binary |-> e.arg.binary, symbol |-> e.arg.symbol, demangled |-> e.arg.demangled,
               offset |-> <<>>]]

\* uprobe.rs: an event has its offset only when the probe has no symbol.
normalize_uprobe(e) ==
    [type |-> e.event,
     what |-> [binary |-> e.arg.binary, symbol |-> e.arg.symbol, demangled |-> e.arg.demangled,
               offset |-> IF e.arg.symbol = Absent THEN <<e.arg.offset>> ELSE <<>>]]

\* linux.rs: name and category of the probe that fired.
normalize_linux(e) == [type |-> e.event, what |-> e.arg]

(* An event that a collector makes for endpoint e; CUPTI events are those  *)
(* with some name or kind that passes the Agent's filter.                  *)
Collected(e, names) ==
    CASE e.kind \in {"HostEntry", "HostReturn"} -> {normalize_uprobe(e)}
      [] e.kind \in {"SyscallEntry", "SyscallExit", "Tracepoint", "PythonGcStart", "PythonGcEnd", "CudaApi"} ->
           {normalize_linux(e)}
      [] e.kind \in {"Kernel", "NvtxRange"} ->
           {[type |-> e.event, what |-> n] : n \in
              {n \in names : e.arg.match = "regex" =>
                                name_matches(bounded_kernel_name_filter(e.arg.pattern), n)}}
      [] e.kind = "Memcpy" ->
           {[type |-> e.event, what |-> k] : k \in IF e.arg.match = "none" THEN MemcpyKinds ELSE {e.arg.match}}
      [] OTHER -> {[type |-> e.event, what |-> "memset"]}

\* A host endpoint whose path was not given in its canonical form.
Indirect(text) == text.scheme = "uprobe" /\ Process.canonical[text.parts[1]] # text.parts[1]

(* What validate accepts can be measured: the correlator parses both       *)
(* selectors, accepts the policy, and recognises the events collected for  *)
(* them (for a regular expression, those whose name it matches).  Three    *)
(* differences between the two readers are left: NVTX endpoints that are   *)
(* not a start and an end, stack-nested endpoints that name one function   *)
(* in two ways, which the correlator refuses, and a path that is not       *)
(* canonical, whose events never match (validate.rs:158, resolve.rs:182).  *)
ValidatedIsMeasurable(from, to, policy, names) ==
    LET v == validate_run(from, to, policy)
        a == parse(from)
        b == parse(to)
        Recognised(e, text) ==
          \A event \in Collected(e, names) :
             \/ matches(parse(text), event)
             \/ e.kind \in {"Kernel", "NvtxRange"} /\ e.arg.match = "regex"
                  /\ ~regex_match(e.arg.pattern, event.what)
    IN  (v.ok /\ v.valid) =>
          /\ a.ok /\ b.ok
          /\ \/ validate_policy(a, b, policy)
             \/ policy = "exact" /\ v.start.kind = "NvtxRange" /\ ~is_nvtx_lifecycle(a, b)
             \/ policy = "stack-nested" /\ a.arg # b.arg
          /\ IF Indirect(from) THEN \A event \in Collected(v.start, names) : ~matches(a, event)
                               ELSE Recognised(v.start, from)
          /\ IF Indirect(to) THEN \A event \in Collected(v.end, names) : ~matches(b, event)
                             ELSE Recognised(v.end, to)
=============================================================================
