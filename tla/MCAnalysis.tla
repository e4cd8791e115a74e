----------------------------- MODULE MCAnalysis -----------------------------
(* Small inputs for Analysis. *)
EXTENDS Analysis

MCAlphabet == {"a", "\\", ".", "*", "^", "$", "<"}
T(form, name, offset) == [form |-> form, name |-> name, offset |-> offset]
MCTargetOf == ("f" :> T("symbol", "f", 0)) @@ ("_Z1gv" :> T("symbol", "_Z1gv", 0))
  @@ ("g()" :> T("symbol", "g()", 0)) @@ ("+0x5" :> T("offset", Absent, 5)) @@ ("+0x6" :> T("offset", Absent, 6))
  @@ ("+5" :> T("malformed", Absent, 0)) @@ ("" :> T("malformed", Absent, 0)) @@ ("h" :> T("symbol", "h", 0))
Sym(m, d, a) == [mangled |-> m, demangled |-> d, address |-> a, text |-> TRUE]
MCProcess == [canonical |-> ("/lib/a" :> "/usr/lib/a") @@ ("/usr/lib/a" :> "/usr/lib/a"),
  maps |-> LoaderMaps("/usr/lib/a", <<[vaddr |-> 4, offset |-> 4, size |-> 4, exec |-> TRUE]>>, 100),
  elf |-> ("/usr/lib/a" :> [segments |-> <<[vaddr |-> 4, offset |-> 4, size |-> 4, exec |-> TRUE]>>,
     dynamic |-> {Sym("f", Absent, 5), Sym("_Z1gv", "g()", 6)},
     full |-> {Sym("f", Absent, 5), Sym("_Z1gv", "g()", 6), Sym("h", Absent, 4), Sym("h", Absent, 7)}]),
  capabilities |-> {"uprobe", "uretprobe", "tracepoint", "cuda_callback", "cuda_activity"},
  usdt |-> TRUE, agent_loaded |-> TRUE, cuda_supported |-> TRUE]
MCSyscalls == {"read"}
Text(s, p, r) == [scheme |-> s, parts |-> p, pattern |-> r]
MCPatterns == {<<>>, <<"^","a">>, <<"a">>, <<"a", ".", "b">>, <<"*">>, <<"a","\\">>}
MCNames == UNION {[1..n -> {"a", ".", "<"}] : n \in 0..4}
MCKernelNames == UNION {[1..n -> {"a","b"}] : n \in 1..2}
MCTexts == {Text("uprobe", <<b, t, w>>, <<>>) : b \in {"/lib/a", "/usr/lib/a"}, t \in DOMAIN MCTargetOf, w \in {"entry","return","x"}}
  \cup {Text("syscall", <<n, w>>, <<>>) : n \in {"read", "open9", "a-b"}, w \in {"entry","exit","x"}}
  \cup {Text("tracepoint", <<"sched", n>>, <<>>) : n \in {"switch", "a-b"}}
  \cup {Text("python", <<n>>, <<>>) : n \in {"gc_start", "gc_end", "x"}}
  \cup {Text("cuda", <<d, n, w>>, <<>>) : d \in {"runtime_api", "driver_api"}, n \in {"cudaLaunchKernel", "cuLaunchKernel", ""}, w \in {"entry","exit"}}
  \cup {Text("cuda", <<e>>, <<>>) : e \in {"kernel_start","kernel_end","memcpy_start","memcpy_end","memset_start","memset_end","nvtx_range_start","x"}}
  \cup {Text("cuda", <<e, "name~">>, r) : e \in {"kernel_start","kernel_end","nvtx_range_start","nvtx_range_end"}, r \in MCPatterns}
  \cup {Text("cuda", <<e, k>>, <<>>) : e \in {"memcpy_start","memcpy_end","memset_end"}, k \in {"HtoD", "x"}}
  \cup {Text("other", <<>>, <<>>)}

MCSegments == {1, 3, 4, 6} \X BOOLEAN
MCPlacements == {0, 1, 2, 4, 5, 6, 8, 9} \X {0, 1, 3}
MCThreads == {1, 2}

E(boundary, ts, pid) ==
  [boundary |-> boundary, ts |-> ts, seq |-> 0, thread |-> 1, key |-> 1, stream |-> 1, call |-> 0,
   type |-> IF boundary = 0 THEN "GpuKernelStart" ELSE "GpuKernelEnd", what |-> <<"a">>, pid |-> pid,
   clock |-> "HostMonotonic", error |-> <<>>]
EventLists == {<<>>, <<E(0, 0, 1)>>, <<E(1, 1, 1)>>, <<E(0, 1, 1), E(1, 2, 1)>>, <<E(1, 3, 1), E(0, 0, 1)>>, <<E(0, 2, 2)>>}
MCInputs ==
  {[form |-> "empty"]}
  \cup {[form |-> "json", documents |-> <<[envelope |-> TRUE, dropped |-> d, record_limit_reached |-> l, events |-> x]>>] :
           d \in {0, 3}, l \in BOOLEAN, x \in EventLists}
  \cup {[form |-> "json", documents |-> [i \in DOMAIN x |-> [envelope |-> FALSE, event |-> x[i]]]] : x \in EventLists \ {<<>>}}
  \cup {[form |-> "json", documents |-> <<[envelope |-> a, dropped |-> 0, record_limit_reached |-> FALSE, events |-> <<>>, event |-> E(0, 0, 1)],
                                          [envelope |-> b, dropped |-> 0, record_limit_reached |-> FALSE, events |-> <<>>, event |-> E(1, 1, 1)]>>] :
           a \in BOOLEAN, b \in BOOLEAN}
  \cup {[form |-> "binary", capture |-> [state |-> s, dropped |-> d, unknown |-> u, capacity |-> 2, observed |-> Len(x) + d, events |-> x]] :
           s \in {"Idle", "Active", "Stopped", "LimitReached", "Failed"}, d \in {0, 3}, u \in {0, 1},
           x \in {<<E(0, 0, 1)>>, <<E(1, 3, 1), E(0, 1, 1)>>, <<E(1, 2, 2)>>}}

MCChains == {<<1>>, <<2>>, <<1, 2>>, <<2, 1, 2>>, <<>>, <<3, 3>>}
\* A program at 1, code of the interpreter at 2 and a library at 3 that may be gone.
Loaded(unreadable, file) ==
  [canonical |-> <<>>, unreadable |-> unreadable,
   maps |-> <<[start |-> 1, end |-> 3, offset |-> 0, path |-> "/bin/p", exec |-> TRUE],
              [start |-> 3, end |-> 4, offset |-> 0, path |-> "/lib/q", exec |-> TRUE]>>,
   elf |-> [p \in {"/bin/p", "/lib/q"} |->
              [segments |-> <<[vaddr |-> 0, offset |-> 0, size |-> 2, exec |-> TRUE]>>, dynamic |-> {},
               full |-> {[mangled |-> "f", demangled |-> Absent, text |-> TRUE, address |-> 0, size |-> 1]}]],
   perf_map |-> [file |-> file, lines |-> <<[start |-> 2, size |-> 1, name |-> "py"]>>]]
MCProcesses == {Loaded({}, f) : f \in PerfMapFiles} \cup {Loaded({"/lib/q"}, "text"), Loaded({Maps}, "text")}
MCPerfMapLines == {[start |-> s, size |-> z, name |-> n] : s \in 0..3, z \in 0..3, n \in {"x", "y"}}
=============================================================================
