--------------------------- MODULE MCHostCommands ---------------------------
(* One binary with one function, and a target that a uprobe and the        *)
(* tracepoints of read(2) can be attached to.                              *)
EXTENDS HostCommands

MCTargetOf == ("f" :> [form |-> "symbol", name |-> "f", offset |-> 0])

Text4 == <<[vaddr |-> 4, offset |-> 4, size |-> 4, exec |-> TRUE]>>

MCProcess ==
    [canonical |-> ("/a" :> "/a"),
     maps |-> LoaderMaps("/a", Text4, 100),
     elf |-> ("/a" :> [segments |-> Text4, full |-> {},
                       dynamic |-> {[mangled |-> "f", demangled |-> Absent, address |-> 5, text |-> TRUE]}]),
     capabilities |-> {"uprobe", "uretprobe", "tracepoint"},
     usdt |-> TRUE, agent_loaded |-> FALSE, cuda_supported |-> FALSE]

MCSyscalls == {"read"}

Selector(scheme, parts) == [scheme |-> scheme, parts |-> parts, pattern |-> <<>>]

Uprobe == <<Selector("uprobe", <<"/a", "f", "entry">>), Selector("uprobe", <<"/a", "f", "return">>), "stack-nested">>
Syscall == <<Selector("syscall", <<"read", "entry">>), Selector("syscall", <<"read", "exit">>), "exact">>
Python == <<Selector("python", <<"gc_start">>), Selector("python", <<"gc_end">>), "exact">>
Again == <<Selector("uprobe", <<"/a", "f", "entry">>), Selector("uprobe", <<"/a", "f", "entry">>), "first-after">>
Request(p, samples, duration, max_events) ==
    [from |-> p[1], to |-> p[2], policy |-> p[3], samples |-> samples, duration |-> duration, max_events |-> max_events]

\* Two samples or a duration of a call, a duration of its entries and of a system
\* call, and a sample of Python's garbage collector.  Over a duration the target
\* may make more calls than a collector takes.
MCRequests ==
    {Request(Uprobe, 2, Unlimited, 4), Request(Uprobe, Unlimited, 90, 2), Request(Again, Unlimited, 90, 2),
     Request(Syscall, Unlimited, 90, 4), Request(Python, 1, Unlimited, 4)}

\* A system call, and another at the same time or later, on the same CPU or not.
MCSyscalled ==
    << {[number |-> 1, duration |-> 2, threads |-> {1}]},
       {[number |-> n, duration |-> 1, threads |-> {1, 2}] : n \in {1, 2}} >>
=============================================================================
