----------------------------- MODULE CpuAnalysis -----------------------------
(***************************************************************************)
(* core/src/cpu_sampling_analysis.rs: from the sampled call chains of a    *)
(* finished capture to stack groups, hotspots, the selectors they suggest  *)
(* for a following measurement, and the completeness of the inventory.     *)
(* A call chain is a sequence of addresses, the sampled one first.  The    *)
(* process is the one of Resolve, with                                     *)
(*   unreadable  the mapped files that cannot be read or are not object    *)
(*               files, and Maps if its own mappings cannot be read        *)
(*   perf_map    its perf map: the state of the file and its lines,        *)
(*               records with start, size and name                         *)
(***************************************************************************)
EXTENDS Resolve, FiniteSetsExt

Maps == "/proc/PID/maps"

\* What fs::metadata, fs::read and from_utf8 may make of the perf map's file.
PerfMapFiles == {"missing", "unreadable", "too large", "not utf-8", "text"}

\* The elements of a set in the strict order Less.
Ranked(set, Less(_, _)) ==
    [k \in 1..Cardinality(set) |->
        CHOOSE x \in set : Cardinality({y \in set : Less(y, x)}) = k - 1]

Mapped(seq, Op(_)) == [i \in DOMAIN seq |-> Op(seq[i])]

\* The order of Vec<u64>: the first difference decides, a prefix comes first.
StackLess(a, b) ==
    \/ \E i \in DOMAIN a \cap DOMAIN b : a[i] < b[i] /\ \A j \in 1..(i - 1) : a[j] = b[j]
    \/ Len(a) < Len(b) /\ \A i \in DOMAIN a : a[i] = b[i]

-----------------------------------------------------------------------------
(* Symbols.                                                                *)

parse_executable_maps(lines) == SelectSeq(lines, LAMBDA r : r.path # Absent /\ r.exec)

\* One symbol per file offset, its size the largest of its aliases.
load_module(elf) ==
    LET OffsetOf(s) == virtual_address_to_file_offset(elf, s.address)
        placed == {s \in elf.dynamic \cup elf.full : s.text /\ OffsetOf(s).ok}
        At(o) == {s \in placed : OffsetOf(s).offset = o}
        Named(o) == IF At(o) \cap elf.dynamic # {} THEN At(o) \cap elf.dynamic ELSE At(o)
        offsets == Ranked({OffsetOf(s).offset : s \in placed}, LAMBDA a, b : a < b)
    IN  [i \in DOMAIN offsets |->
          [offset |-> offsets[i], size |-> Max({s.size : s \in At(offsets[i])}),
           name |-> (CHOOSE s \in Named(offsets[i]) : TRUE).mangled]]

\* The last symbol at or before the offset, 0 if it does not reach that far.
find_module_symbol(symbols, offset) ==
    LET i == Cardinality({k \in DOMAIN symbols : symbols[k].offset <= offset})
    IN  IF /\ i > 0
           /\ \/ symbols[i].size # 0 /\ offset - symbols[i].offset < symbols[i].size
              \/ symbols[i].size = 0 /\ (i = Len(symbols) \/ offset < symbols[i + 1].offset)
        THEN i ELSE 0

\* The lines by start address, equal starts in file order.
parse_perf_map(lines) ==
    LET Before(i, j) == lines[i].start < lines[j].start \/ (lines[i].start = lines[j].start /\ i < j)
        order == Ranked(DOMAIN lines, Before)
    IN  IF \E i \in DOMAIN lines : lines[i].size = 0 \/ lines[i].name = Absent
        THEN Fails("Internal")
        ELSE [ok |-> TRUE, symbols |-> [i \in DOMAIN order |-> lines[order[i]]]]

(* Mutant: of entries with one start the oldest. *)
find_perf_symbolOldest(symbols, address) ==
    LET last == Cardinality({k \in DOMAIN symbols : symbols[k].start <= address})
        i == IF last = 0 THEN 0 ELSE SelectInSeq(symbols, LAMBDA s : s.start = symbols[last].start)
    IN  IF i > 0 /\ address < symbols[i].start + symbols[i].size THEN i ELSE 0

find_perf_symbol(symbols, address) ==
    LET i == Cardinality({k \in DOMAIN symbols : symbols[k].start <= address})
    IN  IF i > 0 /\ address < symbols[i].start + symbols[i].size THEN i ELSE 0

FromPerfMap(parsed) ==
    IF ~parsed.ok THEN parsed
    ELSE [ok |-> TRUE, symbols |-> parsed.symbols,
          status |-> IF parsed.symbols = <<>> THEN "inactive" ELSE "active"]

\* A missing perf map is no error, one that cannot be read as text is.
ReadPerfMap(perf_map) ==
    CASE perf_map.file = "missing" -> [ok |-> TRUE, symbols |-> <<>>, status |-> "inactive"]
      [] perf_map.file \in {"unreadable", "too large", "not utf-8"} -> Fails("Internal")
      [] perf_map.file = "text" -> FromPerfMap(parse_perf_map(perf_map.lines))

load_python_symbols(process, detected) ==
    IF detected \in {"not_detected", "unsupported"}
    THEN [ok |-> TRUE, symbols |-> <<>>, status |-> detected]
    ELSE ReadPerfMap(process.perf_map)

\* Symbolizer::load.  A file that cannot be loaded has no module, only a warning.
LoadedSymbolizer(process, maps, paths, python) ==
    IF ~python.ok THEN python
    ELSE [ok |-> TRUE, maps |-> maps, python |-> python.symbols, status |-> python.status,
          modules |-> [p \in paths \ process.unreadable |-> load_module(process.elf[p])],
          warnings |-> IF paths \cap process.unreadable = {} THEN {} ELSE {"module_unavailable"}]

load(process, detected) ==
    LET maps == parse_executable_maps(process.maps)
    IN  IF Maps \in process.unreadable THEN Fails("Internal")
        ELSE LoadedSymbolizer(process, maps, {r.path : r \in ToSet(maps)},
                              load_python_symbols(process, detected))

Frame(language, path, offset, symbol, within) ==
    [language |-> language, path |-> path, offset |-> offset, symbol |-> symbol, within |-> within]

NativeFrame(path, offset, symbols) ==
    LET s == find_module_symbol(symbols, offset)
    IN  IF s = 0 THEN Frame("Native", path, offset, Absent, 0)
        ELSE Frame("Native", path, offset, symbols[s].name, offset - symbols[s].offset)

MappedFrame(maps, modules, address) ==
    LET m == SelectInSeq(maps, LAMBDA r : address >= r.start /\ address < r.end)
    IN  IF m = 0 THEN Frame("Unknown", Absent, 0, Absent, 0)
        ELSE NativeFrame(maps[m].path, maps[m].offset + (address - maps[m].start),
                         IF maps[m].path \in DOMAIN modules THEN modules[maps[m].path] ELSE <<>>)

\* A perf map entry first, then the symbols of the mapped file, if it has a module.
symbolize(symbolizer, address) ==
    LET python == symbolizer.python
        p == find_perf_symbol(python, address)
    IN  IF p # 0 THEN Frame("Python", Absent, 0, python[p].name, address - python[p].start)
        ELSE MappedFrame(symbolizer.maps, symbolizer.modules, address)

\* The selector that starts at the frame's function, for a resolved native frame.
selector_hints(frame) ==
    IF frame.language # "Native" \/ frame.symbol = Absent THEN <<>>
    ELSE << [path |-> frame.path,
             target |-> [form |-> "offset", name |-> Absent, offset |-> frame.offset - frame.within]] >>

-----------------------------------------------------------------------------
(* Groups and hotspots.                                                    *)

UpTo(seq, capacity) == SubSeq(seq, 1, Min({Len(seq), capacity}))

\* Distinct chains, the most sampled first, at most `capacity` of them.
aggregate_raw_stacks(samples, capacity) ==
    LET Count(stack) == Cardinality({i \in DOMAIN samples : samples[i] = stack})
        Heavier(a, b) == Count(a) > Count(b) \/ (Count(a) = Count(b) /\ StackLess(a, b))
        Group(stack) == [stack |-> stack, samples |-> Count(stack)]
    IN  [groups |-> Mapped(UpTo(Ranked(ToSet(samples), Heavier), capacity), Group),
         capacity_reached |-> Cardinality(ToSet(samples)) > capacity]

SampleSum(groups, chosen) == FoldSet(LAMBDA i, n : n + groups[i].samples, 0, chosen)

(* Mutant: recursion is counted at every depth. *)
InclusiveEveryFrame(groups, a) ==
    FoldSet(LAMBDA i, n : n + groups[i].samples * Len(SelectSeq(groups[i].stack, LAMBDA b : a = b)),
            0, DOMAIN groups)

\* Samples with the address anywhere in the chain, and with the address first.
Inclusive(groups, a) == SampleSum(groups, {i \in DOMAIN groups : a \in ToSet(groups[i].stack)})
Exclusive(groups, a) ==
    SampleSum(groups, {i \in DOMAIN groups : groups[i].stack # <<>> /\ groups[i].stack[1] = a})

aggregate_hotspots(groups, capacity) ==
    LET In(a) == Inclusive(groups, a)
        Ex(a) == Exclusive(groups, a)
        Hotter(a, b) == \/ In(a) > In(b)
                        \/ In(a) = In(b) /\ Ex(a) > Ex(b)
                        \/ In(a) = In(b) /\ Ex(a) = Ex(b) /\ a < b
        addresses == UNION {ToSet(groups[i].stack) : i \in DOMAIN groups}
    IN  Mapped(UpTo(Ranked(addresses, Hotter), capacity),
               LAMBDA a : [address |-> a, inclusive |-> In(a), exclusive |-> Ex(a)])

\* Of the frames of all groups: resolved native, resolved Python and the others.
TallyFrames(frames) ==
    LET Resolved(languages) == {i \in DOMAIN frames : /\ frames[i].language \in languages
                                                      /\ frames[i].symbol # Absent}
    IN  [total |-> Len(frames),
         native |-> Cardinality(Resolved({"Native"})),
         python |-> Cardinality(Resolved({"Python"})),
         unresolved |-> Len(frames) - Cardinality(Resolved({"Native", "Python"}))]

summarize_symbolization(symbolizer, groups) ==
    TallyFrames(Mapped(FlattenSeq(Mapped(groups, LAMBDA g : g.stack)),
                       LAMBDA a : symbolize(symbolizer, a)))

capture_is_complete(capture, grouped, group_capacity_reached) ==
    /\ ~capture.capacity_reached /\ ~group_capacity_reached
    /\ capture.lost = 0 /\ capture.throttled = 0
    /\ capture.skipped = 0
    /\ grouped = capture.observed

append_capture_warnings(capture) ==
    {w \in {"sample_capacity", "lost", "throttled", "skipped"} :
        \/ w = "sample_capacity" /\ capture.capacity_reached
        \/ w = "lost" /\ capture.lost # 0
        \/ w = "throttled" /\ capture.throttled # 0
        \/ w = "skipped" /\ capture.skipped # 0}

Inventory(capture, max_groups, raw, grouped, symbolizer, symbolization) ==
    [ok |-> TRUE, groups |-> raw.groups, grouped |-> grouped,
     hotspots |-> aggregate_hotspots(raw.groups, max_groups),
     symbolization |-> symbolization,
     complete |-> capture_is_complete(capture, grouped, raw.capacity_reached),
     warnings |-> symbolizer.warnings \cup append_capture_warnings(capture)
       \cup (IF raw.capacity_reached THEN {"group_capacity"} ELSE {})
       \cup (IF symbolizer.status = "active" /\ symbolization.python = 0 THEN {"python_unresolved"} ELSE {})]

Analyzed(capture, max_groups, symbolizer, raw) ==
    IF ~symbolizer.ok THEN symbolizer
    ELSE Inventory(capture, max_groups, raw, SampleSum(raw.groups, DOMAIN raw.groups), symbolizer,
                   summarize_symbolization(symbolizer, raw.groups))

\* analyze between its two checks of the target's identity.
analyze(process, capture, max_groups) ==
    Analyzed(capture, max_groups, load(process, capture.python),
             aggregate_raw_stacks(capture.samples, max_groups))

-----------------------------------------------------------------------------
(* The numbers of a complete inventory are those of the samples: every     *)
(* hotspot's inclusive count is the number of samples with its address in  *)
(* the chain (recursion counts once), its exclusive count the number of    *)
(* samples taken in it, and no address left out is hotter than one kept.   *)
(* An inventory that misses a sample says so, by its completeness and by a *)
(* warning.  A file that cannot be read costs symbols and no samples, and  *)
(* a sampled address of it comes with a warning.                           *)
HotspotsCountTheSamples(process, capture, max_groups) ==
    LET On(a) == {i \in DOMAIN capture.samples : a \in ToSet(capture.samples[i])}
        In(a) == {i \in On(a) : capture.samples[i][1] = a}
        seen  == UNION {ToSet(capture.samples[i]) : i \in DOMAIN capture.samples}
        Lost(a) == \E r \in ToSet(process.maps) : /\ r.exec /\ r.path \in process.unreadable
                                                 /\ r.start <= a /\ a < r.end
    IN  \A r \in {analyze(process, capture, max_groups)} : r.ok =>
        /\ r.complete =>
             /\ \A h \in ToSet(r.hotspots) : /\ h.inclusive = Cardinality(On(h.address))
                                             /\ h.exclusive = Cardinality(In(h.address))
             /\ \A h \in ToSet(r.hotspots), b \in seen \ {k.address : k \in ToSet(r.hotspots)} :
                  Cardinality(On(h.address)) >= Cardinality(On(b))
             /\ capture.lost = 0 /\ r.grouped = Len(capture.samples)
             /\ r.warnings \subseteq {"python_unresolved", "module_unavailable"}
             /\ (\E a \in seen : Lost(a)) => "module_unavailable" \in r.warnings
        /\ ~r.complete => r.warnings # {}
        /\ r.symbolization.total =
             r.symbolization.native + r.symbolization.python + r.symbolization.unresolved

(* The selector that a hotspot suggests measures the function the sample   *)
(* was taken in: resolve accepts it, puts the probe at the file offset of  *)
(* a symbol whose code contains the sampled address, and finds it mapped   *)
(* where the loader put that symbol (Resolve's shared pages aside).  A     *)
(* symbol without a size reaches to the next one.                          *)
HintProbesTheSampledFunction(process, bias, address) ==
    LET bin == "bin"
        elf == process.elf[bin]
        hints == ToSet(selector_hints(symbolize(load(process, "not_detected"), bias + address)))
    IN  (\E s \in ToSet(elf.segments) : s.exec /\ InSegment(address, s)) =>
        \A r \in {resolve_run(process, h.path, h.target) : h \in hints} :
        /\ r.ok
        /\ \E f \in elf.dynamic \cup elf.full :
             /\ virtual_address_to_file_offset(elf, f.address) = [ok |-> TRUE, offset |-> r.offset]
             /\ \/ f.address <= address /\ address < f.address + f.size
                \/ f.size = 0
             /\ r.runtime = bias + f.address \/ SharedPage(elf.segments, r.offset)

(* A Python frame carries the newest name of its address.  The interpreter *)
(* appends to the perf map, so of two entries the later line is the code   *)
(* that is there now; entries that overlap with different starts aside, an *)
(* address never gets the name of code that was replaced.                  *)
PythonFrameIsTheNewest(lines, address) ==
    LET Covers(k) == lines[k].start <= address /\ address < lines[k].start + lines[k].size
        starts == {lines[k].start : k \in {n \in DOMAIN lines : Covers(n)}}
        Newest(symbols, i) ==
          i # 0 => \E k \in DOMAIN lines : /\ Covers(k) /\ lines[k] = symbols[i]
                                           /\ \A n \in DOMAIN lines : Covers(n) => n <= k
    IN  \A parsed \in {parse_perf_map(lines)} :
          (parsed.ok /\ Cardinality(starts) <= 1) =>
             Newest(parsed.symbols, find_perf_symbol(parsed.symbols, address))
=============================================================================
