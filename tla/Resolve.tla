------------------------------- MODULE Resolve -------------------------------
(***************************************************************************)
(* core/src/resolve.rs: from the binary and the symbol or file offset of a *)
(* uprobe selector to the file offset where the kernel puts the probe and  *)
(* the address where the target has it mapped.  A process is a record:     *)
(*   canonical   a function from the paths that exist to canonical paths   *)
(*   maps        the lines of /proc/<pid>/maps in order, records with      *)
(*               start, end, offset, exec and path (Absent: not a file)    *)
(*   elf         a function from binaries to their segments and to their   *)
(*               dynamic and full symbol tables                            *)
(***************************************************************************)
EXTENDS Naturals, FiniteSets, Sequences, SequencesExt

Absent == "absent"
Fails(code) == [ok |-> FALSE, code |-> code]

\* Addresses of the text definitions whose raw or demangled name is `name`.
collect_symbol_matches(symbols, name, demangled) ==
    {s \in symbols : /\ s.text
                     /\ (IF demangled THEN s.demangled ELSE s.mangled) = name}

\* None, one address, or an error: an ambiguous name is never settled silently.
select_symbol_match(matches) ==
    CASE matches = {} -> [ok |-> TRUE, found |-> FALSE]
      [] Cardinality({s.address : s \in matches}) = 1 ->
           [ok |-> TRUE, found |-> TRUE, symbol |-> CHOOSE s \in matches : TRUE]
      [] OTHER -> Fails("AmbiguousTarget")

\* Raw names of both tables, then demangled dynamic names, then the others.
FirstDecisive(tries) ==
    LET i == SelectInSeq(tries, LAMBDA t : ~t.ok \/ t.found)
    IN  IF i = 0 THEN Fails("SymbolNotFound") ELSE tries[i]

resolve_symbol(elf, name) ==
    FirstDecisive(<< select_symbol_match(collect_symbol_matches(elf.dynamic \cup elf.full, name, FALSE)),
                     select_symbol_match(collect_symbol_matches(elf.dynamic, name, TRUE)),
                     select_symbol_match(collect_symbol_matches(elf.full, name, TRUE)) >>)

InSegment(address, s) == address >= s.vaddr /\ address - s.vaddr < s.size

virtual_address_to_file_offset(elf, address) ==
    LET i == SelectInSeq(elf.segments, LAMBDA s : InSegment(address, s))
    IN  IF i = 0 THEN Fails("InvalidEventSelector")
        ELSE [ok |-> TRUE, offset |-> elf.segments[i].offset + (address - elf.segments[i].vaddr)]

file_offset_to_virtual_address(elf, offset) ==
    LET i == SelectInSeq(elf.segments, LAMBDA s : offset >= s.offset /\ offset - s.offset < s.size)
    IN  IF i = 0 THEN Fails("InvalidEventSelector")
        ELSE [ok |-> TRUE, address |-> elf.segments[i].vaddr + (offset - elf.segments[i].offset)]

(* Mutant: the end of a region is taken for a part of it. *)
region_containsEnd(region, offset) ==
    /\ offset >= region.offset
    /\ offset - region.offset <= region.end - region.start

region_contains_offset(region, offset) ==
    /\ offset >= region.offset
    /\ offset - region.offset < region.end - region.start

SymbolAt(symbol, place) ==
    IF ~place.ok THEN place
    ELSE [ok |-> TRUE, symbol |-> symbol.mangled, demangled |-> symbol.demangled,
          offset |-> place.offset]

SymbolTarget(elf, match) ==
    IF ~match.ok THEN match
    ELSE SymbolAt(match.symbol, virtual_address_to_file_offset(elf, match.symbol.address))

\* target: its form, "symbol" or "offset", and the name or the offset.
resolve_probe_target(elf, target) ==
    IF target.form = "symbol" THEN SymbolTarget(elf, resolve_symbol(elf, target.name))
    ELSE IF ~file_offset_to_virtual_address(elf, target.offset).ok
         THEN Fails("InvalidEventSelector")
         ELSE [ok |-> TRUE, symbol |-> Absent, demangled |-> Absent, offset |-> target.offset]

\* The file-backed lines; the permissions are not looked at.
parse_maps(lines) == SelectSeq(lines, LAMBDA r : r.path # Absent)

\* The first region that contains the probe gives its address.
MappedAt(binary, regions, probe) ==
    LET i == SelectInSeq(regions, LAMBDA r : region_contains_offset(r, probe.offset))
    IN  IF ~probe.ok THEN probe
        ELSE IF i = 0 THEN Fails("BinaryNotMapped")
        ELSE [ok |-> TRUE, binary |-> binary, symbol |-> probe.symbol,
              demangled |-> probe.demangled, offset |-> probe.offset,
              runtime |-> regions[i].start + (probe.offset - regions[i].offset)]

InRegions(process, binary, regions, target) ==
    IF regions = <<>> THEN Fails("BinaryNotMapped")
    ELSE MappedAt(binary, regions, resolve_probe_target(process.elf[binary], target))

\* run between its two checks of the target's identity.
resolve_run(process, path, target) ==
    IF path \notin DOMAIN process.canonical THEN Fails("Internal")
    ELSE InRegions(process, process.canonical[path],
                   SelectSeq(parse_maps(process.maps), LAMBDA r : r.path = process.canonical[path]),
                   target)

-----------------------------------------------------------------------------
(* How the kernel maps a binary: every segment at bias + vaddr, grown to   *)
(* whole pages at both ends, in memory as in the file.                     *)
Page == 4
Down(n) == n - (n % Page)
Up(n) == Down(n + Page - 1)

LoaderMaps(path, segments, bias) ==
    [i \in DOMAIN segments |->
        [start  |-> bias + Down(segments[i].vaddr),
         end    |-> bias + Up(segments[i].vaddr + segments[i].size),
         offset |-> Down(segments[i].offset),
         exec   |-> segments[i].exec,
         path   |-> path]]

\* The file page of this offset is mapped by more than one segment.
SharedPage(segments, offset) ==
    Cardinality({i \in DOMAIN segments :
        offset >= Down(segments[i].offset)
        /\ offset < Up(segments[i].offset + segments[i].size)}) > 1

(* The address that resolve reports for a symbol is where the loader put   *)
(* the symbol, and a selector by file offset gives the same address.  The  *)
(* first region that contains the offset is the wrong one when two         *)
(* segments share the file page; the probe itself, which the kernel puts   *)
(* by file offset, is right then too.                                      *)
RuntimeAddressIsTheSymbol(segments, bias, address) ==
    LET bin     == "bin"
        symbol  == [mangled |-> "f", demangled |-> Absent, address |-> address, text |-> TRUE]
        process == [canonical |-> [p \in {bin} |-> bin],
                    maps |-> LoaderMaps(bin, segments, bias),
                    elf  |-> [p \in {bin} |-> [segments |-> segments, dynamic |-> {}, full |-> {symbol}]]]
        owners  == {s \in ToSet(segments) : InSegment(address, s)}
    IN  \A r \in {resolve_run(process, bin, [form |-> "symbol", name |-> "f", offset |-> 0])} :
          /\ r.ok <=> owners # {}
          /\ \A s \in owners :
               /\ r.offset = s.offset + (address - s.vaddr)
               /\ r.runtime = bias + address \/ SharedPage(segments, r.offset)
               /\ \E again \in {resolve_run(process, bin, [form |-> "offset", name |-> Absent,
                                                         offset |-> r.offset])} :
                    again.ok /\ again.runtime = r.runtime
=============================================================================
