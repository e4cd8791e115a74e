----------------------------- MODULE NameFilters -----------------------------
(***************************************************************************)
(* Kernel and NVTX names as they pass through the system.  A selector      *)
(* holds a regular expression; the CLI reduces it to an exact, prefix,     *)
(* suffix or contains filter that the Agent applies before it stores a     *)
(* record, or to no filter; names are cut to NameCapacity - 1           *)
(* characters; and an aggregate inventory turns a name back into a         *)
(* selector.  The conversions are about characters, so here, and only      *)
(* here, a name or a pattern is a sequence of characters.                  *)
(***************************************************************************)
EXTENDS Naturals, Sequences, SequencesExt

CONSTANT NameCapacity       \* CUPTI_NAME_CAPACITY

ASSUME NameCapacityAssumption == NameCapacity \in Nat \ {0, 1}

None == "none"
AnyName == [match |-> "any", name |-> <<>>]

\* The characters that stand for themselves only behind a backslash.
Special == {".", "+", "*", "?", "(", ")", "|", "[", "]", "{", "}", "^", "$"}
Alphanumeric == {"a", "b", "d"}

(* A backslash followed by a letter or nothing, or a bare special          *)
(* character, makes the pattern more than a literal.                       *)
regex_literal(pattern) ==
    LET n == Len(pattern)
        f[i \in 1..(n + 1)] ==
          IF i > n THEN <<>>
          ELSE LET w == IF pattern[i] = "\\" THEN 2 ELSE 1
                   c == IF i + w - 1 <= n THEN pattern[i + w - 1] ELSE None
                   rest == IF i + w <= n + 1 THEN f[i + w] ELSE None
               IN  IF \/ c = None
                      \/ rest = None
                      \/ w = 2 /\ c \in Alphanumeric
                      \/ w = 1 /\ c \in Special
                   THEN None
                   ELSE <<c>> \o rest
    IN  f[1]

AnyStar == <<".", "*">>

\* The forms that the code tries, in its order.
Candidates == <<
    [prefix |-> <<"^">>, suffix |-> <<"$">>, match |-> "exact"],
    [prefix |-> <<"^">>, suffix |-> AnyStar, match |-> "prefix"],
    [prefix |-> AnyStar, suffix |-> <<"$">>, match |-> "suffix"],
    [prefix |-> AnyStar, suffix |-> AnyStar, match |-> "contains"],
    [prefix |-> <<"^">>, suffix |-> <<>>,    match |-> "prefix"],
    [prefix |-> <<>>,    suffix |-> <<"$">>, match |-> "suffix"],
    [prefix |-> AnyStar, suffix |-> <<>>,    match |-> "contains"],
    [prefix |-> <<>>,    suffix |-> <<>>,    match |-> "contains"] >>

\* strip_prefix, strip_suffix and regex_literal: the literal or None.
Literal(pattern, candidate) ==
    LET p == Len(candidate.prefix)
        s == Len(candidate.suffix)
    IN  IF /\ p + s <= Len(pattern)
           /\ IsPrefix(candidate.prefix, pattern)
           /\ IsSuffix(candidate.suffix, pattern)
        THEN regex_literal(SubSeq(pattern, p + 1, Len(pattern) - s))
        ELSE None

Bounded(literal) == literal # None /\ literal # <<>> /\ Len(literal) < NameCapacity

is_bounded_name_regex(pattern) ==
    \E i \in DOMAIN Candidates : Bounded(Literal(pattern, Candidates[i]))

bounded_kernel_name_filter(pattern) ==
    LET fits == {i \in DOMAIN Candidates : Bounded(Literal(pattern, Candidates[i]))}
    IN  IF pattern = AnyStar \/ fits = {}
        THEN AnyName
        ELSE LET i == CHOOSE i \in fits : \A j \in fits : i <= j
             IN  [match |-> Candidates[i].match, name |-> Literal(pattern, Candidates[i])]

-----------------------------------------------------------------------------
(* The Agent.                                                              *)

\* A record or a table slot keeps the first NameCapacity - 1 characters.
copy_name(name) ==
    IF Len(name) < NameCapacity THEN name ELSE SubSeq(name, 1, NameCapacity - 1)

(* Mutant: the last position is not tried. *)
name_matchesTooShort(filter, name) ==
    LET seen  == SubSeq(name, 1, IF Len(name) < NameCapacity THEN Len(name) ELSE NameCapacity)
        whole == Len(seen) < NameCapacity
    IN  CASE filter.match = "any"      -> TRUE
          [] filter.match = "exact"    -> whole /\ seen = filter.name
          [] filter.match = "prefix"   -> IsPrefix(filter.name, seen)
          [] filter.match = "suffix"   -> whole /\ IsSuffix(filter.name, seen)
          [] filter.match = "contains" ->
               \E o \in 0..(Len(seen) - Len(filter.name) - 1) :
                  SubSeq(seen, o + 1, o + Len(filter.name)) = filter.name

\* Of a longer name only the first NameCapacity characters are looked at.
name_matches(filter, name) ==
    LET seen  == SubSeq(name, 1, IF Len(name) < NameCapacity THEN Len(name) ELSE NameCapacity)
        whole == Len(seen) < NameCapacity
    IN  CASE filter.match = "any"      -> TRUE
          [] filter.match = "exact"    -> whole /\ seen = filter.name
          [] filter.match = "prefix"   -> IsPrefix(filter.name, seen)
          [] filter.match = "suffix"   -> whole /\ IsSuffix(filter.name, seen)
          [] filter.match = "contains" ->
               \E o \in 0..(Len(seen) - Len(filter.name)) :
                  SubSeq(seen, o + 1, o + Len(filter.name)) = filter.name

-----------------------------------------------------------------------------
(* From an inventory back to a selector.                                   *)

(* Mutant: the terminator is not counted. *)
name_completeUnterminated(stored) == Len(stored) < NameCapacity

name_complete(stored) == Len(stored) + 1 < NameCapacity

escape_selector_regex(name) ==
    FlattenSeq([i \in DOMAIN name |->
        IF name[i] \in Special \cup {"\\"} THEN <<"\\", name[i]>> ELSE <<name[i]>>])

\* The expression of the hint; start and end hints share it.
aggregate_selector_hint(stored) ==
    <<"^">> \o escape_selector_regex(stored)
            \o (IF name_complete(stored) THEN <<"$">> ELSE <<>>)

-----------------------------------------------------------------------------
(* The regular expressions of the regex crate, for the characters above:   *)
(* a backslash quotes the next character, except that \< and \> are        *)
(* assertions; "." is any character; "*" repeats what precedes it.         *)
Word(c) == c \in Alphanumeric

regex_match(pattern, name) ==
    LET p == Len(pattern)
        n == Len(name)
        At(k) == k \in 1..n /\ Word(name[k])
        m[i \in 1..(p + 1), j \in 1..(n + 1)] ==
          IF i = p + 1 THEN TRUE
          ELSE LET w    == IF pattern[i] = "\\" THEN 2 ELSE 1
                   c    == pattern[i + w - 1]
                   star == i + w <= p /\ pattern[i + w] = "*"
                   one  == j <= n /\ ((w = 1 /\ c = ".") \/ name[j] = c)
               IN  CASE star -> m[i + w + 1, j] \/ (one /\ m[i, j + 1])
                     [] ~star /\ w = 1 /\ c = "^" -> j = 1 /\ m[i + 1, j]
                     [] ~star /\ w = 1 /\ c = "$" -> j = n + 1 /\ m[i + 1, j]
                     [] ~star /\ w = 2 /\ c = "<" -> At(j) /\ ~At(j - 1) /\ m[i + 2, j]
                     [] OTHER -> one /\ m[i + w, j + 1]
    IN  \E j \in 1..(n + 1) : m[1, j]

\* A word-boundary assertion, which the reduction takes for the character.
HasAssertion(pattern) ==
    \E i \in 1..(Len(pattern) - 1) : pattern[i] = "\\" /\ pattern[i + 1] = "<"

-----------------------------------------------------------------------------
(* An expression that the CLI can reduce selects, among the names that     *)
(* records hold, just the names that its filter lets through: the Agent's  *)
(* early filtering (name_matches) neither hides an event that the          *)
(* correlator would match nor spends capacity on others.  Expressions with *)
(* \< or \> are the exception: they are reduced to the bare character.     *)
LoweredFilterIsTheRegex(pattern, names) ==
    LET filter == bounded_kernel_name_filter(pattern)
    IN  (filter # AnyName /\ ~HasAssertion(pattern)) =>
          \A name \in names :
             LET stored == copy_name(name)
             IN  name_matches(filter, stored) <=> regex_match(pattern, stored)

(* The selector that an aggregate inventory suggests for a kernel is       *)
(* accepted by the next command, can be reduced to a filter, and selects   *)
(* the kernel whose group it was printed for, cut names included.          *)
HintSelectsItsGroup(name) ==
    LET hint   == aggregate_selector_hint(copy_name(name))
        filter == bounded_kernel_name_filter(hint)
    IN  (name # <<>>) =>
          /\ is_bounded_name_regex(hint)
          /\ filter # AnyName
          /\ name_matches(filter, name)
          /\ name_matches(filter, copy_name(name))
          /\ regex_match(hint, name)
          /\ (filter.match = "exact") = (Len(name) < NameCapacity - 1)
=============================================================================
